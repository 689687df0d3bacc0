-------------------------------- MODULE Doctor --------------------------------
(***************************************************************************)
(* swan_song_doctor.py: of the read-only audit, what it finds of the       *)
(* definitions, the games and the presets; and --fix-presets, which        *)
(* publishes a default pair for every game that has neither preset.        *)
(***************************************************************************)
EXTENDS PresetPair, SaveMigration

CONSTANT WellMade    \* changes of the owner that, as a preset, meet the contract

Finding(severity, code, path) == [severity |-> severity, code |-> code, path |-> path]

(* _validate_definitions: both definitions there, whole and of the core. *)
validate_definitions ==
  {Finding("ERROR", "definition-missing", Definitions[k]) :
     k \in {j \in 1 .. 2 : ~Has(Pub(Definitions[j]))}}
  \cup {Finding("ERROR", "definition-contract", Definitions[k]) :
          k \in {j \in 1 .. 2 : Has(Pub(Definitions[j])) /\ ~ValidDefinition(j)}}

(* _inspect_assets: the games, by the stem their presets mirror. *)
Whole == {k \in 1 .. Len(Roms) : Roms[k].whole}
Stems == {Roms[k].stem : k \in Whole}
Ambiguous(g) == \E j, k \in Whole : j # k /\ Roms[j].stem = g /\ Roms[k].stem = g

(* _inspect_preset_kind: what is there, and what of it breaks the contract. *)
(* A generated preset meets it, and so may one the owner made; half a file  *)
(* never does.                                                              *)
PresetsOf(kind) == {g \in {Roms[k].stem : k \in 1 .. Len(Roms)} :
                      Has(Pub(preset_relative_path(kind, g)))}
MeetsContract(file) == /\ file.form # "partial"
                       /\ file.by = "preset" \/ (file.by = "owner" /\ file.n \in WellMade)
inspect_preset_kind(kind) ==
  {Finding("ERROR", "preset-invalid", preset_relative_path(kind, g)) :
     g \in {h \in PresetsOf(kind) : ~MeetsContract(fs[Pub(preset_relative_path(kind, h))])}}
  \cup {Finding("INFO", "preset-orphan", preset_relative_path(kind, g)) :
          g \in PresetsOf(kind) \ Stems}

(* plan_presets: refused without definitions that can generate presets and *)
(* for an ambiguous stem; a one-sided pair is left alone.                  *)
Plannable == /\ \A k \in 1 .. 2 : ValidDefinition(k)
             /\ \A g \in Stems : ~Ambiguous(g)
plan_presets ==
  SelectSeq([k \in 1 .. Len(Roms) |-> Roms[k].stem],
            LAMBDA g : g \in Stems \ (PresetsOf("interact") \cup PresetsOf("input")))

(* apply_presets audits and plans again, then takes the games in order. *)
apply_presets ==
  /\ Plannable
  /\ plan_presets # <<>>
  /\ Starts("preset", "prepare", PairOf(Head(plan_presets)), Tail(plan_presets))

(* The next pair of the plan is built from the definitions of this moment. *)
apply_next_pair ==
  /\ Preset("doctor")
  /\ task' = IF \A k \in 1 .. 2 : ValidDefinition(k)
             THEN [task EXCEPT !.pc = "prepare", !.i = 1, !.left = Tail(@),
                               !.items = PairOf(Head(task.left)),
                               !.before = Known(PairOf(Head(task.left)))]
             ELSE [task EXCEPT !.pc = "done", !.left = <<>>,
                               !.result = "committed"]   \* earlier pairs stay
  /\ UNCHANGED <<fs, owed, spent>>

DoctorNext == apply_presets \/ apply_next_pair
=============================================================================
