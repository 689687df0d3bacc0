----------------------------- MODULE CorpusImport -----------------------------
(***************************************************************************)
(* Importing archives into the lab (import_private_corpus.py): every       *)
(* archive is scanned, every destination looked at, every image read again *)
(* into a private directory, and only then linked under its name.  Each    *)
(* call on a name is a step: the file under it may change between linking  *)
(* and looking at what was linked, and between checking and unlinking.     *)
(***************************************************************************)
EXTENDS CorpusLab

CONSTANTS
  Archives,    \* the source archives in the order of their paths
  Bodies       \* what an archive may be replaced by: [members, image]

Body == [members : Nat, image : Image \cup Misfits]
ASSUME ArchiveFiles ==
  /\ Archives \in Seq(ToSet(Archives))
  /\ Bodies \subseteq Body
  /\ \A lab \in Labs : lab.zips \in [ToSet(Archives) -> Body]

VARIABLES
  zips,        \* for each archive its body, or Nothing
  imp,         \* the importer
  raced        \* history: the user's files saved in the two windows below

importVars == <<zips, imp, raced>>

Fresh(n, apply) ==
  [pc |-> "key", no |-> n, apply |-> apply, todo |-> Archives, found |-> << >>, body |-> << >>,
   rejected |-> FALSE, planned |-> << >>, staged |-> << >>, linked |-> << >>,
   stuck |-> {}, outcome |-> "none"]

(* An archive holds exactly one regular file, safe and with the suffix of   *)
(* an image, and that file is an image.                                     *)
_validated_regular_member(body) == body # Nothing /\ body.members = 1
_inspect_rom(body) == _validated_regular_member(body) /\ inspect_rom_bytes(body.image)

(* The step a loop is at: with work left, or through. *)
Doing(pc) == imp.pc = pc /\ imp.todo # << >>
Through(pc) == imp.pc = pc /\ imp.todo = << >>
Step(next) ==
  /\ imp' = next
  /\ UNCHANGED <<zips, raced, key, spent>>
Failing(next) ==
  /\ Accident("fail")
  /\ imp' = next
  /\ UNCHANGED <<zips, raced, key>>

Ended(outcome) ==
  [Fresh(imp.no, imp.apply) EXCEPT !.pc = "idle", !.outcome = outcome, !.stuck = imp.stuck]
To(pc, todo) == [imp EXCEPT !.pc = pc, !.todo = todo]
Rest == [imp EXCEPT !.todo = Tail(@)]

ImportStart(apply) ==
  /\ imp.pc = "idle" /\ Starting
  /\ imp' = Fresh(imp.no + 1, apply)
  /\ UNCHANGED <<roms, key, zips, raced>>

ImportKey ==
  /\ \E next \in {"write_key", "scan", "idle"} :
       /\ load_or_create_key(imp.pc, next)
       /\ imp' = IF next = "idle" THEN Ended("refused") ELSE [imp EXCEPT !.pc = next]
  /\ UNCHANGED <<roms, zips, raced, spent>>

(* The first archive with an image stands for it.  One rejection rejects    *)
(* the import.                                                              *)
_scan ==
  /\ Doing("scan")
  /\ LET body == zips[Head(imp.todo)] IN
     Step(IF ~_inspect_rom(body) THEN [Rest EXCEPT !.rejected = TRUE]
       ELSE IF body.image \in ToSet(imp.found) THEN Rest
       ELSE [Rest EXCEPT !.found = Append(@, body.image),
                         !.body = Append(@, <<Head(imp.todo), body>>)])
  /\ UNCHANGED roms

(* The one list of these images in the order of their names. *)
InOrder(S) == {s \in SeqOf(S, Len(Images)) : s = SelectSeq(Images, LAMBDA d : d \in S)}

Scanned ==
  /\ Through("scan")
  /\ \/ imp.rejected /\ Step(Ended("rejected"))
     \/ ~imp.rejected /\ \E candidates \in InOrder(ToSet(imp.found)) : Step(To("plan", candidates))
  /\ UNCHANGED roms

(* Reading the archive of a candidate again must give the same bytes. *)
Origin(d) == imp.body[CHOOSE k \in 1 .. Len(imp.found) : imp.found[k] = d]
_rescan(d) == _inspect_rom(zips[Origin(d)[1]]) /\ zips[Origin(d)[1]] = Origin(d)[2]
Reread(d) == zips[Origin(d)[1]].image

_destination_state(d) ==
  IF roms[d] = Nothing THEN "new"
  ELSE IF _rescan(d) /\ roms[d].data = Reread(d) THEN "already_present" ELSE "conflict"

Plan ==
  /\ Doing("plan")
  /\ LET d == Head(imp.todo) IN
     Step([Rest EXCEPT !.rejected = @ \/ _destination_state(d) = "conflict",
                       !.planned = IF _destination_state(d) = "new" THEN Append(@, d) ELSE @])
  /\ UNCHANGED roms

Planned ==
  /\ Through("plan")
  /\ Step(IF imp.rejected THEN Ended("rejected")
          ELSE IF imp.apply /\ imp.planned # << >> THEN To("stage", imp.planned)
          ELSE Ended("reported"))
  /\ UNCHANGED roms

(* The last reading is what will be linked; any failure undoes the import.  *)
Stage ==
  /\ Doing("stage")
  /\ LET d == Head(imp.todo) IN
     \/ _rescan(d) /\ Step([Rest EXCEPT !.staged = Append(@, Reread(d))])
     \/ Step([imp EXCEPT !.pc = "undo"])
  /\ UNCHANGED roms

Staged ==
  /\ Through("stage")
  /\ Step(To("link", imp.planned))
  /\ UNCHANGED roms

LinkFile(d) ==
  /\ roms[d] = Nothing
  /\ roms' = [roms EXCEPT ![d] = File(imp.staged[Len(imp.linked) + 1], imp.no)]
  /\ Step([imp EXCEPT !.pc = "stat"])

Link ==
  /\ Doing("link")
  /\ \/ LinkFile(Head(imp.todo))
     \/ Step([imp EXCEPT !.pc = "undo"]) /\ UNCHANGED roms

(* What is recorded as committed is the file now under the name.  A file    *)
(* that cannot be looked at is never put on the list.                       *)
Stat ==
  /\ Doing("stat")
  /\ LET d == Head(imp.todo) IN
     \/ roms[d] # Nothing
        /\ Step([Rest EXCEPT !.pc = "link", !.linked = Append(@, [name |-> d, by |-> roms[d].by])])
     \/ roms[d] = Nothing /\ Step([imp EXCEPT !.pc = "undo"])
     \/ Failing([imp EXCEPT !.pc = "undo", !.stuck = @ \cup {d}])
  /\ UNCHANGED roms

Linked ==
  /\ Through("link")
  /\ Step(To("chmod", [k \in 1 .. Len(imp.linked) |-> imp.linked[k].name]))
  /\ UNCHANGED roms

(* The modes are set by name; one that cannot be set, and a private         *)
(* directory that cannot be removed, fail the import.                       *)
Chmod ==
  /\ imp.pc = "chmod"
  /\ \/ imp.todo # << >> /\ roms[Head(imp.todo)] # Nothing /\ Step(Rest)
     \/ imp.todo = << >> /\ Step(Ended("imported"))
     \/ Step([imp EXCEPT !.pc = "undo"])
  /\ UNCHANGED roms

(* The rollback goes through the list, last first: a file that is still the *)
(* one recorded is unlinked, by name.  An error is passed over.             *)
StillNamed(e) == roms[e.name] # Nothing
StillCommitted(e) == roms[e.name] # Nothing /\ roms[e.name].by = e.by
UndoneUntilError(failed) ==
  [imp EXCEPT !.pc = "undo", !.linked = IF failed = {} THEN Front(@) ELSE << >>,
              !.stuck = @ \cup failed]
Undone(failed) == [imp EXCEPT !.pc = "undo", !.linked = Front(@), !.stuck = @ \cup failed]

Undo ==
  /\ imp.pc = "undo" /\ imp.linked # << >>
  /\ LET e == Last(imp.linked) IN
     \/ StillCommitted(e) /\ Step([imp EXCEPT !.pc = "unlink"])
     \/ ~StillCommitted(e) /\ Step(Undone({}))
     \/ Failing(Undone({e.name}))
  /\ UNCHANGED roms

Unlink ==
  /\ imp.pc = "unlink"
  /\ LET n == Last(imp.linked).name IN
     \/ roms' = [roms EXCEPT ![n] = Nothing] /\ Step(Undone({}))
     \/ UNCHANGED roms /\ Failing(Undone({n}))

Failed ==
  /\ imp.pc = "undo" /\ imp.linked = << >>
  /\ Step(Ended("failed"))
  /\ UNCHANGED roms

ImportStep == \/ ImportKey \/ _scan \/ Scanned \/ Plan \/ Planned \/ Stage \/ Staged
              \/ Link \/ Stat \/ Linked \/ Chmod \/ Undo \/ Unlink \/ Failed

(* Killed, or stopped from the keyboard: neither is rolled back. *)
ImportKill ==
  /\ imp.pc # "idle" /\ Accident("kill")
  /\ imp' = Ended("killed")
  /\ UNCHANGED <<roms, key, zips, raced>>

SwapArchive(a, body) ==
  /\ zips[a] # body
  /\ zips' = [zips EXCEPT ![a] = body]
  /\ UNCHANGED <<roms, key, imp, raced>>

(* A file the user saves between a link and the look at what was linked is  *)
(* taken for the one committed; one saved between the check and the unlink  *)
(* is not looked at.                                                        *)
Window(n) == \/ imp.pc = "stat" /\ n = Head(imp.todo)
             \/ imp.pc = "unlink" /\ n = Last(imp.linked).name
ChangeFile(n) ==
  /\ \/ /\ \E d \in Image \cup Misfits : PutRom(n, d)
        /\ raced' = IF Window(n) THEN raced \cup {Saved} ELSE raced
     \/ /\ RemoveRom(n) \/ \E d \in Image \cup Misfits : EditRom(n, d)
        /\ UNCHANGED raced
  /\ UNCHANGED <<zips, imp, key>>
=============================================================================
