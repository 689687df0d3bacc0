------------------------------ MODULE CardFiles ------------------------------
(***************************************************************************)
(* The SD card as the host tools see it: a directory of names, each bound  *)
(* to a file with an inode number and contents.  The tools publish with    *)
(* an exclusive rename and park what they displace under random hidden     *)
(* names, so no two private names ever clash and nobody else opens one.    *)
(*                                                                         *)
(* One tool runs at a time (`task`).  Around it act the owner of the card  *)
(* (another program saving, editing or deleting a file under a public      *)
(* name), failing system calls, Ctrl-C, and a crash of the process.        *)
(***************************************************************************)
EXTENDS Naturals, Sequences, FiniteSets

CONSTANTS MaxForeign,    \* bound on the owner's changes
          MaxFaults,     \* bound on I/O errors, interrupts and crashes
          MaxRuns,       \* bound on tool invocations
          MaxEvents      \* bound on the three together

ASSUME CardBounds == {MaxForeign, MaxFaults, MaxRuns, MaxEvents} \subseteq Nat

VARIABLES
  fs,      \* name -> file
  owed,    \* files of the owner that no tool has been allowed to discard
  task,    \* the running tool: its progress and what it knows
  spent    \* inodes, foreign changes, faults and runs used so far

cardVars == <<fs, owed, task, spent>>

-----------------------------------------------------------------------------
(* Names, files and the system calls. *)

NoFile == [id |-> 0, by |-> "none", n |-> 0, form |-> "none"]
File(id, data) == [id |-> id, by |-> data.by, n |-> data.n, form |-> data.form]
Data(by, n, form) == [by |-> by, n |-> n, form |-> form]
DataOf(file) == Data(file.by, file.n, file.form)

Pub(n) == <<n, "public", 0>>
Hidden(n, purpose) == <<n, purpose, spent.runs>>
IsPublic(n) == n[2] = "public"

Has(n) == n \in DOMAIN fs
Look(n) == IF Has(n) THEN fs[n] ELSE NoFile

Put(f, n, file) == [m \in DOMAIN f \cup {n} |-> IF m = n THEN file ELSE f[m]]
Drop(f, n) == [m \in DOMAIN f \ {n} |-> f[m]]
Move(f, from, to) == [m \in (DOMAIN f \ {from}) \cup {to} |->
                        IF m = to THEN f[from] ELSE f[m]]

(* The exclusive rename: fails when the source is gone or the target taken. *)
CanRename(from, to) == Has(from) /\ ~Has(to)
Renamed(from, to) == fs' = Move(fs, from, to)

NewId == spent.ids + 1
Room == spent.foreign + spent.faults + spent.runs < MaxEvents
Count(field) == spent' = [spent EXCEPT ![field] = @ + 1]

-----------------------------------------------------------------------------
(* What a running tool remembers about one output file. *)

Item(name, payload) ==
  [name |-> name, payload |-> payload,
   orig |-> NoFile,        \* the snapshot it took of the public name
   temp |-> 0,             \* inode of the temporary it still owns
   installed |-> 0,        \* inode it recorded as published
   backup |-> FALSE]       \* it recorded that the original is parked

(* Besides its progress: the names it reported a conflict for, whether    *)
(* Ctrl-C hit it, the result, the work left to a command of several        *)
(* transactions; and, for the properties, what the owner last knew at each *)
(* name and what it has known there during the run (`before`), and the     *)
(* names changed since the tool last checked them.                         *)
Idle == [tool |-> "none", pc |-> "idle", i |-> 0, items |-> <<>>,
         report |-> {}, hurt |-> FALSE, result |-> "none", left |-> <<>>,
         before |-> {}, touched |-> {}]

Known(items) == {[name |-> items[k].name, file |-> Look(Pub(items[k].name)),
                  had |-> {Look(Pub(items[k].name))}] : k \in 1 .. Len(items)}

Starts(tool, pc, items, left) ==
  /\ task.pc = "idle"
  /\ spent.runs < MaxRuns /\ Room
  /\ Count("runs")
  /\ task' = [Idle EXCEPT !.tool = tool, !.pc = pc, !.i = 1, !.items = items,
                          !.left = left, !.before = Known(items)]
  /\ UNCHANGED <<fs, owed>>

At(tool, pc) == task.tool = tool /\ task.pc = pc
It == task.items[task.i]
Last == Len(task.items)

(* The task after item i was updated and control went to pc. *)
To(pc) == [task EXCEPT !.pc = pc]
With(item, pc) == [task EXCEPT !.pc = pc, !.items[task.i] = item]
Report(n) == task.report \cup {n}
Settled(n) == task.touched \ {n}

(* Control after item i of a forward pass: the next item, or `then`. *)
Forward(t, pc, then) ==
  IF t.i < Len(t.items) THEN [t EXCEPT !.pc = pc, !.i = @ + 1]
                        ELSE [t EXCEPT !.pc = then, !.i = 1]

(* Control after item i of a reverse pass: the one before, or the end. *)
Backward(t, pc) ==
  IF t.i > 1 THEN [t EXCEPT !.pc = pc, !.i = @ - 1]
             ELSE [t EXCEPT !.pc = "done", !.result = "failed"]

Fault == spent.faults < MaxFaults /\ Room /\ Count("faults")

-----------------------------------------------------------------------------
(* The owner of the card, and the death of a tool. *)

Forget(n) == IF Has(Pub(n)) THEN owed \ {fs[Pub(n)]} ELSE owed
Touch(n, file) ==
  task' = [task EXCEPT !.touched = @ \cup {n},
             !.before = {IF b.name = n THEN [b EXCEPT !.file = file, !.had = @ \cup {file}] ELSE b : b \in @}]
MayTouch == task.pc \notin {"idle", "done"} /\ spent.foreign < MaxForeign /\ Room
OwnData == Data("owner", NewId, "file")

(* Another program saves a new file over (or at) a public name. *)
ForeignSave(n) ==
  /\ MayTouch
  /\ LET new == File(NewId, OwnData)
     IN  /\ fs' = Put(fs, Pub(n), new)
         /\ owed' = Forget(n) \cup {new}
         /\ Touch(n, new)
  /\ spent' = [spent EXCEPT !.ids = @ + 1, !.foreign = @ + 1]

(* Another program edits the file in place: the inode stays.               *)
ForeignEdit(n) ==
  /\ MayTouch /\ Has(Pub(n))
  /\ LET new == File(fs[Pub(n)].id, OwnData)
     IN  /\ fs' = Put(fs, Pub(n), new)
         /\ owed' = Forget(n) \cup {new}
         /\ Touch(n, new)
  /\ spent' = [spent EXCEPT !.ids = @ + 1, !.foreign = @ + 1]

ForeignDelete(n) ==
  /\ MayTouch /\ Has(Pub(n))
  /\ fs' = Drop(fs, Pub(n))
  /\ owed' = Forget(n)
  /\ Touch(n, NoFile)
  /\ Count("foreign")

(* The process is killed, or the host loses power: only the card remains. *)
Crash == /\ task.pc # "idle"
         /\ Fault
         /\ task' = Idle
         /\ UNCHANGED <<fs, owed>>

(* The command returns. *)
Finish == /\ task.pc = "done"
          /\ task' = Idle
          /\ UNCHANGED <<fs, owed, spent>>
=============================================================================
