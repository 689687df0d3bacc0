----------------------------- MODULE SdCardProofs -----------------------------
(***************************************************************************)
(* What holds of the card for every set of managed files, games and titles *)
(* and every bound on failures: nothing of the owner's is lost, no public  *)
(* name ever shows a half-written file, a card reported as installed has   *)
(* no definition the Doctor finds fault with, and a transaction that       *)
(* failed has put every name back as the owner left it, or reported it.    *)
(*                                                                         *)
(* The invariant has two halves.  CardInv is about the card alone: inodes  *)
(* are unique and used up in order, what stands under a temporary name is  *)
(* the tool's, what stands anywhere else is whole, and hidden names carry  *)
(* the number of a run that has begun.  TaskInv is about the running tool: *)
(* at each program counter, which hidden names are still free, which hold  *)
(* what the tool parked there, and that what it is about to discard is its *)
(* own or has been committed.                                              *)
(***************************************************************************)
EXTENDS SdCard, SequenceTheorems, TLAPS

Makers == {"owner", "release", "preset", "none"}
Forms == Layouts \cup {"file", "partial", "none"}
Datas == [by : Makers, n : Nat, form : Forms]
Files == [id : Nat, by : Makers, n : Nat, form : Forms]

(* A file or its contents made before this moment. *)
Dated(d) == d.by = "owner" => d.n <= spent.ids
Made(f) == f.id <= spent.ids /\ Dated(f)

-----------------------------------------------------------------------------
(* The card. *)

FilesKnown == \A m \in DOMAIN fs : fs[m] \in Files /\ fs[m].id # 0 /\ Made(fs[m])
InodesUnique == \A m, n \in DOMAIN fs : fs[m].id = fs[n].id => m = n
TemporariesOwn == \A m \in DOMAIN fs : m[2] = "temporary" => fs[m] \notin owed
OthersWhole == \A m \in DOMAIN fs : m[2] # "temporary" => fs[m].form # "partial"
HiddenByRun == \A m \in DOMAIN fs : m[2] # "public" => m[3] \in 0 .. spent.runs

CardInv ==
  /\ spent \in [ids : Nat, foreign : Nat, faults : Nat, runs : Nat]
  /\ FilesKnown /\ InodesUnique /\ TemporariesOwn /\ OthersWhole /\ HiddenByRun
  /\ NothingLost

-----------------------------------------------------------------------------
(* The running tool. *)

TaskFields == {"tool", "pc", "i", "items", "report", "hurt", "result", "left",
               "before", "touched"}
ItemFields == {"name", "payload", "orig", "temp", "installed", "backup"}

Running == task.pc \notin {"idle", "done"}
Items == 1 .. Last
TempOf(k) == Hidden(task.items[k].name, "temporary")
OrigOf(k) == Hidden(task.items[k].name, "original")
RollOf(k) == Hidden(task.items[k].name, "rollback")

Shape ==
  /\ DOMAIN task = TaskFields
  /\ Last \in Nat /\ DOMAIN task.items = Items
  /\ Running => task.i \in Items
  /\ \A j, k \in Items : task.items[j].name = task.items[k].name => j = k

ItemOK(it) ==
  /\ DOMAIN it = ItemFields
  /\ it.payload \in Datas /\ it.payload.form # "partial" /\ Dated(it.payload)
  /\ it.orig \in Files /\ Made(it.orig) /\ it.orig.form # "partial"
  /\ it.temp \in 0 .. spent.ids /\ it.installed \in 0 .. spent.ids
  /\ it.temp # 0 => File(it.temp, it.payload) \notin owed
  /\ it.installed # 0 => File(it.installed, it.payload) \notin owed
ItemsOK == \A k \in Items : ItemOK(task.items[k])

(* The staging tool compares only the inode of what it parks: no temporary  *)
(* ever has the inode of an original it has read.                           *)
Snapshots ==
  task.tool = "stage" =>
    \A k \in Items : \A m \in DOMAIN fs :
      fs[m].id = task.items[k].orig.id => m[2] # "temporary"

(* Rollback names: none in a forward pass, none before the current one in  *)
(* a rollback, and behind the current one exactly what was installed.      *)
Rolling == {"rollback", "undo", "remove"}
Taken == {"taken", "restore", "discard", "undotaken", "undorestore", "inspect"}
NoneRolled == \A m \in DOMAIN fs : m[2] = "rollback" => m[3] # spent.runs
Rollbacks ==
  /\ Running /\ task.pc \notin Rolling \cup Taken => NoneRolled
  /\ task.pc \in Rolling => \A k \in 1 .. task.i : ~Has(RollOf(k))
  /\ task.pc \in Taken => /\ \A k \in 1 .. task.i - 1 : ~Has(RollOf(k))
                          /\ Has(RollOf(task.i)) /\ It.installed # 0
  /\ task.pc \in {"restore", "discard", "undorestore"} =>
       fs[RollOf(task.i)] = File(It.installed, It.payload)

(* Parked originals: free names ahead of the tool, and behind it the inode *)
(* of the original of every item whose backup it has recorded; the preset  *)
(* tool has compared the contents too.                                     *)
NoneParked == \A m \in DOMAIN fs : m[2] = "original" => m[3] # spent.runs
Ahead ==
  /\ task.pc \in {"snapshot", "prepare", "forced", "allocate", "fillpair", "doctor"} =>
       NoneParked
  /\ task.pc \in {"write", "fill", "park", "backup", "parkpair"} =>
       \A k \in task.i .. Last : ~Has(OrigOf(k))
  /\ task.pc \in {"check", "publish", "record", "compare", "install", "own"} =>
       \A k \in task.i + 1 .. Last : ~Has(OrigOf(k))
  /\ task.pc \in {"check", "compare"} => Has(OrigOf(task.i))

Parked(k) ==
  /\ Has(OrigOf(k)) /\ fs[OrigOf(k)].id = task.items[k].orig.id
  /\ task.tool # "stage" => fs[OrigOf(k)] = task.items[k].orig
ParkedIfRecorded(k) == task.items[k].backup => Parked(k)
Behind ==
  /\ task.pc \in {"snapshot", "write", "fill", "park", "check", "publish", "record",
                  "verify", "prepare", "forced", "allocate", "fillpair", "backup",
                  "install", "own", "confirm"} => \A k \in Items : ParkedIfRecorded(k)
  /\ task.pc \in {"parkpair", "compare"} => \A k \in Items \ {task.i} : ParkedIfRecorded(k)
  /\ task.pc \in {"cleanup", "purge"} => \A k \in task.i .. Last : ParkedIfRecorded(k)
  /\ task.pc \in {"publish", "record"} /\ It.orig # NoFile => Parked(task.i)

(* Temporaries: there while being filled, whole when published. *)
Ready(k) == /\ task.items[k].temp # 0 /\ Has(TempOf(k))
            /\ fs[TempOf(k)] = File(task.items[k].temp, task.items[k].payload)
Temporaries ==
  /\ task.pc \in {"fill", "sync", "fillpair"} =>
       It.temp # 0 /\ Has(TempOf(task.i)) /\ fs[TempOf(task.i)].id = It.temp
  /\ task.pc \in {"park", "check", "publish", "link"} => Ready(task.i)
  /\ task.pc \in {"allocate", "fillpair"} => \A k \in 1 .. task.i - 1 : Ready(k)
  /\ task.pc \in {"backup", "parkpair", "compare", "install"} =>
       \A k \in task.i .. Last : Ready(k)
  /\ task.pc = "own" => It.temp # 0 /\ \A k \in task.i + 1 .. Last : Ready(k)
  /\ task.pc = "record" => It.temp # 0

(* What is cleaned up has been committed. *)
MayGo(k) == task.items[k].backup /\ Has(OrigOf(k)) => fs[OrigOf(k)] \notin owed
Committed == task.pc \in {"cleanup", "purge"} => \A k \in Items : MayGo(k)

(* A Doctor run takes only games without presets: it parks nothing. *)
ParksNothing ==
  task.tool = "preset" /\ task.left # <<>> =>
    /\ NoneParked /\ task.pc \notin {"forced", "parkpair", "compare"}
    /\ \A k \in Items : ~task.items[k].backup /\ task.items[k].orig = NoFile

TaskInv == /\ Shape /\ ItemsOK /\ Snapshots /\ Rollbacks /\ Ahead /\ Behind
           /\ Temporaries /\ Committed /\ ParksNothing
Inv == CardInv /\ TaskInv

-----------------------------------------------------------------------------
(* What each effect on the directory does to the card. *)

LEMMA FileFacts ==
  ASSUME NEW id \in Nat, NEW data \in Datas
  PROVE  /\ File(id, data) \in Files /\ File(id, data).id = id
         /\ File(id, data).by = data.by /\ File(id, data).n = data.n
         /\ File(id, data).form = data.form
PROOF BY DEF File, Datas, Files

LEMMA NameFacts ==
  ASSUME NEW n, NEW purpose
  PROVE  /\ Hidden(n, purpose)[2] = purpose /\ Hidden(n, purpose)[3] = spent.runs
         /\ Hidden(n, purpose)[1] = n
         /\ Pub(n)[2] = "public" /\ Pub(n)[1] = n
PROOF BY DEF Hidden, Pub

(* Nothing on the card changes; the owner's claims may only shrink. *)
LEMMA CardKept ==
  ASSUME CardInv, fs' = fs, owed' \subseteq owed, spent'.ids = spent.ids,
         spent' \in [ids : Nat, foreign : Nat, faults : Nat, runs : Nat],
         spent'.runs >= spent.runs
  PROVE  CardInv'
PROOF
<1>1. FilesKnown'
  BY DEF CardInv, FilesKnown, Made, Dated
<1>2. InodesUnique' /\ TemporariesOwn' /\ OthersWhole' /\ NothingLost'
  BY DEF CardInv, InodesUnique, TemporariesOwn, OthersWhole, NothingLost
<1>3. HiddenByRun'
  BY DEF CardInv, HiddenByRun
<1> QED BY <1>1, <1>2, <1>3 DEF CardInv

(* A new temporary under a name of this run. *)
LEMMA CardCreated ==
  ASSUME CardInv, NEW n, NEW data \in Datas, Dated(data),
         fs' = Put(fs, Hidden(n, "temporary"), File(NewId, data)),
         owed' = owed, spent' = [spent EXCEPT !.ids = @ + 1]
  PROVE  /\ CardInv'
         /\ \A f \in owed : f.id < NewId
PROOF
<1> DEFINE name == Hidden(n, "temporary")
           file == File(NewId, data)
<1>1. /\ spent' \in [ids : Nat, foreign : Nat, faults : Nat, runs : Nat]
      /\ spent'.ids = spent.ids + 1 /\ spent'.runs = spent.runs /\ NewId = spent.ids + 1
      /\ spent.ids \in Nat /\ spent.runs \in Nat
  BY DEF CardInv, NewId
<1>2. /\ DOMAIN fs' = DOMAIN fs \cup {name} /\ fs'[name] = file
      /\ \A m \in DOMAIN fs : m # name => fs'[m] = fs[m]
  BY DEF Put
<1>3. file \in Files /\ file.id = NewId /\ file.by = data.by /\ file.n = data.n
  BY <1>1, FileFacts
<1>4. \A f \in owed : f.id < NewId
  BY <1>1 DEF CardInv, NothingLost, FilesKnown, Made, NoFile, Files
<1>5. name[2] = "temporary" /\ name[3] = spent.runs
  BY NameFacts
<1>6. FilesKnown'
  <2> SUFFICES ASSUME NEW m \in DOMAIN fs'
               PROVE  fs'[m] \in Files /\ fs'[m].id # 0 /\ fs'[m].id <= spent'.ids
                      /\ (fs'[m].by = "owner" => fs'[m].n <= spent'.ids)
    BY DEF FilesKnown, Made, Dated
  <2>1. CASE m = name
    BY <2>1, <1>1, <1>2, <1>3 DEF Dated, Datas
  <2>2. CASE m # name
    BY <2>2, <1>1, <1>2 DEF CardInv, FilesKnown, Made, Dated, Files
  <2> QED BY <2>1, <2>2
<1>7. InodesUnique'
  <2>1. \A m \in DOMAIN fs : fs[m].id < NewId
    BY <1>1 DEF CardInv, FilesKnown, Made, Files
  <2> QED BY <2>1, <1>1, <1>2, <1>3 DEF CardInv, InodesUnique
<1>8. TemporariesOwn'
  BY <1>1, <1>2, <1>3, <1>4 DEF CardInv, TemporariesOwn
<1>9. OthersWhole' /\ HiddenByRun'
  BY <1>1, <1>2, <1>5 DEF CardInv, OthersWhole, HiddenByRun
<1>10. NothingLost'
  <2>1. \A f \in owed : f = NoFile \/ \E m \in DOMAIN fs : m # name /\ fs[m] = f
    BY <1>5 DEF CardInv, NothingLost, TemporariesOwn
  <2> QED BY <2>1, <1>2 DEF NothingLost
<1> QED BY <1>1, <1>4, <1>6, <1>7, <1>8, <1>9, <1>10 DEF CardInv

(* The temporary gets its contents. *)
LEMMA CardFilled ==
  ASSUME CardInv, NEW n, NEW data \in Datas, Dated(data), NEW id,
         Has(Hidden(n, "temporary")), id = fs[Hidden(n, "temporary")].id,
         fs' = Put(fs, Hidden(n, "temporary"), File(id, data)),
         File(id, data) \notin owed, owed' = owed, spent' = spent
  PROVE  CardInv'
PROOF
<1> DEFINE name == Hidden(n, "temporary")
           file == File(id, data)
<1>1. id \in Nat /\ id # 0 /\ id <= spent.ids /\ spent.ids \in Nat
  BY DEF CardInv, FilesKnown, Made, Files, Has
<1>2. /\ DOMAIN fs' = DOMAIN fs /\ fs'[name] = file /\ name \in DOMAIN fs
      /\ \A m \in DOMAIN fs : m # name => fs'[m] = fs[m]
  BY DEF Put, Has
<1>3. file \in Files /\ file.id = id /\ file.by = data.by /\ file.n = data.n
  BY <1>1, FileFacts
<1>5. name[2] = "temporary" /\ name[3] = spent.runs
  BY NameFacts
<1>6. FilesKnown'
  <2> SUFFICES ASSUME NEW m \in DOMAIN fs'
               PROVE  fs'[m] \in Files /\ fs'[m].id # 0 /\ fs'[m].id <= spent.ids
                      /\ (fs'[m].by = "owner" => fs'[m].n <= spent.ids)
    BY DEF FilesKnown, Made, Dated
  <2>1. CASE m = name
    BY <2>1, <1>1, <1>2, <1>3 DEF Dated
  <2>2. CASE m # name
    BY <2>2, <1>1, <1>2 DEF CardInv, FilesKnown, Made, Dated
  <2> QED BY <2>1, <2>2
<1>7. InodesUnique'
  <2>1. \A m \in DOMAIN fs : fs'[m].id = fs[m].id
    BY <1>2, <1>3
  <2> QED BY <2>1, <1>2 DEF CardInv, InodesUnique
<1>8. TemporariesOwn'
  BY <1>2, <1>3 DEF CardInv, TemporariesOwn
<1>9. OthersWhole' /\ HiddenByRun'
  BY <1>2, <1>5 DEF CardInv, OthersWhole, HiddenByRun
<1>10. NothingLost'
  <2>1. \A f \in owed : f = NoFile \/ \E m \in DOMAIN fs : m # name /\ fs[m] = f
    BY <1>5 DEF CardInv, NothingLost, TemporariesOwn
  <2> QED BY <2>1, <1>2 DEF NothingLost
<1> QED BY <1>6, <1>7, <1>8, <1>9, <1>10 DEF CardInv

(* A whole file moves to a free name that is public or of this run. *)
LEMMA CardMoved ==
  ASSUME CardInv, NEW from, NEW to, Has(from), ~Has(to),
         fs[from].form # "partial", to[2] # "temporary",
         to[2] # "public" => to[3] = spent.runs,
         fs' = Move(fs, from, to), owed' = owed, spent'.ids = spent.ids,
         spent' \in [ids : Nat, foreign : Nat, faults : Nat, runs : Nat],
         spent'.runs = spent.runs
  PROVE  CardInv'
PROOF
<1>1. /\ DOMAIN fs' = (DOMAIN fs \ {from}) \cup {to} /\ fs'[to] = fs[from]
      /\ from \in DOMAIN fs /\ to \notin DOMAIN fs /\ from # to
      /\ \A m \in DOMAIN fs : m # from => fs'[m] = fs[m]
  BY DEF Move, Has
<1>2. FilesKnown'
  BY <1>1 DEF CardInv, FilesKnown, Made, Dated
<1>3. InodesUnique'
  BY <1>1 DEF CardInv, InodesUnique
<1>4. TemporariesOwn' /\ OthersWhole'
  BY <1>1 DEF CardInv, TemporariesOwn, OthersWhole
<1>5. HiddenByRun'
  BY <1>1 DEF CardInv, HiddenByRun
<1>6. NothingLost'
  BY <1>1 DEF CardInv, NothingLost
<1> QED BY <1>2, <1>3, <1>4, <1>5, <1>6 DEF CardInv

(* A file nobody is owed goes. *)
LEMMA CardDropped ==
  ASSUME CardInv, NEW name, Has(name) => fs[name] \notin owed,
         fs' = Drop(fs, name), owed' = owed, spent'.ids = spent.ids,
         spent' \in [ids : Nat, foreign : Nat, faults : Nat, runs : Nat],
         spent'.runs = spent.runs
  PROVE  CardInv'
PROOF
<1>1. /\ DOMAIN fs' = DOMAIN fs \ {name}
      /\ \A m \in DOMAIN fs : m # name => fs'[m] = fs[m]
  BY DEF Drop
<1>2. FilesKnown' /\ InodesUnique'
  BY <1>1 DEF CardInv, FilesKnown, Made, Dated, InodesUnique
<1>4. TemporariesOwn' /\ OthersWhole'
  BY <1>1 DEF CardInv, TemporariesOwn, OthersWhole
<1>5. HiddenByRun'
  BY <1>1 DEF CardInv, HiddenByRun
<1>6. NothingLost'
  <2>1. \A f \in owed : f = NoFile \/ \E m \in DOMAIN fs : m # name /\ fs[m] = f
    BY DEF CardInv, NothingLost, Has
  <2> QED BY <2>1, <1>1 DEF NothingLost
<1> QED BY <1>2, <1>4, <1>5, <1>6 DEF CardInv

-----------------------------------------------------------------------------
(* The owner of the card: a fresh file under a public name, or none.  What *)
(* the tool keeps under hidden names is out of the owner's reach.          *)

(* The task's progress does not change. *)
SameProgress ==
  /\ DOMAIN task' = DOMAIN task /\ task'.tool = task.tool /\ task'.pc = task.pc
  /\ task'.i = task.i /\ task'.items = task.items /\ task'.left = task.left

SameHidden ==
  /\ \A m : m[2] # "public" => (m \in DOMAIN fs <=> m \in DOMAIN fs')
  /\ \A m \in DOMAIN fs : m[2] # "public" => fs'[m] = fs[m]

(* What joined `owed` is newer than anything the tool knows. *)
OnlyFresh(new) == new.by = "owner" /\ new.n = spent.ids + 1 /\ owed' \subseteq owed \cup {new}

LEMMA HiddenNames ==
  ASSUME NEW n, NEW purpose
  PROVE  Hidden(n, purpose) = <<n, purpose, spent.runs>>
PROOF BY DEF Hidden

LEMMA TaskUntouched ==
  ASSUME Inv, SameProgress, SameHidden,
         NEW new \in Files, OnlyFresh(new),
         spent'.ids = spent.ids + 1 \/ spent'.ids = spent.ids,
         spent'.runs = spent.runs,
         \A m \in DOMAIN fs : fs[m] # new,
         Snapshots'
  PROVE  TaskInv'
PROOF
<1>1. spent.ids \in Nat /\ spent'.ids \in Nat /\ spent'.ids >= spent.ids
  BY DEF Inv, CardInv
<1>2. Last' = Last /\ Items' = Items /\ (Running' <=> Running)
  BY DEF SameProgress, Last, Items, Running
<1>3. Shape'
  BY <1>2 DEF Inv, TaskInv, Shape, SameProgress
<1>4. ItemsOK'
  <2> SUFFICES ASSUME NEW k \in Items
               PROVE  ItemOK(task.items[k])'
    BY <1>2 DEF ItemsOK, SameProgress
  <2> DEFINE it == task.items[k]
  <2>1. ItemOK(it)
    BY DEF Inv, TaskInv, ItemsOK
  <2>2. it' = it
    BY DEF SameProgress
  <2>3. Dated(it.payload)' /\ Made(it.orig)'
    BY <2>1, <2>2, <1>1 DEF ItemOK, Dated, Made, Datas, Files
  <2>4. \A id \in Nat : File(id, it.payload) # new
    BY <2>1, <1>1, FileFacts DEF ItemOK, OnlyFresh, Dated, Datas
  <2>5. /\ it.temp # 0 => File(it.temp, it.payload) \notin owed'
        /\ it.installed # 0 => File(it.installed, it.payload) \notin owed'
    BY <2>1, <2>4, <1>1 DEF ItemOK, OnlyFresh
  <2> QED BY <2>1, <2>2, <2>3, <2>5, <1>1 DEF ItemOK
<1>5. \A n, purpose : purpose # "public" =>
        /\ Hidden(n, purpose)' = Hidden(n, purpose)
        /\ Has(Hidden(n, purpose))' <=> Has(Hidden(n, purpose))
        /\ Has(Hidden(n, purpose)) => fs[Hidden(n, purpose)]' = fs[Hidden(n, purpose)]
  BY DEF SameHidden, Hidden, Has
<1>6. \A k : /\ Has(TempOf(k))' <=> Has(TempOf(k))
             /\ Has(TempOf(k)) => fs[TempOf(k)]' = fs[TempOf(k)]
             /\ Has(OrigOf(k))' <=> Has(OrigOf(k))
             /\ Has(OrigOf(k)) => fs[OrigOf(k)]' = fs[OrigOf(k)]
             /\ Has(RollOf(k))' <=> Has(RollOf(k))
             /\ Has(RollOf(k)) => fs[RollOf(k)]' = fs[RollOf(k)]
  BY <1>5 DEF SameProgress, TempOf, OrigOf, RollOf
<1>7. (NoneRolled' <=> NoneRolled) /\ (NoneParked' <=> NoneParked)
  BY DEF SameHidden, NoneRolled, NoneParked
<1>8. It' = It /\ task'.pc = task.pc /\ task'.i = task.i /\ task'.items = task.items
      /\ task'.tool = task.tool /\ task'.left = task.left
  BY DEF It, SameProgress
<1>9. Rollbacks'
  <2>1. Rollbacks
    BY DEF Inv, TaskInv
  <2>2. File(It.installed, It.payload)' = File(It.installed, It.payload)
    BY <1>8 DEF File
  <2> QED BY <2>1, <2>2, <1>2, <1>6, <1>7, <1>8 DEF Rollbacks, Rolling, Taken
<1>10. Ahead'
  <2>1. Ahead
    BY DEF Inv, TaskInv
  <2> QED BY <2>1, <1>2, <1>6, <1>7, <1>8 DEF Ahead
<1>11. Behind'
  <2>1. Behind
    BY DEF Inv, TaskInv
  <2>2. \A k : (Parked(k)' <=> Parked(k)) /\ (ParkedIfRecorded(k)' <=> ParkedIfRecorded(k))
    BY <1>6, <1>8 DEF Parked, ParkedIfRecorded
  <2>3. NoFile' = NoFile
    BY DEF NoFile
  <2> QED BY <2>1, <2>2, <2>3, <1>2, <1>8 DEF Behind
<1>12. Temporaries'
  <2>1. Temporaries
    BY DEF Inv, TaskInv
  <2>2. \A k : Ready(k)' <=> Ready(k)
    BY <1>6, <1>8 DEF Ready, File
  <2> QED BY <2>1, <2>2, <1>2, <1>6, <1>8 DEF Temporaries
<1>13. Committed'
  <2>1. \A k \in Items : Has(OrigOf(k)) => fs[OrigOf(k)] # new
    BY DEF Has
  <2> QED BY <2>1, <1>2, <1>6, <1>8 DEF Inv, TaskInv, Committed, MayGo, OnlyFresh
<1>14. ParksNothing'
  <2>1. NoFile' = NoFile
    BY DEF NoFile
  <2> QED BY <2>1, <1>2, <1>7, <1>8 DEF Inv, TaskInv, ParksNothing
<1> QED BY <1>3, <1>4, <1>9, <1>10, <1>11, <1>12, <1>13, <1>14 DEF TaskInv

LEMMA TouchKeepsProgress ==
  ASSUME Inv, NEW n, NEW file, Touch(n, file)
  PROVE  SameProgress
PROOF BY DEF Inv, TaskInv, Shape, TaskFields, Touch, SameProgress

(* A save, and an edit in place. *)
LEMMA OwnerPuts ==
  ASSUME Inv, NEW n, NEW id, id = NewId \/ (Has(Pub(n)) /\ id = fs[Pub(n)].id),
         fs' = Put(fs, Pub(n), File(id, OwnData)),
         owed' = Forget(n) \cup {File(id, OwnData)},
         Touch(n, File(id, OwnData)),
         spent' = [spent EXCEPT !.ids = @ + 1, !.foreign = @ + 1]
  PROVE  Inv'
PROOF
<1> PICK new : new = File(id, OwnData)
  OBVIOUS
<1>1. /\ spent' \in [ids : Nat, foreign : Nat, faults : Nat, runs : Nat]
      /\ spent'.ids = spent.ids + 1 /\ spent'.runs = spent.runs
      /\ NewId = spent.ids + 1 /\ spent.ids \in Nat
  <2>1. spent \in [ids : Nat, foreign : Nat, faults : Nat, runs : Nat]
    BY DEF Inv, CardInv
  <2>2. spent.ids + 1 \in Nat /\ spent.foreign + 1 \in Nat
    BY <2>1
  <2> QED BY <2>1, <2>2 DEF NewId
<1>2. OwnData \in Datas /\ OwnData.by = "owner" /\ OwnData.n = NewId /\ OwnData.form = "file"
  BY <1>1 DEF OwnData, Data, Datas, Makers, Forms
<1>3. id \in Nat /\ id # 0 /\ id <= NewId
  BY <1>1 DEF Inv, CardInv, FilesKnown, Files, Made, Has
<1>4. /\ new \in Files /\ new.id = id /\ new.by = "owner" /\ new.n = NewId
      /\ new.form = "file"
  BY <1>2, <1>3 DEF File, Datas, Files
<1>5. /\ DOMAIN fs' = DOMAIN fs \cup {Pub(n)} /\ fs'[Pub(n)] = new
      /\ \A m \in DOMAIN fs : m # Pub(n) => fs'[m] = fs[m]
  BY DEF Put
<1>6. Pub(n)[2] = "public"
  BY DEF Pub
<1>7. owed' \subseteq owed \cup {new} /\ (Has(Pub(n)) => (fs[Pub(n)] \notin owed' \/ fs[Pub(n)] = new))
  BY DEF Forget
<1>8. \A m \in DOMAIN fs : fs[m] # new
  BY <1>1, <1>4 DEF Inv, CardInv, FilesKnown, Made, Dated, Files
<1>9. CardInv'
  <2>1. FilesKnown'
    <3> SUFFICES ASSUME NEW m \in DOMAIN fs'
                 PROVE  fs'[m] \in Files /\ fs'[m].id # 0 /\ fs'[m].id <= spent'.ids
                        /\ (fs'[m].by = "owner" => fs'[m].n <= spent'.ids)
      BY DEF FilesKnown, Made, Dated
    <3>1. CASE m = Pub(n)
      BY <3>1, <1>1, <1>3, <1>4, <1>5
    <3>2. CASE m # Pub(n)
      BY <3>2, <1>1, <1>5 DEF Inv, CardInv, FilesKnown, Made, Dated, Files
    <3> QED BY <3>1, <3>2
  <2>2. InodesUnique'
    <3>1. \A m \in DOMAIN fs : m # Pub(n) => fs[m].id # id
      BY <1>1 DEF Inv, CardInv, FilesKnown, InodesUnique, Made, Files, Has
    <3> QED BY <3>1, <1>4, <1>5 DEF Inv, CardInv, InodesUnique
  <2>3. TemporariesOwn'
    BY <1>5, <1>6, <1>7, <1>8 DEF Inv, CardInv, TemporariesOwn
  <2>4. OthersWhole' /\ HiddenByRun'
    BY <1>1, <1>4, <1>5, <1>6 DEF Inv, CardInv, OthersWhole, HiddenByRun
  <2>5. NothingLost'
    <3>1. \A f \in owed' : f = new \/ f = NoFile \/ \E m \in DOMAIN fs : m # Pub(n) /\ fs[m] = f
      BY <1>7 DEF Inv, CardInv, NothingLost, Has
    <3> QED BY <3>1, <1>5 DEF NothingLost, NoFile
  <2> QED BY <1>1, <2>1, <2>2, <2>3, <2>4, <2>5 DEF CardInv
<1>10. SameProgress
  BY DEF Inv, TaskInv, Shape, TaskFields, Touch, SameProgress
<1>11. SameHidden
  BY <1>5, <1>6 DEF SameHidden, Put
<1>12. OnlyFresh(new)
  BY <1>1, <1>4, <1>7 DEF OnlyFresh
<1>13. Snapshots'
  <2> SUFFICES ASSUME task.tool = "stage", NEW k \in Items, NEW m \in DOMAIN fs',
                      fs'[m].id = task.items[k].orig.id
               PROVE  m[2] # "temporary"
    BY <1>10 DEF Snapshots, SameProgress, Items, Last
  <2>1. CASE m = Pub(n)
    BY <2>1, <1>6
  <2>2. CASE m # Pub(n)
    BY <2>2, <1>5 DEF Inv, TaskInv, Snapshots
  <2> QED BY <2>1, <2>2
<1> QED
  <2>1. TaskInv'
    BY <1>1, <1>4, <1>8, <1>10, <1>11, <1>12, <1>13, TaskUntouched
  <2> QED BY <2>1, <1>9 DEF Inv

LEMMA OwnerDeletes ==
  ASSUME Inv, NEW n, ForeignDelete(n)
  PROVE  Inv'
PROOF
<1>1. /\ spent' \in [ids : Nat, foreign : Nat, faults : Nat, runs : Nat]
      /\ spent'.ids = spent.ids /\ spent'.runs = spent.runs /\ spent.ids \in Nat
  BY DEF Inv, CardInv, ForeignDelete, Count
<1>2. /\ DOMAIN fs' = DOMAIN fs \ {Pub(n)} /\ Pub(n) \in DOMAIN fs
      /\ \A m \in DOMAIN fs : m # Pub(n) => fs'[m] = fs[m]
  BY DEF ForeignDelete, Drop, Has
<1>3. Pub(n)[2] = "public"
  BY DEF Pub
<1>4. owed' = owed \ {fs[Pub(n)]}
  BY <1>2 DEF ForeignDelete, Forget, Has
<1>5. CardInv'
  <2>1. FilesKnown' /\ InodesUnique' /\ HiddenByRun'
    BY <1>1, <1>2 DEF Inv, CardInv, FilesKnown, Made, Dated, InodesUnique, HiddenByRun
  <2>2. TemporariesOwn' /\ OthersWhole'
    BY <1>2, <1>4 DEF Inv, CardInv, TemporariesOwn, OthersWhole
  <2>3. NothingLost'
    BY <1>2, <1>4 DEF Inv, CardInv, NothingLost
  <2> QED BY <1>1, <2>1, <2>2, <2>3 DEF CardInv
<1>6. SameProgress
  BY DEF Inv, TaskInv, Shape, TaskFields, ForeignDelete, Touch, SameProgress
<1>7. SameHidden
  BY <1>2, <1>3 DEF SameHidden, ForeignDelete, Drop
<1>8. Snapshots'
  BY <1>2, <1>6 DEF Inv, TaskInv, Snapshots, SameProgress, Items, Last
<1>9. PICK new : new = File(0, Data("owner", spent.ids + 1, "file"))
  OBVIOUS
<1>10. new \in Files /\ OnlyFresh(new)
  <2>1. new \in Files /\ new.by = "owner" /\ new.n = spent.ids + 1
    BY <1>1, <1>9 DEF File, Data, Files, Makers, Forms
  <2> QED BY <2>1, <1>4 DEF OnlyFresh
<1>11. \A m \in DOMAIN fs : fs[m] # new
  <2>1. new.id = 0
    BY <1>9 DEF File
  <2> QED BY <2>1 DEF Inv, CardInv, FilesKnown
<1> QED
  <2>1. TaskInv'
    BY <1>1, <1>6, <1>7, <1>8, <1>10, <1>11, TaskUntouched
  <2> QED BY <2>1, <1>5 DEF Inv

LEMMA OwnerStep ==
  ASSUME Inv, Owner
  PROVE  Inv'
PROOF
<1>1. PICK n : ForeignSave(n) \/ ForeignEdit(n) \/ ForeignDelete(n)
  BY DEF Owner
<1>2. CASE ForeignSave(n)
  <2>1. PICK id : id = NewId
    OBVIOUS
  <2>2. /\ spent' = [spent EXCEPT !.ids = @ + 1, !.foreign = @ + 1]
        /\ fs' = Put(fs, Pub(n), File(id, OwnData))
        /\ owed' = Forget(n) \cup {File(id, OwnData)}
        /\ Touch(n, File(id, OwnData))
    BY <1>2, <2>1 DEF ForeignSave
  <2>3. id = NewId \/ (Has(Pub(n)) /\ id = fs[Pub(n)].id)
    BY <2>1
  <2> HIDE <2>1
  <2> QED BY <2>2, <2>3, OwnerPuts
<1>3. CASE ForeignEdit(n)
  <2>1. PICK id : id = fs[Pub(n)].id
    OBVIOUS
  <2>2. Has(Pub(n)) /\ spent' = [spent EXCEPT !.ids = @ + 1, !.foreign = @ + 1]
        /\ fs' = Put(fs, Pub(n), File(id, OwnData))
        /\ owed' = Forget(n) \cup {File(id, OwnData)}
        /\ Touch(n, File(id, OwnData))
    BY <1>3, <2>1 DEF ForeignEdit
  <2> QED BY <2>1, <2>2, OwnerPuts
<1>4. CASE ForeignDelete(n)
  BY <1>4, OwnerDeletes
<1> QED BY <1>1, <1>2, <1>3, <1>4

-----------------------------------------------------------------------------
(* The steps of a tool, described by what they change. *)

(* Control goes to p at item j. *)
Goes(p, j) ==
  /\ DOMAIN task' = TaskFields /\ task'.tool = task.tool /\ task'.left = task.left
  /\ task'.pc = p /\ task'.i = j
KeepsItems == task'.items = task.items
SetsItem(it) == task'.items = [task.items EXCEPT ![task.i] = it]
(* It stays in the run, and claims of the owner are at most dropped. *)
SameRun ==
  /\ spent' \in [ids : Nat, foreign : Nat, faults : Nat, runs : Nat]
  /\ spent'.ids >= spent.ids /\ spent'.runs = spent.runs
  /\ owed' \subseteq owed

NamesKept == \A k \in Items : task'.items[k].name = task.items[k].name
SameHiddenOf(purpose) ==
  \A k \in Items :
    LET name == Hidden(task.items[k].name, purpose)
    IN  /\ Has(name)' <=> Has(name)
        /\ Has(name) => fs'[name] = fs[name]

LEMMA FaultSpent ==
  ASSUME CardInv, Fault
  PROVE  /\ spent' \in [ids : Nat, foreign : Nat, faults : Nat, runs : Nat]
         /\ spent'.ids = spent.ids /\ spent'.runs = spent.runs
         /\ spent.ids \in Nat /\ spent.runs \in Nat
PROOF BY DEF CardInv, Fault, Count

LEMMA IdsSpent ==
  ASSUME CardInv, Count("ids")
  PROVE  /\ spent' \in [ids : Nat, foreign : Nat, faults : Nat, runs : Nat]
         /\ spent'.ids = spent.ids + 1 /\ spent'.runs = spent.runs
         /\ spent' = [spent EXCEPT !.ids = @ + 1]
         /\ spent.ids \in Nat /\ spent.runs \in Nat
PROOF
<1>1. spent' = [spent EXCEPT !.ids = @ + 1]
  BY DEF Count
<1>2. spent \in [ids : Nat, foreign : Nat, faults : Nat, runs : Nat]
  BY DEF CardInv
<1> QED BY <1>1, <1>2

LEMMA NoneSpent ==
  ASSUME CardInv, spent' = spent
  PROVE  /\ spent' \in [ids : Nat, foreign : Nat, faults : Nat, runs : Nat]
         /\ spent'.ids = spent.ids /\ spent'.runs = spent.runs
         /\ spent.ids \in Nat /\ spent.runs \in Nat
PROOF BY DEF CardInv

LEMMA ItFacts ==
  ASSUME Inv, Running
  PROVE  /\ task.i \in Items /\ It = task.items[task.i] /\ ItemOK(It)
         /\ Last \in Nat /\ Items = 1 .. Last /\ task.i \in Nat /\ task.i >= 1 /\ task.i <= Last
         /\ DOMAIN task = TaskFields /\ DOMAIN task.items = Items
         /\ TempOf(task.i) = Hidden(It.name, "temporary")
         /\ OrigOf(task.i) = Hidden(It.name, "original")
         /\ RollOf(task.i) = Hidden(It.name, "rollback")
PROOF
<1>1. task.i \in Items /\ Last \in Nat /\ DOMAIN task = TaskFields /\ DOMAIN task.items = Items
  BY DEF Inv, TaskInv, Shape
<1>2. ItemOK(It)
  BY <1>1 DEF Inv, TaskInv, ItemsOK, It
<1> QED BY <1>1, <1>2 DEF It, Items, TempOf, OrigOf, RollOf

LEMMA LengthOf ==
  ASSUME NEW s, NEW n \in Nat, DOMAIN s = 1 .. n, s = [k \in 1 .. n |-> s[k]]
  PROVE  Len(s) = n
PROOF
<1>1. PICK S : S = {s[k] : k \in 1 .. n}
  OBVIOUS
<1>2. s \in [1 .. n -> S]
  BY <1>1
<1>3. s \in Seq(S)
  BY <1>2
<1> QED BY <1>3

(* Control after an item of a pass. *)
LEMMA ForwardFacts ==
  ASSUME NEW t, DOMAIN t = TaskFields, NEW n \in Nat, Len(t.items) = n, t.i \in 1 .. n,
         NEW pc, NEW then, NEW u, u = Forward(t, pc, then)
  PROVE  /\ DOMAIN u = TaskFields /\ u.tool = t.tool /\ u.left = t.left /\ u.items = t.items
         /\ \/ u.pc = pc /\ t.i < n /\ u.i = t.i + 1
            \/ u.pc = then /\ t.i = n /\ u.i = 1
PROOF BY DEF Forward, TaskFields

LEMMA BackwardFacts ==
  ASSUME NEW t, DOMAIN t = TaskFields, t.i \in Nat,
         NEW pc, NEW u, u = Backward(t, pc)
  PROVE  /\ DOMAIN u = TaskFields /\ u.tool = t.tool /\ u.left = t.left /\ u.items = t.items
         /\ \/ u.pc = pc /\ t.i > 1 /\ u.i = t.i - 1
            \/ u.pc = "done" /\ u.i = t.i
PROOF BY DEF Backward, TaskFields

LEMMA ItemsKept ==
  ASSUME Inv, NEW p, NEW j, Goes(p, j), KeepsItems, SameRun,
         p \notin {"idle", "done"} => j \in Items
  PROVE  Shape' /\ ItemsOK' /\ Last' = Last /\ Items' = Items /\ NamesKept
PROOF
<1>1. Last' = Last /\ Items' = Items
  BY DEF KeepsItems, Last, Items
<1>2. Shape' /\ NamesKept
  BY <1>1 DEF Inv, TaskInv, Shape, KeepsItems, Goes, Running, NamesKept
<1>3. ItemsOK'
  <2> SUFFICES ASSUME NEW k \in Items
               PROVE  ItemOK(task.items[k])'
    BY <1>1 DEF ItemsOK, KeepsItems
  <2>1. task.items[k]' = task.items[k]
    BY DEF KeepsItems
  <2>2. ItemOK(task.items[k]) /\ spent.ids \in Nat
    BY DEF Inv, TaskInv, CardInv, ItemsOK
  <2> QED BY <2>1, <2>2 DEF ItemOK, Dated, Made, SameRun, Datas, Files
<1> QED BY <1>1, <1>2, <1>3

LEMMA ItemSet ==
  ASSUME Inv, Running, NEW p, NEW j, NEW it, Goes(p, j), SetsItem(it), SameRun,
         ItemOK(it)', it.name = It.name,
         p \notin {"idle", "done"} => j \in Items
  PROVE  /\ Shape' /\ ItemsOK' /\ Last' = Last /\ Items' = Items /\ NamesKept
         /\ task'.items[task.i] = it
         /\ \A k \in Items : k # task.i => task'.items[k] = task.items[k]
PROOF
<1>1. Last \in Nat /\ DOMAIN task.items = 1 .. Last /\ Last = Len(task.items) /\ task.i \in 1 .. Last
  BY ItFacts DEF Last
<1>2. /\ DOMAIN task'.items = 1 .. Last /\ task'.items[task.i] = it
      /\ \A k \in Items : k # task.i => task'.items[k] = task.items[k]
  BY <1>1 DEF SetsItem, Items
<1>3. Last' = Last
  <2>1. PICK n : n = Last
    OBVIOUS
  <2>2. PICK s : s = task'.items
    OBVIOUS
  <2>3. n \in Nat /\ DOMAIN s = 1 .. n /\ s = [k \in 1 .. n |-> s[k]]
    BY <1>1, <1>2, <2>1, <2>2 DEF SetsItem
  <2> QED BY <2>1, <2>2, <2>3, LengthOf DEF Last
<1>4. Items' = Items
  BY <1>3 DEF Items
<1>5. NamesKept
  BY <1>1, <1>2 DEF NamesKept, It, Items
<1>6. Shape'
  BY <1>1, <1>2, <1>3, <1>4, <1>5 DEF Inv, TaskInv, Shape, Goes, Running, NamesKept, Items
<1>7. ItemsOK'
  <2> SUFFICES ASSUME NEW k \in Items
               PROVE  ItemOK(task.items[k])'
    BY <1>4 DEF ItemsOK
  <2>1. CASE k = task.i
    BY <2>1, <1>2
  <2>2. CASE k # task.i
    <3>1. task.items[k]' = task.items[k]
      BY <2>2, <1>2
    <3>2. ItemOK(task.items[k]) /\ spent.ids \in Nat
      BY DEF Inv, TaskInv, CardInv, ItemsOK
    <3> QED BY <3>1, <3>2 DEF ItemOK, Dated, Made, SameRun, Datas, Files
  <2> QED BY <2>1, <2>2
<1> QED BY <1>2, <1>3, <1>4, <1>5, <1>6, <1>7

LEMMA HiddenNamesKept ==
  ASSUME NamesKept, spent'.runs = spent.runs
  PROVE  \A k \in Items : /\ TempOf(k)' = TempOf(k) /\ OrigOf(k)' = OrigOf(k)
                          /\ RollOf(k)' = RollOf(k)
PROOF BY DEF NamesKept, TempOf, OrigOf, RollOf, Hidden

(* Once a transaction turns back, only the rollback names matter. *)
Backing == {"idle", "done", "unwind", "rollback", "taken", "restore", "discard", "undo",
            "undotaken", "undorestore", "remove", "inspect", "replan", "create", "reread",
            "complete"}
LEMMA TurnedBack ==
  ASSUME task'.pc \in Backing
  PROVE  Ahead' /\ Behind' /\ Temporaries' /\ Committed'
PROOF
<1>1. Ahead'
  BY DEF Ahead, Backing
<1>2. Behind'
  BY DEF Behind, Backing
<1>3. Temporaries' /\ Committed'
  BY DEF Temporaries, Committed, Backing
<1> QED BY <1>1, <1>2, <1>3

(* Steps that change the card at a few names only. *)
OnlyAt(S) ==
  /\ \A m : m \notin S => (m \in DOMAIN fs' <=> m \in DOMAIN fs)
  /\ \A m \in DOMAIN fs : m \notin S => fs'[m] = fs[m]
TempsKept(K) ==
  \A k \in K : /\ Has(TempOf(k))' <=> Has(TempOf(k))
               /\ Has(TempOf(k)) => fs[TempOf(k)]' = fs[TempOf(k)]
OrigsKept(K) ==
  \A k \in K : /\ Has(OrigOf(k))' <=> Has(OrigOf(k))
               /\ Has(OrigOf(k)) => fs[OrigOf(k)]' = fs[OrigOf(k)]
RollsKept(K) ==
  \A k \in K : /\ Has(RollOf(k))' <=> Has(RollOf(k))
               /\ Has(RollOf(k)) => fs[RollOf(k)]' = fs[RollOf(k)]

LEMMA NamesUntouched ==
  ASSUME Inv, Running, NEW S, OnlyAt(S), NamesKept, spent'.runs = spent.runs
  PROVE  /\ (\A m \in S : m[2] # "temporary") => TempsKept(Items)
         /\ (\A m \in S : m[2] = "temporary" => m = TempOf(task.i)) => TempsKept(Items \ {task.i})
         /\ (\A m \in S : m[2] # "original") => OrigsKept(Items) /\ (NoneParked => NoneParked')
         /\ (\A m \in S : m[2] = "original" => m = OrigOf(task.i)) => OrigsKept(Items \ {task.i})
         /\ (\A m \in S : m[2] # "rollback") => RollsKept(Items) /\ (NoneRolled => NoneRolled')
         /\ (\A m \in S : m[2] = "rollback" => m = RollOf(task.i)) => RollsKept(Items \ {task.i})
PROOF
<1>1. \A k \in Items : TempOf(k)' = TempOf(k) /\ OrigOf(k)' = OrigOf(k) /\ RollOf(k)' = RollOf(k)
  BY HiddenNamesKept
<1>2. \A k : TempOf(k)[2] = "temporary" /\ OrigOf(k)[2] = "original" /\ RollOf(k)[2] = "rollback"
  BY DEF TempOf, OrigOf, RollOf, Hidden
<1>3. \A k \in Items : k # task.i => /\ TempOf(k) # TempOf(task.i) /\ OrigOf(k) # OrigOf(task.i)
                                     /\ RollOf(k) # RollOf(task.i)
  BY ItFacts DEF Inv, TaskInv, Shape, TempOf, OrigOf, RollOf, Hidden
<1>4. /\ (\A m \in S : m[2] # "temporary") => TempsKept(Items)
      /\ (\A m \in S : m[2] = "temporary" => m = TempOf(task.i)) => TempsKept(Items \ {task.i})
  BY <1>1, <1>2, <1>3 DEF OnlyAt, TempsKept, Has
<1>5. /\ (\A m \in S : m[2] # "original") => OrigsKept(Items)
      /\ (\A m \in S : m[2] = "original" => m = OrigOf(task.i)) => OrigsKept(Items \ {task.i})
  BY <1>1, <1>2, <1>3 DEF OnlyAt, OrigsKept, Has
<1>6. /\ (\A m \in S : m[2] # "rollback") => RollsKept(Items)
      /\ (\A m \in S : m[2] = "rollback" => m = RollOf(task.i)) => RollsKept(Items \ {task.i})
  BY <1>1, <1>2, <1>3 DEF OnlyAt, RollsKept, Has
<1>7. /\ (\A m \in S : m[2] # "original") /\ NoneParked => NoneParked'
      /\ (\A m \in S : m[2] # "rollback") /\ NoneRolled => NoneRolled'
  BY DEF OnlyAt, NoneParked, NoneRolled
<1> QED BY <1>4, <1>5, <1>6, <1>7

(* The originals the staging tool has read keep their inodes to themselves *)
(* when files only move or go.                                             *)
LEMMA SnapshotsKept ==
  ASSUME Inv, task'.tool = task.tool, Items' = Items,
         \A k \in Items : task'.items[k].orig = task.items[k].orig,
         \A m \in DOMAIN fs' : \E n \in DOMAIN fs :
           fs'[m] = fs[n] /\ (m[2] = "temporary" => n[2] = "temporary")
  PROVE  Snapshots'
PROOF BY DEF Inv, TaskInv, Snapshots

LEMMA ParksNothingKept ==
  ASSUME Inv, task'.tool = task.tool, task'.left = task.left, Items' = Items,
         \A k \in Items : /\ task'.items[k].orig = task.items[k].orig
                          /\ task'.items[k].backup => task.items[k].backup,
         task'.pc \notin {"forced", "parkpair", "compare"}, NoneParked => NoneParked'
  PROVE  ParksNothing'
PROOF
<1>1. NoFile' = NoFile
  BY DEF NoFile
<1> QED BY <1>1 DEF Inv, TaskInv, ParksNothing

LEMMA NotPreset ==
  ASSUME task'.tool # "preset"
  PROVE  ParksNothing'
PROOF BY DEF ParksNothing

(* Control moves on and the card stays as it is. *)
LEMMA QuietStep ==
  ASSUME Inv, Running, NEW p, NEW j, Goes(p, j), KeepsItems, SameRun,
         fs' = fs, spent'.ids = spent.ids,
         p \notin {"idle", "done"} => j \in Items,
         p \notin {"forced", "parkpair", "compare"}
  PROVE  /\ CardInv' /\ Shape' /\ ItemsOK' /\ Snapshots' /\ ParksNothing'
         /\ Last' = Last /\ Items' = Items
         /\ TempsKept(Items) /\ OrigsKept(Items) /\ RollsKept(Items)
         /\ NoneParked' = NoneParked /\ NoneRolled' = NoneRolled
PROOF
<1>1. CardInv'
  BY CardKept DEF Inv, SameRun, CardInv
<1>2. Shape' /\ ItemsOK' /\ Last' = Last /\ Items' = Items /\ NamesKept
  BY ItemsKept
<1>3. OnlyAt({})
  BY DEF OnlyAt
<1>4. TempsKept(Items) /\ OrigsKept(Items) /\ RollsKept(Items)
  BY <1>2, <1>3, NamesUntouched DEF SameRun
<1>5. NoneParked' = NoneParked /\ NoneRolled' = NoneRolled
  BY DEF NoneParked, NoneRolled, SameRun
<1>6. Snapshots'
  BY <1>2 DEF Inv, TaskInv, Snapshots, Goes, KeepsItems
<1>7. ParksNothing'
  BY <1>2, <1>5, ParksNothingKept DEF Goes, KeepsItems
<1> QED BY <1>1, <1>2, <1>4, <1>5, <1>6, <1>7

(* The same, with one item updated. *)
LEMMA ItemStill ==
  ASSUME Inv, Running, SameRun, NEW it, DOMAIN it = ItemFields,
         it.payload = It.payload,
         it.orig = It.orig \/ (it.orig \in Files /\ Made(it.orig) /\ it.orig.form # "partial"),
         it.temp \in {0, It.temp}, it.installed \in {It.installed, It.temp}
  PROVE  ItemOK(it)'
PROOF
<1>1. ItemOK(It) /\ spent.ids \in Nat /\ spent'.ids \in Nat /\ spent'.ids >= spent.ids
  BY ItFacts DEF Inv, CardInv, SameRun
<1>2. /\ it.payload \in Datas /\ it.payload.form # "partial" /\ Dated(it.payload)'
      /\ it.orig \in Files /\ Made(it.orig)' /\ it.orig.form # "partial"
  BY <1>1 DEF ItemOK, Dated, Made, Datas, Files
<1>3. it.temp \in 0 .. spent'.ids /\ it.installed \in 0 .. spent'.ids
  BY <1>1 DEF ItemOK
<1>4. /\ it.temp # 0 => File(it.temp, it.payload) \notin owed'
      /\ it.installed # 0 => File(it.installed, it.payload) \notin owed'
  BY <1>1 DEF ItemOK, SameRun
<1> QED BY <1>2, <1>3, <1>4 DEF ItemOK

LEMMA QuietSet ==
  ASSUME Inv, Running, NEW p, NEW j, NEW it, Goes(p, j), SetsItem(it), SameRun,
         fs' = fs, spent'.ids = spent.ids, ItemOK(it)', it.name = It.name,
         p \notin {"idle", "done"} => j \in Items
  PROVE  /\ CardInv' /\ Shape' /\ ItemsOK' /\ Last' = Last /\ Items' = Items
         /\ it.orig = It.orig => Snapshots'
         /\ it.orig = It.orig /\ (it.backup => It.backup) /\ p \notin {"forced", "parkpair", "compare"}
              => ParksNothing'
         /\ TempsKept(Items) /\ OrigsKept(Items) /\ RollsKept(Items)
         /\ NoneParked' = NoneParked /\ NoneRolled' = NoneRolled
         /\ task'.items[task.i] = it
         /\ \A k \in Items : k # task.i => task'.items[k] = task.items[k]
PROOF
<1>1. CardInv'
  BY CardKept DEF Inv, SameRun, CardInv
<1>2. /\ Shape' /\ ItemsOK' /\ Last' = Last /\ Items' = Items /\ NamesKept
      /\ task'.items[task.i] = it
      /\ \A k \in Items : k # task.i => task'.items[k] = task.items[k]
  BY ItemSet
<1>3. OnlyAt({})
  BY DEF OnlyAt
<1>4. TempsKept(Items) /\ OrigsKept(Items) /\ RollsKept(Items)
  BY <1>2, <1>3, NamesUntouched DEF SameRun
<1>5. NoneParked' = NoneParked /\ NoneRolled' = NoneRolled
  BY DEF NoneParked, NoneRolled, SameRun
<1>6. it.orig = It.orig => \A k \in Items : task'.items[k].orig = task.items[k].orig
  BY <1>2 DEF It
<1>7. it.orig = It.orig => Snapshots'
  BY <1>2, <1>6 DEF Inv, TaskInv, Snapshots, Goes
<1>8. it.orig = It.orig /\ (it.backup => It.backup) /\ p \notin {"forced", "parkpair", "compare"}
        => ParksNothing'
  <2> SUFFICES ASSUME it.orig = It.orig, it.backup => It.backup,
                      p \notin {"forced", "parkpair", "compare"}
               PROVE  ParksNothing'
    OBVIOUS
  <2>1. \A k \in Items : /\ task'.items[k].orig = task.items[k].orig
                         /\ task'.items[k].backup => task.items[k].backup
    BY <1>2, <1>6 DEF It
  <2> QED BY <1>2, <1>5, <2>1, ParksNothingKept DEF Goes
<1> QED BY <1>1, <1>2, <1>4, <1>5, <1>7, <1>8

-----------------------------------------------------------------------------
(* The staging tool, forward. *)

LEMMA SnapshotOriginal ==
  ASSUME Inv, snapshot_original
  PROVE  Inv'
PROOF
<1>1. task.pc = "snapshot" /\ task.tool = "stage" /\ Running /\ fs' = fs /\ owed' = owed
      /\ spent' = spent
  BY DEF snapshot_original, Stage, At, Running
<1>2. SameRun /\ spent'.ids = spent.ids
  BY <1>1, NoneSpent DEF Inv, SameRun
<1>3. PICK it : it = [It EXCEPT !.orig = Look(Pub(It.name))]
  OBVIOUS
<1>4. /\ DOMAIN it = ItemFields /\ it.payload = It.payload /\ it.name = It.name
      /\ it.temp = It.temp /\ it.installed = It.installed /\ it.backup = It.backup
      /\ it.orig = Look(Pub(It.name))
  BY <1>1, <1>3, ItFacts DEF ItemOK, ItemFields
<1>5. Pub(It.name)[2] = "public" /\ (Has(Pub(It.name)) => it.orig = fs[Pub(It.name)])
      /\ (~Has(Pub(It.name)) => it.orig = NoFile)
  BY <1>4 DEF Pub, Look
<1>6. it.orig \in Files /\ Made(it.orig) /\ it.orig.form # "partial"
  <2>1. CASE Has(Pub(It.name))
    BY <2>1, <1>5 DEF Inv, CardInv, FilesKnown, OthersWhole, Has
  <2>2. CASE ~Has(Pub(It.name))
    BY <2>2, <1>5 DEF Inv, CardInv, NoFile, Files, Makers, Forms, Made, Dated
  <2> QED BY <2>1, <2>2
<1>7. ItemOK(it)'
  BY <1>1, <1>2, <1>4, <1>6, ItemStill
<1>8. /\ SetsItem(it) /\ Goes(task'.pc, task'.i)
      /\ \/ task'.pc = "snapshot" /\ task.i < Last /\ task'.i = task.i + 1
         \/ task'.pc = "write" /\ task.i = Last /\ task'.i = 1
  <2>1. task' = Forward([task EXCEPT !.items[task.i].orig = Look(Pub(It.name)),
                                     !.touched = Settled(It.name)], "snapshot", "write")
    BY DEF snapshot_original
  <2>2. PICK t : t = [task EXCEPT !.items[task.i].orig = Look(Pub(It.name)),
                                  !.touched = Settled(It.name)]
    OBVIOUS
  <2>3. /\ DOMAIN t = TaskFields /\ t.tool = task.tool /\ t.left = task.left /\ t.i = task.i
        /\ t.items = [task.items EXCEPT ![task.i] = it]
    BY <1>1, <1>3, <2>2, ItFacts DEF TaskFields, It
  <2>4. Len(t.items) = Last
    <3>1. /\ Last \in Nat /\ DOMAIN task.items = 1 .. Last
      BY <1>1, ItFacts DEF Items
    <3>2. PICK n : n = Last
      OBVIOUS
    <3>3. DOMAIN t.items = 1 .. n /\ t.items = [k \in 1 .. n |-> t.items[k]] /\ n \in Nat
      BY <3>1, <3>2, <2>3
    <3> QED BY <3>2, <3>3, LengthOf
  <2>5. PICK u : u = Forward(t, "snapshot", "write")
    OBVIOUS
  <2>6. Last \in Nat /\ t.i \in 1 .. Last
    BY <1>1, <2>3, ItFacts
  <2>7. /\ DOMAIN u = TaskFields /\ u.tool = t.tool /\ u.left = t.left /\ u.items = t.items
        /\ \/ u.pc = "snapshot" /\ t.i < Last /\ u.i = t.i + 1
           \/ u.pc = "write" /\ t.i = Last /\ u.i = 1
    BY <2>3, <2>4, <2>5, <2>6, ForwardFacts
  <2>8. task' = u
    BY <2>1, <2>2, <2>5
  <2> QED BY <2>3, <2>7, <2>8 DEF SetsItem, Goes
<1>9. task'.pc \notin {"idle", "done"} => task'.i \in Items
  BY <1>1, <1>8, ItFacts
<1>10. /\ CardInv' /\ Shape' /\ ItemsOK' /\ Last' = Last /\ Items' = Items
       /\ TempsKept(Items) /\ OrigsKept(Items) /\ RollsKept(Items)
       /\ NoneParked' = NoneParked /\ NoneRolled' = NoneRolled
       /\ task'.items[task.i] = it
       /\ \A k \in Items : k # task.i => task'.items[k] = task.items[k]
  BY <1>1, <1>2, <1>4, <1>7, <1>8, <1>9, QuietSet
<1>11. Snapshots'
  <2> SUFFICES ASSUME NEW k \in Items, NEW m \in DOMAIN fs, fs[m].id = task'.items[k].orig.id
               PROVE  m[2] # "temporary"
    BY <1>1, <1>10 DEF Snapshots
  <2>1. CASE k = task.i
    BY <2>1, <1>5, <1>10 DEF Inv, CardInv, InodesUnique, FilesKnown, Has, NoFile
  <2>2. CASE k # task.i
    BY <2>2, <1>1, <1>10 DEF Inv, TaskInv, Snapshots
  <2> QED BY <2>1, <2>2
<1>12. NoneParked /\ NoneRolled /\ \A k \in Items : ~Has(OrigOf(k))
  BY <1>1 DEF Inv, TaskInv, Ahead, Rollbacks, Rolling, Taken, NoneParked, OrigOf, Hidden, Has
<1>13. \A k \in Items : ~task.items[k].backup /\ ~task'.items[k].backup
  BY <1>1, <1>4, <1>10, <1>12, ItFacts DEF Inv, TaskInv, Behind, ParkedIfRecorded, Parked
<1>14. Rollbacks'
  BY <1>8, <1>10, <1>12 DEF Rollbacks, Rolling, Taken
<1>15. Ahead'
  <2>1. \A k \in Items : ~Has(OrigOf(k))'
    BY <1>10, <1>12 DEF OrigsKept
  <2>2. Items' = 1 .. Last' /\ task'.i \in Nat /\ Last' \in Nat
    BY <1>1, <1>8, <1>10, ItFacts
  <2> QED BY <1>8, <1>10, <1>12, <2>1, <2>2 DEF Ahead
<1>16. Behind'
  BY <1>8, <1>10, <1>13 DEF Behind, ParkedIfRecorded
<1>17. Temporaries' /\ Committed' /\ ParksNothing'
  BY <1>1, <1>8 DEF Temporaries, Committed, ParksNothing, Goes
<1> QED BY <1>10, <1>11, <1>14, <1>15, <1>16, <1>17 DEF Inv, TaskInv

-----------------------------------------------------------------------------
(* What the effects on the directory mean to a running tool. *)

(* Every file of the next moment was there before. *)
NoNewFiles ==
  \A m \in DOMAIN fs' : \E n \in DOMAIN fs :
    fs'[m] = fs[n] /\ (m[2] = "temporary" => n[2] = "temporary")

LEMMA Moved ==
  ASSUME Inv, SameRun, owed' = owed, spent'.ids = spent.ids,
         NEW from, NEW to, Has(from), ~Has(to), fs[from].form # "partial",
         to[2] # "temporary", to[2] # "public" => to[3] = spent.runs, Renamed(from, to)
  PROVE  /\ CardInv' /\ OnlyAt({from, to}) /\ NoNewFiles
         /\ DOMAIN fs' = (DOMAIN fs \ {from}) \cup {to} /\ fs'[to] = fs[from]
PROOF
<1>1. CardInv'
  BY CardMoved DEF Inv, SameRun, Renamed
<1>2. /\ DOMAIN fs' = (DOMAIN fs \ {from}) \cup {to} /\ fs'[to] = fs[from] /\ from \in DOMAIN fs
      /\ \A m \in DOMAIN fs \ {from, to} : fs'[m] = fs[m]
  BY DEF Renamed, Move, Has
<1> QED BY <1>1, <1>2 DEF OnlyAt, NoNewFiles, Has

LEMMA Dropped ==
  ASSUME Inv, SameRun, owed' = owed, spent'.ids = spent.ids,
         NEW name, Has(name) => fs[name] \notin owed, fs' = Drop(fs, name)
  PROVE  /\ CardInv' /\ OnlyAt({name}) /\ NoNewFiles
         /\ DOMAIN fs' = DOMAIN fs \ {name}
PROOF
<1>1. CardInv'
  BY CardDropped DEF Inv, SameRun
<1>2. /\ DOMAIN fs' = DOMAIN fs \ {name}
      /\ \A m \in DOMAIN fs \ {name} : fs'[m] = fs[m]
  BY DEF Drop
<1> QED BY <1>1, <1>2 DEF OnlyAt, NoNewFiles

LEMMA Stays ==
  ASSUME Inv, SameRun, fs' = fs, spent'.ids = spent.ids
  PROVE  CardInv' /\ OnlyAt({}) /\ NoNewFiles
PROOF
<1>1. CardInv'
  BY CardKept DEF Inv, CardInv, SameRun
<1> QED BY <1>1 DEF OnlyAt, NoNewFiles

(* A parked file returns to its public name when that is free. *)
LEMMA Returned ==
  ASSUME Inv, Running, SameRun, owed' = owed, spent'.ids = spent.ids,
         NEW purpose \in {"original", "rollback"}, RestoredOr(purpose)
  PROVE  /\ CardInv' /\ OnlyAt({Hidden(It.name, purpose), Pub(It.name)}) /\ NoNewFiles
         /\ fs' = fs \/ Has(Hidden(It.name, purpose))
PROOF
<1>1. PICK from : from = Hidden(It.name, purpose)
  OBVIOUS
<1>2. PICK to : to = Pub(It.name)
  OBVIOUS
<1>3. from[2] = purpose /\ to[2] = "public"
  BY <1>1, <1>2 DEF Hidden, Pub
<1>4. CASE CanRename(from, to)
  <2>1. Has(from) /\ ~Has(to) /\ Renamed(from, to)
    BY <1>1, <1>2, <1>4 DEF RestoredOr, CanRename
  <2>2. fs[from].form # "partial"
    BY <1>3, <2>1 DEF Inv, CardInv, OthersWhole, Has
  <2>3. CardInv' /\ OnlyAt({from, to}) /\ NoNewFiles
    BY <1>3, <2>1, <2>2, Moved
  <2>4. OnlyAt({Hidden(It.name, purpose), Pub(It.name)})
    BY <1>1, <1>2, <2>3
  <2> QED BY <2>1, <2>3, <2>4, <1>1
<1>5. CASE ~CanRename(from, to)
  <2>1. fs' = fs
    BY <1>1, <1>2, <1>5 DEF RestoredOr
  <2>2. CardInv' /\ OnlyAt({}) /\ NoNewFiles
    BY <2>1, Stays
  <2>3. OnlyAt({Hidden(It.name, purpose), Pub(It.name)})
    BY <2>2 DEF OnlyAt
  <2> QED BY <2>1, <2>2, <2>3, <1>1
<1> QED BY <1>4, <1>5

LEMMA Created ==
  ASSUME Inv, Running, NEW n, NEW it, n = It.name,
         fs' = Put(fs, Hidden(n, "temporary"), File(NewId, [It.payload EXCEPT !.form = "partial"])),
         Count("ids"), owed' = owed, it = [It EXCEPT !.temp = NewId]
  PROVE  /\ CardInv' /\ SameRun /\ OnlyAt({TempOf(task.i)})
         /\ ItemOK(it)' /\ it.name = It.name /\ it.orig = It.orig /\ it.backup = It.backup
         /\ it.payload = It.payload /\ it.installed = It.installed
         /\ it.temp # 0 /\ it.temp = NewId
         /\ TempOf(task.i) \in DOMAIN fs' /\ fs'[TempOf(task.i)].id = it.temp
PROOF
<1>1. /\ spent' \in [ids : Nat, foreign : Nat, faults : Nat, runs : Nat]
      /\ spent'.ids = spent.ids + 1 /\ spent'.runs = spent.runs
      /\ spent' = [spent EXCEPT !.ids = @ + 1]
      /\ spent.ids \in Nat /\ spent.runs \in Nat
  BY IdsSpent DEF Inv
<1>2. SameRun
  BY <1>1 DEF SameRun
<1>3. PICK data : data = [It.payload EXCEPT !.form = "partial"]
  OBVIOUS
<1>4. data \in Datas /\ Dated(data) /\ It.payload \in Datas /\ ItemOK(It) /\ Dated(It.payload)
  BY <1>3, ItFacts DEF ItemOK, Datas, Forms, Dated
<1>5. fs' = Put(fs, Hidden(n, "temporary"), File(NewId, data))
  BY <1>3
<1>6. CardInv' /\ \A f \in owed : f.id < NewId
  BY <1>1, <1>4, <1>5, CardCreated DEF Inv
<1>7. /\ DOMAIN it = ItemFields /\ it.name = It.name /\ it.orig = It.orig /\ it.backup = It.backup
      /\ it.payload = It.payload /\ it.installed = It.installed /\ it.temp = NewId
  BY <1>4 DEF ItemOK, ItemFields
<1>8. NewId \in Nat /\ NewId = spent'.ids /\ NewId # 0
  BY <1>1 DEF NewId
<1>9. File(it.temp, it.payload) \notin owed
  <2>1. File(NewId, It.payload).id = NewId
    BY <1>4, <1>8 DEF File
  <2> QED BY <2>1, <1>6, <1>7, <1>8
<1>10. ItemOK(it)'
  <2>1. Dated(it.payload)' /\ Made(it.orig)'
    BY <1>1, <1>4, <1>7 DEF ItemOK, Dated, Made, Datas, Files
  <2>2. it.temp \in 0 .. spent'.ids /\ it.installed \in 0 .. spent'.ids
    BY <1>1, <1>4, <1>7, <1>8 DEF ItemOK
  <2> QED BY <1>4, <1>7, <1>9, <2>1, <2>2 DEF ItemOK
<1>11. TempOf(task.i) = Hidden(n, "temporary")
  BY ItFacts
<1>12. /\ DOMAIN fs' = DOMAIN fs \cup {Hidden(n, "temporary")}
       /\ fs'[Hidden(n, "temporary")] = File(NewId, data)
       /\ \A m \in DOMAIN fs : m # Hidden(n, "temporary") => fs'[m] = fs[m]
  BY <1>5 DEF Put
<1>13. OnlyAt({TempOf(task.i)})
  BY <1>11, <1>12 DEF OnlyAt
<1>14. File(NewId, data).id = NewId
  BY DEF File
<1> QED BY <1>2, <1>6, <1>7, <1>8, <1>10, <1>11, <1>12, <1>13, <1>14

LEMMA Filled ==
  ASSUME Inv, Running, task.pc \in {"fill", "fillpair", "sync"}, NEW n, n = It.name,
         fs' = Put(fs, Hidden(n, "temporary"), File(It.temp, It.payload)),
         owed' = owed, spent' = spent
  PROVE  /\ CardInv' /\ SameRun /\ OnlyAt({TempOf(task.i)})
         /\ TempOf(task.i) \in DOMAIN fs' /\ It.temp # 0
      /\ fs'[TempOf(task.i)] = File(It.temp, It.payload)
         /\ It.temp # 0 /\ fs'[TempOf(task.i)] = File(It.temp, It.payload)
         /\ DOMAIN fs' = DOMAIN fs
         /\ \A m \in DOMAIN fs : fs'[m].id = fs[m].id /\ (m[2] # "temporary" => fs'[m] = fs[m])
PROOF
<1>1. SameRun
  BY NoneSpent DEF Inv, SameRun
<1>2. /\ It.temp # 0 /\ Has(Hidden(n, "temporary")) /\ fs[Hidden(n, "temporary")].id = It.temp
      /\ ItemOK(It) /\ TempOf(task.i) = Hidden(n, "temporary")
  BY ItFacts DEF Inv, TaskInv, Temporaries
<1>3. PICK data : data = It.payload
  OBVIOUS
<1>4. PICK id : id = It.temp
  OBVIOUS
<1>5. /\ data \in Datas /\ Dated(data) /\ File(id, data) \notin owed /\ data.form # "partial"
      /\ fs' = Put(fs, Hidden(n, "temporary"), File(id, data))
      /\ id = fs[Hidden(n, "temporary")].id
  BY <1>2, <1>3, <1>4 DEF ItemOK
<1>6. CardInv'
  BY <1>2, <1>5, CardFilled DEF Inv
<1>7. /\ DOMAIN fs' = DOMAIN fs /\ Hidden(n, "temporary") \in DOMAIN fs
      /\ fs'[Hidden(n, "temporary")] = File(id, data)
      /\ \A m \in DOMAIN fs : m # Hidden(n, "temporary") => fs'[m] = fs[m]
  BY <1>2, <1>5 DEF Put, Has
<1>8. File(id, data).form = data.form /\ File(id, data).id = id
  BY DEF File
<1>9. Hidden(n, "temporary")[2] = "temporary"
  BY DEF Hidden
<1>10. OnlyAt({TempOf(task.i)})
  BY <1>2, <1>7 DEF OnlyAt
<1> QED BY <1>1, <1>2, <1>3, <1>4, <1>5, <1>6, <1>7, <1>8, <1>9, <1>10

(* The tool goes to an item it has not finished, or to the next phase. *)
LEMMA NextItem ==
  ASSUME Inv, Running, NEW t, DOMAIN t = TaskFields, t.tool = task.tool, t.left = task.left,
         t.i = task.i, NEW it, t.items = [task.items EXCEPT ![task.i] = it],
         NEW pc, NEW then, task' = Forward(t, pc, then)
  PROVE  /\ Goes(task'.pc, task'.i) /\ SetsItem(it)
         /\ task'.i \in Items
         /\ \/ task'.pc = pc /\ task.i < Last /\ task'.i = task.i + 1
            \/ task'.pc = then /\ task.i = Last /\ task'.i = 1
PROOF
<1>1. /\ Last \in Nat /\ DOMAIN task.items = 1 .. Last /\ task.i \in 1 .. Last /\ Items = 1 .. Last
  BY ItFacts DEF Items
<1>2. PICK n : n = Last
  OBVIOUS
<1>3. Len(t.items) = n
  <2>1. PICK s : s = t.items
    OBVIOUS
  <2>2. DOMAIN s = 1 .. n /\ s = [k \in 1 .. n |-> s[k]] /\ n \in Nat
    BY <1>1, <1>2, <2>1
  <2> QED BY <2>1, <2>2, LengthOf
<1>4. PICK u : u = Forward(t, pc, then)
  OBVIOUS
<1>5. /\ DOMAIN u = TaskFields /\ u.tool = t.tool /\ u.left = t.left /\ u.items = t.items
      /\ \/ u.pc = pc /\ t.i < n /\ u.i = t.i + 1
         \/ u.pc = then /\ t.i = n /\ u.i = 1
  <2>1. n \in Nat /\ t.i \in 1 .. n
    BY <1>1, <1>2
  <2> QED BY <1>3, <1>4, <2>1, ForwardFacts
<1>6. task' = u
  BY <1>4
<1> QED BY <1>1, <1>2, <1>5, <1>6 DEF Goes, SetsItem

(* The same when the items stay as they are. *)
LEMMA NextItemKept ==
  ASSUME Inv, Running, NEW t, DOMAIN t = TaskFields, t.tool = task.tool, t.left = task.left,
         t.i = task.i, t.items = task.items,
         NEW pc, NEW then, task' = Forward(t, pc, then)
  PROVE  /\ Goes(task'.pc, task'.i) /\ KeepsItems
         /\ task'.i \in Items
         /\ \/ task'.pc = pc /\ task.i < Last /\ task'.i = task.i + 1
            \/ task'.pc = then /\ task.i = Last /\ task'.i = 1
PROOF
<1>1. /\ Last \in Nat /\ DOMAIN task.items = 1 .. Last /\ task.i \in 1 .. Last /\ Items = 1 .. Last
  BY ItFacts DEF Items
<1>2. PICK n : n = Last
  OBVIOUS
<1>4. PICK u : u = Forward(t, pc, then)
  OBVIOUS
<1>5. /\ DOMAIN u = TaskFields /\ u.tool = t.tool /\ u.left = t.left /\ u.items = t.items
      /\ \/ u.pc = pc /\ t.i < n /\ u.i = t.i + 1
         \/ u.pc = then /\ t.i = n /\ u.i = 1
  <2>1. n \in Nat /\ t.i \in 1 .. n /\ Len(t.items) = n
    BY <1>1, <1>2 DEF Last
  <2> QED BY <1>4, <2>1, ForwardFacts
<1>6. task' = u
  BY <1>4
<1> QED BY <1>1, <1>2, <1>5, <1>6 DEF Goes, KeepsItems

(* One item back, or the end of the transaction. *)
LEMMA PreviousItem ==
  ASSUME Inv, Running, NEW t, DOMAIN t = TaskFields, t.tool = task.tool, t.left = task.left,
         t.i = task.i, t.items = task.items, NEW pc, task' = Backward(t, pc)
  PROVE  /\ Goes(task'.pc, task'.i) /\ KeepsItems /\ task'.i \in Items
         /\ \/ task'.pc = pc /\ task.i > 1 /\ task'.i = task.i - 1
            \/ task'.pc = "done"
PROOF
<1>1. Last \in Nat /\ task.i \in Nat /\ task.i >= 1 /\ task.i <= Last /\ Items = 1 .. Last
  BY ItFacts
<1>2. PICK u : u = Backward(t, pc)
  OBVIOUS
<1>3. /\ DOMAIN u = TaskFields /\ u.tool = t.tool /\ u.left = t.left /\ u.items = t.items
      /\ \/ u.pc = pc /\ t.i > 1 /\ u.i = t.i - 1
         \/ u.pc = "done" /\ u.i = t.i
  BY <1>1, <1>2, BackwardFacts
<1>4. task' = u
  BY <1>2
<1> QED BY <1>1, <1>3, <1>4 DEF Goes, KeepsItems

(* What was parked stays parked. *)
LEMMA StillParked ==
  ASSUME NEW K, K \subseteq Items, OrigsKept(K),
         \A k \in K : /\ task'.items[k].orig = task.items[k].orig
                      /\ task'.items[k].backup => task.items[k].backup,
         task'.tool = task.tool, \A k \in K : ParkedIfRecorded(k)
  PROVE  \A k \in K : ParkedIfRecorded(k)'
PROOF BY DEF OrigsKept, ParkedIfRecorded, Parked

(* What may go still may, and what has gone is of no concern. *)
LEMMA StillMayGo ==
  ASSUME NEW K, OrigsKept(K), KeepsItems, owed' \subseteq owed, \A k \in K : MayGo(k)
  PROVE  \A k \in K : MayGo(k)'
PROOF BY DEF OrigsKept, KeepsItems, MayGo

LEMMA DropMayGo ==
  ASSUME Inv, Running, KeepsItems, SameRun, OrigsKept(Items \ {task.i}),
         fs' = IF It.backup THEN Drop(fs, Hidden(It.name, "original")) ELSE fs,
         \A k \in Items : MayGo(k)
  PROVE  \A k \in Items : MayGo(k)'
PROOF
<1>1. \A k \in Items \ {task.i} : MayGo(k)'
  BY StillMayGo DEF SameRun
<1>2. PICK j : j = task.i
  OBVIOUS
<1>3. MayGo(j)'
  <2>2. /\ It = task.items[j] /\ task'.items[j] = task.items[j]
        /\ OrigOf(j) = Hidden(It.name, "original") /\ OrigOf(j)' = OrigOf(j)
    BY <1>2, ItFacts DEF KeepsItems, It, OrigOf, Hidden, SameRun
  <2>3. MayGo(j)'
    <3>1. CASE It.backup
      BY <2>2, <3>1 DEF MayGo, Has, Drop
    <3>2. CASE ~It.backup
      BY <2>2, <3>2 DEF MayGo
    <3> QED BY <3>1, <3>2
  <2> QED BY <2>3
<1> QED BY <1>1, <1>2, <1>3

(* The commit: once the last file has been verified, the parked originals   *)
(* are nobody's.                                                            *)
LEMMA CommitLetsGo ==
  ASSUME Inv, KeepsItems, OrigsKept(Items), Items' = Items, NEW gone,
         task.i = Last => owed' = owed \ gone,
         \A k \in Items : task.items[k].backup => fs[OrigOf(k)] \notin owed \ gone,
         task'.pc \in {"cleanup", "purge"} => task.i = Last
  PROVE  Committed'
PROOF BY DEF Committed, MayGo, KeepsItems, OrigsKept

(* A filled temporary stays filled where its name and its item stay. *)
LEMMA StillReady ==
  ASSUME NEW K, TempsKept(K),
         \A k \in K : /\ task'.items[k].temp = task.items[k].temp
                      /\ task'.items[k].payload = task.items[k].payload,
         \A k \in K : Ready(k)
  PROVE  \A k \in K : Ready(k)'
PROOF BY DEF TempsKept, Ready, File

LEMMA ReadyWhole ==
  ASSUME Inv, NEW k \in Items, Ready(k)
  PROVE  Has(TempOf(k)) /\ fs[TempOf(k)].form # "partial"
PROOF
<1>1. task.items[k].payload.form # "partial"
  BY DEF Inv, TaskInv, ItemsOK, ItemOK
<1> QED BY <1>1 DEF Ready, File

(* Hidden names that this run has not used. *)
LEMMA UnusedNames ==
  /\ NoneParked => \A k \in Items : ~Has(OrigOf(k))
  /\ NoneRolled => \A k \in Items : ~Has(RollOf(k))
PROOF BY DEF NoneParked, NoneRolled, OrigOf, RollOf, Hidden, Has

LEMMA SkipUnchanged ==
  ASSUME Inv, skip_unchanged
  PROVE  Inv'
PROOF
<1>1. task.pc = "write" /\ task.tool = "stage" /\ Running /\ fs' = fs /\ owed' = owed
      /\ spent' = spent
  BY DEF skip_unchanged, Stage, At, Running
<1>2. SameRun /\ spent'.ids = spent.ids
  BY <1>1, NoneSpent DEF Inv, SameRun
<1>3. /\ Goes(task'.pc, task'.i) /\ KeepsItems /\ task'.i \in Items
      /\ \/ task'.pc = "write" /\ task.i < Last /\ task'.i = task.i + 1
         \/ task'.pc = "verify" /\ task.i = Last /\ task'.i = 1
  <2>1. PICK t : t = task
    OBVIOUS
  <2>2. /\ DOMAIN t = TaskFields /\ t.tool = task.tool /\ t.left = task.left /\ t.i = task.i
        /\ t.items = task.items /\ task' = Forward(t, "write", "verify")
    BY <1>1, <2>1, ItFacts DEF skip_unchanged
  <2> QED BY <1>1, <2>2, NextItemKept
<1>4. /\ CardInv' /\ Shape' /\ ItemsOK' /\ Snapshots' /\ ParksNothing'
      /\ Last' = Last /\ Items' = Items
      /\ TempsKept(Items) /\ OrigsKept(Items) /\ RollsKept(Items)
      /\ NoneParked' = NoneParked /\ NoneRolled' = NoneRolled
  BY <1>1, <1>2, <1>3, QuietStep
<1>5. /\ NoneRolled /\ \A k \in task.i .. Last : ~Has(OrigOf(k))
      /\ \A k \in Items : ParkedIfRecorded(k)
  BY <1>1 DEF Inv, TaskInv, Rollbacks, Rolling, Taken, Ahead, Behind
<1>6. Rollbacks'
  BY <1>3, <1>4, <1>5 DEF Rollbacks, Rolling, Taken
<1>7. Ahead'
  <2>1. \A k \in task.i .. Last : ~Has(OrigOf(k))'
    BY <1>1, <1>4, <1>5, ItFacts DEF OrigsKept
  <2> QED BY <1>1, <1>3, <1>4, <2>1, ItFacts DEF Ahead
<1>8. Behind'
  <2>1. \A k \in Items : ParkedIfRecorded(k)'
    BY <1>3, <1>4, <1>5, StillParked DEF KeepsItems, Goes
  <2> QED BY <1>3, <1>4, <2>1 DEF Behind
<1>9. Temporaries' /\ Committed'
  BY <1>3 DEF Temporaries, Committed
<1> QED BY <1>4, <1>6, <1>7, <1>8, <1>9 DEF Inv, TaskInv

LEMMA CreateTemporary ==
  ASSUME Inv, create_temporary
  PROVE  Inv'
PROOF
<1>1. /\ task.pc = "write" /\ task.tool = "stage" /\ Running /\ owed' = owed
      /\ fs' = Put(fs, Hidden(It.name, "temporary"), File(NewId, [It.payload EXCEPT !.form = "partial"]))
      /\ Count("ids") /\ task' = With([It EXCEPT !.temp = NewId], "fill")
  BY DEF create_temporary, Stage, At, Running
<1>2. PICK n, it : n = It.name /\ it = [It EXCEPT !.temp = NewId]
  OBVIOUS
<1>3. /\ CardInv' /\ SameRun /\ OnlyAt({TempOf(task.i)})
      /\ ItemOK(it)' /\ it.name = It.name /\ it.orig = It.orig /\ it.backup = It.backup
      /\ it.temp # 0 /\ it.temp = NewId
      /\ TempOf(task.i) \in DOMAIN fs' /\ fs'[TempOf(task.i)].id = it.temp
  BY <1>1, <1>2, Created
<1>4. Goes("fill", task.i) /\ SetsItem(it)
  BY <1>1, <1>2, ItFacts DEF With, Goes, SetsItem, TaskFields
<1>5. PICK j : j = task.i
  OBVIOUS
<1>6. /\ Shape' /\ ItemsOK' /\ Last' = Last /\ Items' = Items /\ NamesKept
      /\ task'.items[task.i] = it
      /\ \A k \in Items : k # task.i => task'.items[k] = task.items[k]
  BY <1>1, <1>3, <1>4, <1>5, ItemSet, ItFacts
<1>7. OrigsKept(Items) /\ RollsKept(Items) /\ (NoneRolled => NoneRolled')
  <2>1. PICK S : S = {TempOf(task.i)}
    OBVIOUS
  <2>2. \A m \in S : m[2] = "temporary"
    BY <2>1 DEF TempOf, Hidden
  <2> QED BY <1>1, <1>3, <1>6, <2>1, <2>2, NamesUntouched DEF SameRun
<1>8. /\ NoneRolled /\ \A k \in task.i .. Last : ~Has(OrigOf(k))
      /\ \A k \in Items : ParkedIfRecorded(k)
  BY <1>1 DEF Inv, TaskInv, Rollbacks, Rolling, Taken, Ahead, Behind
<1>9. Snapshots'
  <2> SUFFICES ASSUME NEW k \in Items, NEW m \in DOMAIN fs', fs'[m].id = task'.items[k].orig.id
               PROVE  m[2] # "temporary"
    BY <1>6 DEF Snapshots
  <2>1. task'.items[k].orig = task.items[k].orig
    BY <1>3, <1>6 DEF It
  <2>2. /\ task.items[k].orig.id < NewId /\ NewId \in Nat /\ task.items[k].orig.id \in Nat
    BY DEF Inv, TaskInv, CardInv, ItemsOK, ItemOK, Made, Files, NewId
  <2>3. m # TempOf(task.i)
    BY <1>3, <2>1, <2>2
  <2> QED BY <1>1, <1>3, <2>1, <2>3 DEF Inv, TaskInv, Snapshots, OnlyAt
<1>10. Rollbacks' /\ ParksNothing' /\ Committed'
  BY <1>1, <1>4, <1>7, <1>8 DEF Goes, Rollbacks, Rolling, Taken, ParksNothing, Committed
<1>11. Ahead'
  <2>1. \A k \in task.i .. Last : ~Has(OrigOf(k))'
    BY <1>1, <1>7, <1>8, ItFacts DEF OrigsKept
  <2> QED BY <1>4, <1>6, <2>1 DEF Ahead, Goes
<1>12. Behind'
  <2>1. \A k \in Items : ParkedIfRecorded(k)'
    BY <1>3, <1>4, <1>6, <1>7, <1>8, StillParked DEF It, Goes
  <2> QED BY <1>4, <1>6, <2>1 DEF Behind, Goes
<1>13. Temporaries'
  <2>1. It' = it /\ task'.i = task.i
    BY <1>4, <1>6 DEF It, Goes
  <2>2. TempOf(task.i)' = TempOf(task.i)
    BY <1>3, <1>6, <2>1 DEF It, SameRun, TempOf, Hidden
  <2> QED BY <1>3, <1>4, <2>1, <2>2 DEF Temporaries, Goes, Has
<1> QED BY <1>3, <1>6, <1>9, <1>10, <1>11, <1>12, <1>13 DEF Inv, TaskInv

LEMMA FillTemporary ==
  ASSUME Inv, fill_temporary
  PROVE  Inv'
PROOF
<1>1. /\ task.pc = "fill" /\ task.tool = "stage" /\ Running /\ owed' = owed /\ spent' = spent
      /\ fs' = Put(fs, Hidden(It.name, "temporary"), File(It.temp, It.payload))
      /\ task' = To(IF It.orig = NoFile THEN "publish" ELSE "park")
  BY DEF fill_temporary, Stage, At, Running
<1>2. PICK n : n = It.name
  OBVIOUS
<1>3. /\ CardInv' /\ SameRun /\ OnlyAt({TempOf(task.i)})
      /\ TempOf(task.i) \in DOMAIN fs' /\ It.temp # 0
      /\ fs'[TempOf(task.i)] = File(It.temp, It.payload)
      /\ DOMAIN fs' = DOMAIN fs
      /\ \A m \in DOMAIN fs : fs'[m].id = fs[m].id /\ (m[2] # "temporary" => fs'[m] = fs[m])
  BY <1>1, <1>2, Filled
<1>4. /\ Goes(task'.pc, task.i) /\ KeepsItems
      /\ \/ task'.pc = "publish" /\ It.orig = NoFile
         \/ task'.pc = "park"
  BY <1>1, ItFacts DEF To, Goes, KeepsItems, TaskFields
<1>5. PICK j, p : j = task.i /\ p = task'.pc
  OBVIOUS
<1>6. /\ Shape' /\ ItemsOK' /\ Last' = Last /\ Items' = Items /\ NamesKept
  BY <1>1, <1>3, <1>4, <1>5, ItemsKept, ItFacts
<1>7. OrigsKept(Items) /\ RollsKept(Items) /\ (NoneRolled => NoneRolled')
  <2>1. PICK S : S = {TempOf(task.i)}
    OBVIOUS
  <2>2. \A m \in S : m[2] = "temporary"
    BY <2>1 DEF TempOf, Hidden
  <2> QED BY <1>1, <1>3, <1>6, <2>1, <2>2, NamesUntouched DEF SameRun
<1>8. /\ NoneRolled /\ \A k \in task.i .. Last : ~Has(OrigOf(k))
      /\ \A k \in Items : ParkedIfRecorded(k)
  BY <1>1 DEF Inv, TaskInv, Rollbacks, Rolling, Taken, Ahead, Behind
<1>9. Snapshots'
  BY <1>1, <1>3, <1>4, <1>6 DEF Inv, TaskInv, Snapshots, KeepsItems
<1>10. Rollbacks' /\ ParksNothing' /\ Committed'
  BY <1>1, <1>4, <1>7, <1>8 DEF Goes, Rollbacks, Rolling, Taken, ParksNothing, Committed
<1>11. Ahead'
  <2>1. \A k \in task.i .. Last : ~Has(OrigOf(k))'
    BY <1>1, <1>7, <1>8, ItFacts DEF OrigsKept
  <2> QED BY <1>1, <1>4, <1>6, <2>1, ItFacts DEF Ahead, Goes
<1>12. Behind'
  <2>1. \A k \in Items : ParkedIfRecorded(k)'
    BY <1>4, <1>6, <1>7, <1>8, StillParked DEF KeepsItems, Goes
  <2>2. It' = It /\ NoFile' = NoFile
    BY <1>4 DEF It, Goes, KeepsItems, NoFile
  <2> QED BY <1>4, <1>6, <2>1, <2>2 DEF Behind, Goes
<1>13. Temporaries'
  <2>1. TempOf(task.i)' = TempOf(task.i) /\ task'.i = task.i
    BY <1>3, <1>4 DEF Goes, SameRun, TempOf, Hidden, KeepsItems
  <2>2. PICK i : i = task.i
    OBVIOUS
  <2>3. TempOf(i)' = TempOf(i) /\ It = task.items[i]
    BY <2>1, <2>2 DEF It
  <2>4. Ready(i)' /\ task'.i = i
    BY <1>3, <1>4, <2>1, <2>2, <2>3 DEF Ready, Has, KeepsItems, File
  <2> QED BY <1>4, <2>4 DEF Temporaries, Goes
<1> QED BY <1>3, <1>6, <1>9, <1>10, <1>11, <1>12, <1>13 DEF Inv, TaskInv

(* A transaction that has turned back needs only its rollback names. *)
LEMMA GoesBack ==
  ASSUME Inv, SameRun, NEW p \in {"unwind", "rollback", "undo", "remove", "done"}, NEW j,
         Goes(p, j), CardInv', Shape', ItemsOK', Items' = Items, NoNewFiles,
         \A k \in Items : task'.items[k].orig = task.items[k].orig,
         task.tool = "preset" => \A k \in Items : task'.items[k].backup => task.items[k].backup,
         NoneParked => NoneParked',
         p = "unwind" => NoneRolled',
         p \in Rolling => \A k \in 1 .. j : ~Has(RollOf(k))'
  PROVE  Inv'
PROOF
<1>1. Snapshots'
  BY SnapshotsKept DEF Goes, NoNewFiles
<1>2. ParksNothing'
  BY ParksNothingKept, NotPreset DEF Goes
<1>3. Rollbacks'
  BY DEF Goes, Rollbacks, Rolling, Taken, Running
<1>4. Ahead' /\ Behind' /\ Temporaries' /\ Committed'
  BY TurnedBack DEF Goes, Backing
<1> QED BY <1>1, <1>2, <1>3, <1>4 DEF Inv, TaskInv

(* A forward pass fails: nothing under a rollback name yet. *)
LEMMA PassFails ==
  ASSUME Inv, Running, SameRun, NEW p \in {"unwind", "rollback", "undo", "remove", "done"},
         NEW j, j \in Items, Goes(p, j), KeepsItems, CardInv', NoNewFiles,
         NEW S, OnlyAt(S), \A m \in S : m[2] \notin {"rollback"}, NoneRolled,
         NoneParked => NoneParked'
  PROVE  Inv'
PROOF
<1>1. Shape' /\ ItemsOK' /\ Last' = Last /\ Items' = Items /\ NamesKept
  BY ItemsKept
<1>2. RollsKept(Items) /\ NoneRolled'
  BY <1>1, NamesUntouched DEF SameRun
<1>3. \A k \in 1 .. j : ~Has(RollOf(k))'
  BY <1>1, <1>2, UnusedNames, ItFacts DEF RollsKept
<1> QED BY <1>1, <1>2, <1>3, GoesBack DEF KeepsItems

LEMMA ParkOriginal ==
  ASSUME Inv, park_original
  PROVE  Inv'
PROOF
<1>1. /\ task.pc = "park" /\ task.tool = "stage" /\ Running /\ owed' = owed /\ spent' = spent
  BY DEF park_original, Stage, At, Running
<1>2. SameRun /\ spent'.ids = spent.ids
  BY <1>1, NoneSpent DEF Inv, SameRun
<1>3. /\ NoneRolled /\ \A k \in task.i .. Last : ~Has(OrigOf(k))
      /\ \A k \in Items : ParkedIfRecorded(k)
      /\ Ready(task.i)
  BY <1>1 DEF Inv, TaskInv, Rollbacks, Rolling, Taken, Ahead, Behind, Temporaries
<1>4. PICK j : j = task.i
  OBVIOUS
<1>5. CASE ~Has(Pub(It.name))
  <2>1. Goes("unwind", j) /\ KeepsItems /\ fs' = fs
    BY <1>1, <1>4, <1>5, ItFacts DEF park_original, To, Goes, KeepsItems, TaskFields
  <2>2. CardInv' /\ OnlyAt({}) /\ NoNewFiles
    BY <1>2, <2>1, Stays
  <2>3. NoneParked => NoneParked'
    BY <1>2, <2>1 DEF NoneParked, SameRun
  <2> QED BY <1>1, <1>2, <1>3, <1>4, <2>1, <2>2, <2>3, PassFails, ItFacts
<1>6. CASE Has(Pub(It.name))
  <2>1. Goes("check", j) /\ KeepsItems /\ Renamed(Pub(It.name), Hidden(It.name, "original"))
    BY <1>1, <1>4, <1>6, ItFacts DEF park_original, To, Goes, KeepsItems, TaskFields
  <2>2. PICK from, to : from = Pub(It.name) /\ to = Hidden(It.name, "original")
    OBVIOUS
  <2>3. /\ from[2] = "public" /\ to[2] = "original" /\ to[3] = spent.runs
        /\ to = OrigOf(task.i) /\ Has(from) /\ ~Has(to) /\ Renamed(from, to)
    BY <1>1, <1>3, <1>6, <2>1, <2>2, ItFacts DEF Pub, Hidden
  <2>4. fs[from].form # "partial"
    BY <2>3 DEF Inv, CardInv, OthersWhole, Has
  <2>5. /\ CardInv' /\ OnlyAt({from, to}) /\ NoNewFiles
        /\ DOMAIN fs' = (DOMAIN fs \ {from}) \cup {to} /\ fs'[to] = fs[from]
    BY <1>1, <1>2, <2>3, <2>4, Moved
  <2>6. /\ Shape' /\ ItemsOK' /\ Last' = Last /\ Items' = Items /\ NamesKept
    BY <1>1, <1>2, <1>4, <2>1, ItemsKept, ItFacts
  <2>7. /\ TempsKept(Items) /\ OrigsKept(Items \ {task.i}) /\ RollsKept(Items)
        /\ (NoneRolled => NoneRolled')
    BY <1>1, <1>2, <2>3, <2>5, <2>6, NamesUntouched DEF SameRun
  <2>8. Snapshots' /\ ParksNothing' /\ Committed'
    BY <1>1, <2>1, <2>5, <2>6, SnapshotsKept DEF Goes, KeepsItems, NoNewFiles, ParksNothing, Committed
  <2>9. Rollbacks'
    BY <1>3, <2>1, <2>7 DEF Goes, Rollbacks, Rolling, Taken
  <2>10. OrigOf(task.i)' = OrigOf(task.i) /\ TempOf(task.i)' = TempOf(task.i) /\ task'.i = task.i
    BY <1>2, <1>4, <2>1 DEF Goes, SameRun, KeepsItems, OrigOf, TempOf, Hidden
  <2>11. Ahead'
    <3>1. \A k \in task.i + 1 .. Last : ~Has(OrigOf(k))'
      BY <1>1, <1>3, <2>7, ItFacts DEF OrigsKept
    <3> QED BY <2>1, <2>3, <2>5, <2>6, <2>10, <3>1 DEF Ahead, Goes, Has
  <2>12. Behind'
    <3>1. \A k \in Items \ {task.i} : ParkedIfRecorded(k)'
      BY <1>3, <2>1, <2>7, StillParked DEF KeepsItems, Goes
    <3>2. ~task.items[task.i].backup
      BY <1>1, <1>3, ItFacts DEF ParkedIfRecorded, Parked
    <3>3. ParkedIfRecorded(task.i)'
      BY <2>1, <2>10, <3>2 DEF KeepsItems, ParkedIfRecorded
    <3>4. \A k \in Items : ParkedIfRecorded(k)'
      <4>1. \A k \in Items : k = j \/ k \in Items \ {task.i}
        BY <1>4
      <4>2. ParkedIfRecorded(j)'
        BY <1>4, <2>10, <3>3
      <4> QED BY <3>1, <4>1, <4>2
    <3> QED BY <2>1, <2>6, <3>4 DEF Behind, Goes
  <2>13. Temporaries'
    <3>1. j \in Items /\ Ready(j)
      BY <1>1, <1>3, <1>4, ItFacts
    <3>2. Ready(j)'
      BY <2>1, <2>7, <3>1 DEF KeepsItems, Ready, TempsKept, File
    <3>3. task'.i = j
      BY <1>4, <2>10
    <3> QED BY <2>1, <3>2, <3>3 DEF Temporaries, Goes
  <2> QED BY <2>5, <2>6, <2>8, <2>9, <2>11, <2>12, <2>13 DEF Inv, TaskInv
<1> QED BY <1>5, <1>6

LEMMA CheckParked ==
  ASSUME Inv, check_parked
  PROVE  Inv'
PROOF
<1>1. /\ task.pc = "check" /\ task.tool = "stage" /\ Running /\ owed' = owed /\ spent' = spent
  BY DEF check_parked, Stage, At, Running
<1>2. SameRun /\ spent'.ids = spent.ids
  BY <1>1, NoneSpent DEF Inv, SameRun
<1>3. /\ NoneRolled /\ \A k \in task.i + 1 .. Last : ~Has(OrigOf(k))
      /\ \A k \in Items : ParkedIfRecorded(k)
      /\ Ready(task.i) /\ Has(OrigOf(task.i))
  BY <1>1 DEF Inv, TaskInv, Rollbacks, Rolling, Taken, Ahead, Behind, Temporaries
<1>4. PICK j : j = task.i
  OBVIOUS
<1>5. CASE fs[Hidden(It.name, "original")].id # It.orig.id
  <2>1. Goes("unwind", j) /\ KeepsItems /\ RestoredOr("original")
    BY <1>1, <1>4, <1>5, ItFacts DEF check_parked, To, Goes, KeepsItems, TaskFields
  <2>2. CardInv' /\ OnlyAt({Hidden(It.name, "original"), Pub(It.name)}) /\ NoNewFiles
    BY <1>1, <1>2, <2>1, Returned
  <2>3. NoneParked => NoneParked'
    BY <1>1, <1>3, UnusedNames, ItFacts
  <2>4. PICK S : S = {Hidden(It.name, "original"), Pub(It.name)}
    OBVIOUS
  <2>5. \A m \in S : m[2] \notin {"rollback"}
    BY <2>4 DEF Hidden, Pub
  <2> QED BY <1>1, <1>2, <1>3, <1>4, <2>1, <2>2, <2>3, <2>4, <2>5, PassFails, ItFacts
<1>6. CASE fs[Hidden(It.name, "original")].id = It.orig.id
  <2>1. Goes("publish", j) /\ KeepsItems /\ fs' = fs
    BY <1>1, <1>4, <1>6, ItFacts DEF check_parked, To, Goes, KeepsItems, TaskFields
  <2>2. /\ CardInv' /\ Shape' /\ ItemsOK' /\ Snapshots' /\ ParksNothing'
        /\ Last' = Last /\ Items' = Items
        /\ TempsKept(Items) /\ OrigsKept(Items) /\ RollsKept(Items)
        /\ NoneParked' = NoneParked /\ NoneRolled' = NoneRolled
    BY <1>1, <1>2, <1>4, <2>1, QuietStep, ItFacts
  <2>3. fs[OrigOf(task.i)].id = It.orig.id
    BY <1>1, <1>6, ItFacts
  <2>4. Rollbacks' /\ Committed'
    BY <1>3, <2>1, <2>2 DEF Goes, Rollbacks, Rolling, Taken, Committed
  <2>5. /\ OrigOf(task.i)' = OrigOf(task.i) /\ TempOf(task.i)' = TempOf(task.i)
        /\ task'.i = task.i /\ It' = It /\ NoFile' = NoFile
    BY <1>2, <1>4, <2>1 DEF Goes, SameRun, KeepsItems, OrigOf, TempOf, Hidden, It, NoFile
  <2>6. Ahead'
    <3>1. \A k \in task.i + 1 .. Last : ~Has(OrigOf(k))'
      BY <1>1, <1>3, <2>2, ItFacts DEF OrigsKept
    <3> QED BY <2>1, <2>2, <2>5, <3>1 DEF Ahead, Goes
  <2>7. Behind'
    <3>1. \A k \in Items : ParkedIfRecorded(k)'
      BY <1>3, <2>1, <2>2, StillParked DEF KeepsItems, Goes
    <3>2. Parked(task.i)'
      BY <1>1, <1>3, <2>1, <2>3, <2>5, ItFacts DEF Parked, Has, It, Goes
    <3>3. Parked(j)' /\ task'.i = j
      BY <1>4, <2>5, <3>2
    <3> QED BY <2>1, <2>2, <3>1, <3>3 DEF Behind, Goes
  <2>8. Temporaries'
    <3>1. j \in Items /\ Ready(j)
      BY <1>1, <1>3, <1>4, ItFacts
    <3>2. Ready(j)'
      BY <2>1, <2>2, <3>1 DEF KeepsItems, Ready, TempsKept, File
    <3>3. task'.i = j
      BY <1>4, <2>5
    <3> QED BY <2>1, <3>2, <3>3 DEF Temporaries, Goes
  <2> QED BY <2>2, <2>4, <2>6, <2>7, <2>8 DEF Inv, TaskInv
<1> QED BY <1>5, <1>6

LEMMA Publish ==
  ASSUME Inv, publish
  PROVE  Inv'
PROOF
<1>1. /\ task.pc = "publish" /\ task.tool = "stage" /\ Running /\ owed' = owed /\ spent' = spent
  BY DEF publish, Stage, At, Running
<1>2. SameRun /\ spent'.ids = spent.ids
  BY <1>1, NoneSpent DEF Inv, SameRun
<1>3. /\ NoneRolled /\ \A k \in task.i + 1 .. Last : ~Has(OrigOf(k))
      /\ \A k \in Items : ParkedIfRecorded(k)
      /\ Ready(task.i) /\ (It.orig # NoFile => Parked(task.i))
  BY <1>1 DEF Inv, TaskInv, Rollbacks, Rolling, Taken, Ahead, Behind, Temporaries
<1>4. PICK j : j = task.i
  OBVIOUS
<1>5. CASE Has(Pub(It.name))
  <2>1. Goes("unwind", j) /\ KeepsItems /\ RestoredOr("original")
    BY <1>1, <1>4, <1>5, ItFacts DEF publish, To, Goes, KeepsItems, TaskFields
  <2>2. CardInv' /\ OnlyAt({Hidden(It.name, "original"), Pub(It.name)}) /\ NoNewFiles
    BY <1>1, <1>2, <2>1, Returned
  <2>3. NoneParked => NoneParked'
    <3>1. fs' = fs
      BY <1>5, <2>1 DEF RestoredOr, CanRename
    <3> QED BY <1>2, <3>1 DEF NoneParked, SameRun
  <2>4. PICK S : S = {Hidden(It.name, "original"), Pub(It.name)}
    OBVIOUS
  <2>5. \A m \in S : m[2] \notin {"rollback"}
    BY <2>4 DEF Hidden, Pub
  <2> QED BY <1>1, <1>2, <1>3, <1>4, <2>1, <2>2, <2>3, <2>4, <2>5, PassFails, ItFacts
<1>6. CASE ~Has(Pub(It.name))
  <2>1. Goes("record", j) /\ KeepsItems /\ Renamed(Hidden(It.name, "temporary"), Pub(It.name))
    BY <1>1, <1>4, <1>6, ItFacts DEF publish, To, Goes, KeepsItems, TaskFields
  <2>2. PICK from, to : from = Hidden(It.name, "temporary") /\ to = Pub(It.name)
    OBVIOUS
  <2>3. /\ from[2] = "temporary" /\ to[2] = "public" /\ Has(from) /\ ~Has(to)
        /\ Renamed(from, to) /\ fs[from].form # "partial"
    BY <1>1, <1>3, <1>6, <2>1, <2>2, ItFacts, ReadyWhole DEF Pub, Hidden
  <2>4. CardInv' /\ OnlyAt({from, to}) /\ NoNewFiles
    BY <1>2, <1>1, <2>3, Moved
  <2>5. /\ Shape' /\ ItemsOK' /\ Last' = Last /\ Items' = Items /\ NamesKept
    BY <1>1, <1>2, <1>4, <2>1, ItemsKept, ItFacts
  <2>6. OrigsKept(Items) /\ RollsKept(Items) /\ (NoneRolled => NoneRolled')
    BY <1>1, <1>2, <2>3, <2>4, <2>5, NamesUntouched DEF SameRun
  <2>7. Snapshots' /\ ParksNothing' /\ Committed'
    BY <1>1, <2>1, <2>4, <2>5, SnapshotsKept
       DEF Goes, KeepsItems, NoNewFiles, ParksNothing, Committed
  <2>8. Rollbacks'
    BY <1>3, <2>1, <2>6 DEF Goes, Rollbacks, Rolling, Taken
  <2>9. /\ OrigOf(task.i)' = OrigOf(task.i) /\ task'.i = task.i /\ It' = It /\ NoFile' = NoFile
    BY <1>2, <1>4, <2>1 DEF Goes, SameRun, KeepsItems, OrigOf, Hidden, It, NoFile
  <2>10. Ahead'
    <3>1. \A k \in task.i + 1 .. Last : ~Has(OrigOf(k))'
      BY <1>1, <1>3, <2>6, ItFacts DEF OrigsKept
    <3> QED BY <2>1, <2>5, <2>9, <3>1 DEF Ahead, Goes
  <2>11. Behind'
    <3>1. \A k \in Items : ParkedIfRecorded(k)'
      BY <1>3, <2>1, <2>6, StillParked DEF KeepsItems, Goes
    <3>2. (It.orig # NoFile => Parked(j)) /\ j \in Items
      BY <1>1, <1>3, <1>4, ItFacts
    <3>3. (It.orig # NoFile => Parked(j)') /\ task'.i = j
      BY <1>4, <2>1, <2>6, <2>9, <3>2 DEF Parked, OrigsKept, KeepsItems, Goes
    <3> QED BY <2>1, <2>5, <2>9, <3>1, <3>3 DEF Behind, Goes
  <2>12. Temporaries'
    <3>1. It.temp # 0
      BY <1>1, <1>3, ItFacts DEF Ready
    <3> QED BY <2>1, <2>9, <3>1 DEF Temporaries, Goes
  <2> QED BY <2>4, <2>5, <2>7, <2>8, <2>10, <2>11, <2>12 DEF Inv, TaskInv
<1> QED BY <1>5, <1>6

LEMMA RecordPublication ==
  ASSUME Inv, record_publication
  PROVE  Inv'
PROOF
<1>1. /\ task.pc = "record" /\ task.tool = "stage" /\ Running /\ owed' = owed /\ spent' = spent
      /\ fs' = fs
  BY DEF record_publication, Stage, At, Running
<1>2. SameRun /\ spent'.ids = spent.ids
  BY <1>1, NoneSpent DEF Inv, SameRun
<1>3. /\ NoneRolled /\ \A k \in task.i + 1 .. Last : ~Has(OrigOf(k))
      /\ \A k \in Items : ParkedIfRecorded(k)
      /\ (It.orig # NoFile => Parked(task.i))
  BY <1>1 DEF Inv, TaskInv, Rollbacks, Rolling, Taken, Ahead, Behind
<1>4. PICK it : it = Recorded
  OBVIOUS
<1>5. /\ DOMAIN it = ItemFields /\ it.name = It.name /\ it.payload = It.payload
      /\ it.orig = It.orig /\ it.temp = 0 /\ it.installed = It.temp
      /\ (it.backup => It.orig # NoFile)
  BY <1>1, <1>4, ItFacts DEF Recorded, ItemOK, ItemFields
<1>6. ItemOK(it)'
  BY <1>1, <1>2, <1>5, ItemStill
<1>7. /\ Goes(task'.pc, task'.i) /\ SetsItem(it) /\ task'.i \in Items
      /\ \/ task'.pc = "write" /\ task.i < Last /\ task'.i = task.i + 1
         \/ task'.pc = "verify" /\ task.i = Last /\ task'.i = 1
  <2>1. PICK t : t = With(Recorded, "write")
    OBVIOUS
  <2>2. /\ DOMAIN t = TaskFields /\ t.tool = task.tool /\ t.left = task.left /\ t.i = task.i
        /\ t.items = [task.items EXCEPT ![task.i] = it]
    BY <1>1, <1>4, <2>1, ItFacts DEF With, TaskFields
  <2>3. task' = Forward(t, "write", "verify")
    BY <2>1 DEF record_publication
  <2> QED BY <1>1, <2>2, <2>3, NextItem
<1>8. /\ CardInv' /\ Shape' /\ ItemsOK' /\ Last' = Last /\ Items' = Items /\ Snapshots'
      /\ TempsKept(Items) /\ OrigsKept(Items) /\ RollsKept(Items)
      /\ NoneParked' = NoneParked /\ NoneRolled' = NoneRolled
      /\ task'.items[task.i] = it
      /\ \A k \in Items : k # task.i => task'.items[k] = task.items[k]
  BY <1>1, <1>2, <1>5, <1>6, <1>7, QuietSet
<1>9. Rollbacks' /\ ParksNothing' /\ Committed' /\ Temporaries'
  BY <1>1, <1>3, <1>7, <1>8 DEF Goes, Rollbacks, Rolling, Taken, ParksNothing, Committed, Temporaries
<1>10. Ahead'
  <2>1. \A k \in task.i + 1 .. Last : ~Has(OrigOf(k))'
    BY <1>1, <1>3, <1>8, ItFacts DEF OrigsKept
  <2> QED BY <1>1, <1>7, <1>8, <2>1, ItFacts DEF Ahead
<1>11. Behind'
  <2>1. \A k \in Items \ {task.i} : ParkedIfRecorded(k)'
    BY <1>3, <1>7, <1>8, StillParked DEF OrigsKept, Goes
  <2>2. PICK j : j = task.i
    OBVIOUS
  <2>3. ParkedIfRecorded(j)'
    <3>1. task'.items[j] = it /\ j \in Items /\ (It.orig # NoFile => Parked(j)) /\ It = task.items[j]
      BY <1>1, <1>3, <1>8, <2>2, ItFacts
    <3> QED BY <1>5, <1>7, <1>8, <3>1 DEF ParkedIfRecorded, Parked, OrigsKept, Goes
  <2>4. \A k \in Items : ParkedIfRecorded(k)'
    BY <2>1, <2>2, <2>3
  <2> QED BY <1>7, <1>8, <2>4 DEF Behind
<1> QED BY <1>8, <1>9, <1>10, <1>11 DEF Inv, TaskInv

LEMMA VerifyInstalled ==
  ASSUME Inv, verify_installed
  PROVE  Inv'
PROOF
<1>1. /\ task.pc = "verify" /\ task.tool = "stage" /\ Running /\ spent' = spent /\ fs' = fs
  BY DEF verify_installed, Stage, At, Running
<1>2. owed' = owed \/ owed' = owed \ Superseded
  BY DEF verify_installed
<1>3. SameRun /\ spent'.ids = spent.ids
  BY <1>1, <1>2, NoneSpent DEF Inv, SameRun
<1>4. NoneRolled /\ \A k \in Items : ParkedIfRecorded(k)
  BY <1>1 DEF Inv, TaskInv, Rollbacks, Rolling, Taken, Behind
<1>5. PICK t : t = [task EXCEPT !.touched = Settled(It.name)]
  OBVIOUS
<1>6. /\ DOMAIN t = TaskFields /\ t.tool = task.tool /\ t.left = task.left /\ t.i = task.i
      /\ t.items = task.items
  BY <1>1, <1>5, ItFacts DEF TaskFields
<1>7. CASE AsVerified(It)
  <2>1. task' = Forward(t, "verify", "cleanup")
    BY <1>5, <1>7 DEF verify_installed
  <2>2. /\ Goes(task'.pc, task'.i) /\ KeepsItems /\ task'.i \in Items
        /\ \/ task'.pc = "verify" /\ task.i < Last /\ task'.i = task.i + 1
           \/ task'.pc = "cleanup" /\ task.i = Last /\ task'.i = 1
    BY <1>1, <1>6, <2>1, NextItemKept
  <2>3. /\ CardInv' /\ Shape' /\ ItemsOK' /\ Snapshots' /\ ParksNothing'
        /\ Last' = Last /\ Items' = Items
        /\ OrigsKept(Items) /\ RollsKept(Items) /\ NoneRolled' = NoneRolled
    BY <1>1, <1>3, <2>2, QuietStep
  <2>4. Rollbacks' /\ Ahead' /\ Temporaries'
    BY <1>4, <2>2, <2>3 DEF Rollbacks, Rolling, Taken, Ahead, Temporaries
  <2>5. Behind'
    <3>1. \A k \in Items : ParkedIfRecorded(k)'
      BY <1>4, <2>2, <2>3, StillParked DEF KeepsItems, Goes
    <3>2. \A k \in task'.i .. Last : k \in Items
      BY <1>1, <2>2, <2>3, ItFacts
    <3> QED BY <2>2, <2>3, <3>1, <3>2 DEF Behind
  <2>6. Committed'
    <3>1. task.i = Last => owed' = owed \ Superseded
      BY <1>7 DEF verify_installed
    <3>2. \A k \in Items : task.items[k].backup => fs[OrigOf(k)] \notin owed \ Superseded
      BY <1>4 DEF ParkedIfRecorded, Parked, Superseded, Items
    <3> QED BY <2>2, <2>3, <3>1, <3>2, CommitLetsGo
  <2> QED BY <2>3, <2>4, <2>5, <2>6 DEF Inv, TaskInv
<1>8. CASE ~AsVerified(It)
  <2>1. PICK j : j = Last
    OBVIOUS
  <2>2. Goes("rollback", j) /\ KeepsItems /\ j \in Items
    <3>1. task' = [t EXCEPT !.pc = "rollback", !.i = Last]
      BY <1>5, <1>8 DEF verify_installed
    <3> QED BY <1>1, <1>6, <2>1, <3>1, ItFacts DEF Goes, KeepsItems, TaskFields
  <2>3. CardInv' /\ OnlyAt({}) /\ NoNewFiles
    BY <1>1, <1>3, Stays
  <2>4. NoneParked => NoneParked'
    BY <1>1, <1>3 DEF NoneParked, SameRun
  <2> QED BY <1>1, <1>3, <1>4, <2>2, <2>3, <2>4, PassFails
<1> QED BY <1>7, <1>8

LEMMA CleanupOriginal ==
  ASSUME Inv, cleanup_original
  PROVE  Inv'
PROOF
<1>1. /\ task.pc = "cleanup" /\ task.tool = "stage" /\ Running /\ spent' = spent /\ owed' = owed
      /\ fs' = IF It.backup THEN Drop(fs, Hidden(It.name, "original")) ELSE fs
  BY DEF cleanup_original, Stage, At, Running
<1>2. SameRun /\ spent'.ids = spent.ids
  BY <1>1, NoneSpent DEF Inv, SameRun
<1>3. /\ NoneRolled /\ \A k \in task.i .. Last : ParkedIfRecorded(k)
      /\ \A k \in Items : MayGo(k)
  BY <1>1 DEF Inv, TaskInv, Rollbacks, Rolling, Taken, Behind, Committed
<1>4. /\ Goes(task'.pc, task'.i) /\ KeepsItems /\ task'.i \in Items
      /\ \/ task'.pc = "cleanup" /\ task.i < Last /\ task'.i = task.i + 1
         \/ task'.pc = "done"
  <2>1. PICK t : t = task
    OBVIOUS
  <2>2. PICK u : u = Forward(t, "cleanup", "done")
    OBVIOUS
  <2>3. PICK i, n : i = task.i /\ n = Last
    OBVIOUS
  <2>4. /\ DOMAIN u = TaskFields /\ u.tool = t.tool /\ u.left = t.left /\ u.items = t.items
        /\ \/ u.pc = "cleanup" /\ t.i < n /\ u.i = t.i + 1
           \/ u.pc = "done" /\ t.i = n /\ u.i = 1
    <3>1. DOMAIN t = TaskFields /\ n \in Nat /\ Len(t.items) = n /\ t.i \in 1 .. n
      BY <1>1, <2>1, <2>3, ItFacts DEF Last
    <3> QED BY <2>2, <3>1, ForwardFacts
  <2>5. task' = IF u.pc = "done" THEN [u EXCEPT !.result = "committed"] ELSE u
    BY <2>1, <2>2 DEF cleanup_original
  <2>6. /\ DOMAIN task' = TaskFields /\ task'.tool = u.tool /\ task'.left = u.left
        /\ task'.items = u.items /\ task'.pc = u.pc /\ task'.i = u.i
    BY <2>4, <2>5 DEF TaskFields
  <2> QED BY <1>1, <2>1, <2>3, <2>4, <2>6, ItFacts DEF Goes, KeepsItems
<1>5. /\ CardInv' /\ OnlyAt({Hidden(It.name, "original")}) /\ NoNewFiles
  <2>1. PICK name : name = Hidden(It.name, "original")
    OBVIOUS
  <2>2. CASE It.backup
    <3>1. Has(name) => fs[name] \notin owed
      BY <1>1, <1>3, <2>1, <2>2, ItFacts DEF MayGo
    <3> QED BY <1>1, <1>2, <2>1, <2>2, <3>1, Dropped
  <2>3. CASE ~It.backup
    <3>1. CardInv' /\ OnlyAt({}) /\ NoNewFiles
      BY <1>1, <1>2, <2>3, Stays
    <3> QED BY <3>1 DEF OnlyAt
  <2> QED BY <2>2, <2>3
<1>6. /\ Shape' /\ ItemsOK' /\ Last' = Last /\ Items' = Items /\ NamesKept
  BY <1>1, <1>2, <1>4, ItemsKept
<1>7. RollsKept(Items) /\ OrigsKept(Items \ {task.i}) /\ (NoneRolled => NoneRolled')
  <2>1. PICK S : S = {Hidden(It.name, "original")}
    OBVIOUS
  <2>2. \A m \in S : m[2] = "original" /\ m = OrigOf(task.i)
    BY <1>1, <2>1, ItFacts DEF Hidden
  <2> QED BY <1>1, <1>2, <1>5, <1>6, <2>1, <2>2, NamesUntouched DEF SameRun
<1>8. Snapshots' /\ ParksNothing'
  BY <1>1, <1>4, <1>5, <1>6, SnapshotsKept DEF Goes, KeepsItems, NoNewFiles, ParksNothing
<1>9. Rollbacks' /\ Ahead' /\ Temporaries'
  BY <1>3, <1>4, <1>7 DEF Rollbacks, Rolling, Taken, Ahead, Temporaries, Running
<1>10. Behind'
  <2>1. \A k \in task.i + 1 .. Last : ParkedIfRecorded(k)'
    <3>1. PICK K : K = task.i + 1 .. Last
      OBVIOUS
    <3>2. K \subseteq Items /\ K \subseteq Items \ {task.i} /\ \A k \in K : ParkedIfRecorded(k)
      BY <1>1, <1>3, <3>1, ItFacts
    <3>3. OrigsKept(K)
      BY <1>7, <3>2 DEF OrigsKept
    <3> QED BY <1>4, <3>1, <3>2, <3>3, StillParked DEF KeepsItems, Goes
  <2> QED BY <1>4, <1>6, <2>1 DEF Behind
<1>11. Committed'
  BY <1>1, <1>2, <1>3, <1>4, <1>6, <1>7, DropMayGo DEF Committed
<1> QED BY <1>5, <1>6, <1>8, <1>9, <1>10, <1>11 DEF Inv, TaskInv

LEMMA Unwind ==
  ASSUME Inv, unwind
  PROVE  Inv'
PROOF
<1>1. /\ task.pc = "unwind" /\ task.tool = "stage" /\ Running /\ spent' = spent /\ owed' = owed
      /\ fs' = IF It.temp # 0 /\ Has(Hidden(It.name, "temporary"))
               THEN Drop(fs, Hidden(It.name, "temporary")) ELSE fs
      /\ task' = With([It EXCEPT !.temp = 0], "rollback")
  BY DEF unwind, Stage, At, Running
<1>2. SameRun /\ spent'.ids = spent.ids
  BY <1>1, NoneSpent DEF Inv, SameRun
<1>3. NoneRolled
  BY <1>1 DEF Inv, TaskInv, Rollbacks, Rolling, Taken
<1>4. PICK it, j : it = [It EXCEPT !.temp = 0] /\ j = task.i
  OBVIOUS
<1>5. /\ DOMAIN it = ItemFields /\ it.name = It.name /\ it.payload = It.payload
      /\ it.orig = It.orig /\ it.temp = 0 /\ it.installed = It.installed /\ it.backup = It.backup
  BY <1>1, <1>4, ItFacts DEF ItemOK, ItemFields
<1>6. ItemOK(it)'
  BY <1>1, <1>2, <1>5, ItemStill
<1>7. Goes("rollback", j) /\ SetsItem(it)
  BY <1>1, <1>4, ItFacts DEF With, Goes, SetsItem, TaskFields
<1>8. /\ Shape' /\ ItemsOK' /\ Last' = Last /\ Items' = Items /\ NamesKept
      /\ task'.items[task.i] = it
      /\ \A k \in Items : k # task.i => task'.items[k] = task.items[k]
  <2>1. j \in Items
    BY <1>1, <1>4, ItFacts
  <2>2. it.name = It.name
    BY <1>5
  <2> HIDE <1>4, <1>5
  <2> QED BY <1>1, <1>2, <1>6, <1>7, <2>1, <2>2, ItemSet
<1>9. CardInv' /\ OnlyAt({Hidden(It.name, "temporary")}) /\ NoNewFiles
  <2>1. PICK name : name = Hidden(It.name, "temporary")
    OBVIOUS
  <2>2. CASE fs' = Drop(fs, name)
    <3>1. Has(name) => fs[name] \notin owed
      BY <2>1 DEF Inv, CardInv, TemporariesOwn, Hidden, Has
    <3> QED BY <1>1, <1>2, <2>1, <2>2, <3>1, Dropped
  <2>3. CASE fs' = fs
    <3>1. CardInv' /\ OnlyAt({}) /\ NoNewFiles
      BY <1>2, <2>3, Stays
    <3> QED BY <3>1 DEF OnlyAt
  <2> QED BY <1>1, <2>1, <2>2, <2>3
<1>10. RollsKept(Items) /\ (NoneParked => NoneParked')
  <2>1. PICK S : S = {Hidden(It.name, "temporary")}
    OBVIOUS
  <2>2. \A m \in S : m[2] = "temporary"
    BY <2>1 DEF Hidden
  <2> QED BY <1>1, <1>2, <1>8, <1>9, <2>1, <2>2, NamesUntouched DEF SameRun
<1>11. \A k \in 1 .. j : ~Has(RollOf(k))'
  BY <1>1, <1>3, <1>4, <1>10, UnusedNames, ItFacts DEF RollsKept
<1>12. \A k \in Items : /\ task'.items[k].orig = task.items[k].orig
                        /\ task'.items[k].backup => task.items[k].backup
  BY <1>5, <1>8 DEF It
<1> QED BY <1>2, <1>7, <1>8, <1>9, <1>10, <1>11, <1>12, GoesBack

-----------------------------------------------------------------------------
(* The staging tool turns back. *)

(* One step back through the items, in any of the three rollbacks. *)
LEMMA RollsBack ==
  ASSUME Inv, Running, SameRun, NEW pc \in Rolling,
         Goes(task'.pc, task'.i), KeepsItems, task'.i \in Items,
         \/ task'.pc = pc /\ task.i > 1 /\ task'.i = task.i - 1
         \/ task'.pc = "done",
         CardInv', NoNewFiles, NEW S, OnlyAt(S),
         \A m \in S : m[2] = "rollback" => m = RollOf(task.i),
         NoneParked => NoneParked',
         \A k \in 1 .. task.i - 1 : ~Has(RollOf(k))
  PROVE  Inv'
PROOF
<1>1. PICK p, j : p = task'.pc /\ j = task'.i
  OBVIOUS
<1>2. /\ Goes(p, j) /\ p \in {"unwind", "rollback", "undo", "remove", "done"}
      /\ j \in Items
  BY <1>1 DEF Rolling
<1>3. Shape' /\ ItemsOK' /\ Last' = Last /\ Items' = Items /\ NamesKept
  BY <1>2, ItemsKept
<1>4. RollsKept(Items \ {task.i})
  BY <1>3, NamesUntouched DEF SameRun
<1>5. p \in Rolling => \A k \in 1 .. j : ~Has(RollOf(k))'
  BY <1>1, <1>4, ItFacts DEF RollsKept, Rolling
<1>6. p # "unwind"
  BY <1>1 DEF Rolling
<1> QED BY <1>2, <1>3, <1>5, <1>6, GoesBack DEF KeepsItems

(* The published file is taken aside. *)
LEMMA TakesAside ==
  ASSUME Inv, Running, SameRun, spent'.ids = spent.ids, owed' = owed,
         task.pc \in Rolling, It.installed # 0,
         NEW p \in {"taken", "undotaken", "inspect"}, NEW j, j = task.i,
         Goes(p, j), KeepsItems,
         Has(Pub(It.name)), Renamed(Pub(It.name), Hidden(It.name, "rollback"))
  PROVE  Inv'
PROOF
<1>1. PICK from, to : from = Pub(It.name) /\ to = Hidden(It.name, "rollback")
  OBVIOUS
<1>2. \A k \in 1 .. task.i : ~Has(RollOf(k))
  BY DEF Inv, TaskInv, Rollbacks
<1>3. /\ from[2] = "public" /\ to[2] = "rollback" /\ to[3] = spent.runs
      /\ to = RollOf(task.i) /\ Has(from) /\ ~Has(to) /\ Renamed(from, to)
  BY <1>1, <1>2, ItFacts DEF Pub, Hidden
<1>4. fs[from].form # "partial"
  BY <1>3 DEF Inv, CardInv, OthersWhole, Has
<1>5. /\ CardInv' /\ OnlyAt({from, to}) /\ NoNewFiles
      /\ DOMAIN fs' = (DOMAIN fs \ {from}) \cup {to}
  BY <1>3, <1>4, Moved
<1>6. Shape' /\ ItemsOK' /\ Last' = Last /\ Items' = Items /\ NamesKept
  BY ItemsKept, ItFacts
<1>7. RollsKept(Items \ {task.i}) /\ (NoneParked => NoneParked')
  BY <1>3, <1>5, <1>6, NamesUntouched DEF SameRun
<1>8. Snapshots'
  BY <1>5, <1>6, SnapshotsKept DEF Goes, KeepsItems, NoNewFiles
<1>9. ParksNothing'
  BY <1>6, <1>7, ParksNothingKept DEF Goes, KeepsItems
<1>10. Rollbacks'
  <2>1. \A k \in 1 .. task.i - 1 : ~Has(RollOf(k))'
    BY <1>2, <1>7, ItFacts DEF RollsKept
  <2>2. RollOf(task.i)' = RollOf(task.i) /\ It' = It /\ task'.i = task.i
    BY DEF Goes, SameRun, KeepsItems, RollOf, Hidden, It
  <2>3. Has(RollOf(task.i))'
    BY <1>3, <1>5, <2>2 DEF Has
  <2> QED BY <2>1, <2>2, <2>3 DEF Goes, Rollbacks, Rolling, Taken
<1>11. Ahead' /\ Behind' /\ Temporaries' /\ Committed'
  BY TurnedBack DEF Goes, Backing
<1> QED BY <1>5, <1>6, <1>8, <1>9, <1>10, <1>11 DEF Inv, TaskInv

(* It is the installed file, and nothing touches it where it is held. *)
LEMMA HoldsAside ==
  ASSUME Inv, Running, SameRun, task.pc \in Taken,
         NEW p \in {"restore", "discard", "undorestore"}, NEW j, j = task.i,
         Goes(p, j), KeepsItems, CardInv', NoNewFiles, NEW S, OnlyAt(S),
         \A m \in S : m[2] \notin {"rollback"}, NoneParked => NoneParked',
         fs[RollOf(task.i)] = File(It.installed, It.payload)
  PROVE  Inv'
PROOF
<1>1. /\ \A k \in 1 .. task.i - 1 : ~Has(RollOf(k))
      /\ Has(RollOf(task.i)) /\ It.installed # 0
  BY DEF Inv, TaskInv, Rollbacks
<1>2. Shape' /\ ItemsOK' /\ Last' = Last /\ Items' = Items /\ NamesKept
  BY ItemsKept, ItFacts
<1>3. RollsKept(Items)
  BY <1>2, NamesUntouched DEF SameRun
<1>4. Snapshots'
  BY <1>2, SnapshotsKept DEF Goes, KeepsItems, NoNewFiles
<1>5. ParksNothing'
  BY <1>2, ParksNothingKept DEF Goes, KeepsItems
<1>6. Rollbacks'
  <2>1. \A k \in 1 .. task.i - 1 : ~Has(RollOf(k))'
    BY <1>1, <1>3, ItFacts DEF RollsKept
  <2>2. RollOf(task.i)' = RollOf(task.i) /\ It' = It /\ task'.i = task.i
    BY DEF Goes, SameRun, KeepsItems, RollOf, Hidden, It
  <2>3. Has(RollOf(task.i))' /\ fs'[RollOf(task.i)] = File(It.installed, It.payload)
    <3>1. task.i \in Items
      BY ItFacts
    <3>2. Has(RollOf(j))' /\ fs[RollOf(j)]' = fs[RollOf(j)] /\ RollOf(j)' = RollOf(j)
      BY <1>1, <1>3, <2>2, <3>1 DEF RollsKept
    <3> QED BY <2>2, <3>2
  <2>4. File(It.installed, It.payload)' = File(It.installed, It.payload)
    BY <2>2 DEF File
  <2> QED BY <1>1, <2>1, <2>2, <2>3, <2>4 DEF Goes, Rollbacks, Rolling, Taken
<1>7. Ahead' /\ Behind' /\ Temporaries' /\ Committed'
  BY TurnedBack DEF Goes, Backing
<1> QED BY <1>2, <1>4, <1>5, <1>6, <1>7 DEF Inv, TaskInv

LEMMA RollbackUnpublished ==
  ASSUME Inv, rollback_unpublished
  PROVE  Inv'
PROOF
<1>1. /\ task.pc = "rollback" /\ task.tool = "stage" /\ Running /\ spent' = spent /\ owed' = owed
      /\ fs' = fs
  BY DEF rollback_unpublished, Stage, At, Running
<1>2. SameRun /\ spent'.ids = spent.ids
  BY <1>1, NoneSpent DEF Inv, SameRun
<1>3. PICK t : /\ DOMAIN t = TaskFields /\ t.tool = task.tool /\ t.left = task.left
               /\ t.i = task.i /\ t.items = task.items /\ task' = Backward(t, "rollback")
  BY <1>1, ItFacts DEF rollback_unpublished, Conflict, TaskFields
<1>4. /\ Goes(task'.pc, task'.i) /\ KeepsItems /\ task'.i \in Items
      /\ \/ task'.pc = "rollback" /\ task.i > 1 /\ task'.i = task.i - 1
         \/ task'.pc = "done"
  BY <1>1, <1>3, PreviousItem
<1>5. CardInv' /\ OnlyAt({}) /\ NoNewFiles
  BY <1>1, <1>2, Stays
<1>6. \A k \in 1 .. task.i - 1 : ~Has(RollOf(k))
  BY <1>1, ItFacts DEF Inv, TaskInv, Rollbacks, Rolling
<1>7. NoneParked => NoneParked'
  BY <1>1, <1>2 DEF NoneParked, SameRun
<1> QED BY <1>1, <1>2, <1>4, <1>5, <1>6, <1>7, RollsBack DEF Rolling

LEMMA RollbackTake ==
  ASSUME Inv, rollback_take
  PROVE  Inv'
PROOF
<1>1. /\ task.pc = "rollback" /\ task.tool = "stage" /\ Running /\ spent' = spent /\ owed' = owed
      /\ It.installed # 0
  BY DEF rollback_take, Stage, At, Running
<1>2. SameRun /\ spent'.ids = spent.ids
  BY <1>1, NoneSpent DEF Inv, SameRun
<1>3. CASE Has(Pub(It.name))
  <2>1. PICK j : j = task.i
    OBVIOUS
  <2>2. /\ Goes("taken", j) /\ KeepsItems
        /\ Renamed(Pub(It.name), Hidden(It.name, "rollback"))
    BY <1>1, <1>3, <2>1, ItFacts DEF rollback_take, To, Goes, KeepsItems, TaskFields
  <2> QED BY <1>1, <1>2, <1>3, <2>1, <2>2, TakesAside DEF Rolling
<1>4. CASE ~Has(Pub(It.name))
  <2>1. fs' = fs
    BY <1>4 DEF rollback_take
  <2>2. PICK t : /\ DOMAIN t = TaskFields /\ t.tool = task.tool /\ t.left = task.left
                 /\ t.i = task.i /\ t.items = task.items /\ task' = Backward(t, "rollback")
    BY <1>1, <1>4, ItFacts DEF rollback_take, Conflict, TaskFields
  <2>3. /\ Goes(task'.pc, task'.i) /\ KeepsItems /\ task'.i \in Items
        /\ \/ task'.pc = "rollback" /\ task.i > 1 /\ task'.i = task.i - 1
           \/ task'.pc = "done"
    BY <1>1, <2>2, PreviousItem
  <2>4. CardInv' /\ OnlyAt({}) /\ NoNewFiles
    BY <1>1, <1>2, <2>1, Stays
  <2>5. \A k \in 1 .. task.i - 1 : ~Has(RollOf(k))
    BY <1>1, ItFacts DEF Inv, TaskInv, Rollbacks, Rolling
  <2>6. NoneParked => NoneParked'
    BY <1>2, <2>1 DEF NoneParked, SameRun
  <2> QED BY <1>1, <1>2, <2>3, <2>4, <2>5, <2>6, RollsBack DEF Rolling
<1> QED BY <1>3, <1>4

(* The pass goes on, having changed nothing at other items' rollback names. *)
LEMMA GoesOnBack ==
  ASSUME Inv, Running, SameRun, owed' = owed, task.pc \in Rolling \cup Taken, NEW pc \in Rolling,
         NEW t, DOMAIN t = TaskFields, t.tool = task.tool, t.left = task.left,
         t.i = task.i, t.items = task.items, task' = Backward(t, pc),
         CardInv', NoNewFiles, NEW S, OnlyAt(S),
         \A m \in S : m[2] = "rollback" => m = RollOf(task.i), NoneParked => NoneParked'
  PROVE  Inv'
PROOF
<1>1. /\ Goes(task'.pc, task'.i) /\ KeepsItems /\ task'.i \in Items
      /\ \/ task'.pc = pc /\ task.i > 1 /\ task'.i = task.i - 1
         \/ task'.pc = "done"
  BY PreviousItem
<1>2. \A k \in 1 .. task.i - 1 : ~Has(RollOf(k))
  BY ItFacts DEF Inv, TaskInv, Rollbacks, Rolling, Taken
<1> QED BY <1>1, <1>2, RollsBack

(* Reporting a conflict: the files stay where they are. *)
LEMMA GivesUp ==
  ASSUME Inv, Running, SameRun, owed' = owed, spent'.ids = spent.ids, fs' = fs,
         task.pc \in Rolling \cup Taken, NEW pc \in Rolling,
         NEW t, DOMAIN t = TaskFields, t.tool = task.tool, t.left = task.left,
         t.i = task.i, t.items = task.items, task' = Backward(t, pc)
  PROVE  Inv'
PROOF
<1>1. CardInv' /\ OnlyAt({}) /\ NoNewFiles
  BY Stays
<1>2. NoneParked => NoneParked'
  BY DEF NoneParked, SameRun
<1> QED BY <1>1, <1>2, GoesOnBack

LEMMA ConflictFacts ==
  ASSUME Inv, Running, task' = Conflict
  PROVE  \E t : /\ DOMAIN t = TaskFields /\ t.tool = task.tool /\ t.left = task.left
                /\ t.i = task.i /\ t.items = task.items /\ task' = Backward(t, "rollback")
PROOF BY ItFacts DEF Conflict, TaskFields

LEMMA RollbackCheck ==
  ASSUME Inv, rollback_check
  PROVE  Inv'
PROOF
<1>1. /\ task.pc = "taken" /\ task.tool = "stage" /\ Running /\ spent' = spent /\ owed' = owed
  BY DEF rollback_check, Stage, At, Running
<1>2. SameRun /\ spent'.ids = spent.ids
  BY <1>1, NoneSpent DEF Inv, SameRun
<1>3. PICK j : j = task.i
  OBVIOUS
<1>4. CASE fs[Hidden(It.name, "rollback")] = File(It.installed, It.payload)
  <2>1. Goes("restore", j) /\ KeepsItems /\ fs' = fs
    BY <1>1, <1>3, <1>4, ItFacts DEF rollback_check, To, Goes, KeepsItems, TaskFields
  <2>2. CardInv' /\ OnlyAt({}) /\ NoNewFiles
    BY <1>2, <2>1, Stays
  <2>3. NoneParked => NoneParked'
    BY <1>2, <2>1 DEF NoneParked, SameRun
  <2>4. fs[RollOf(task.i)] = File(It.installed, It.payload)
    BY <1>1, <1>4, ItFacts
  <2> QED BY <1>1, <1>2, <1>3, <2>1, <2>2, <2>3, <2>4, HoldsAside DEF Taken
<1>5. CASE fs[Hidden(It.name, "rollback")] # File(It.installed, It.payload)
  <2>1. task' = Conflict /\ RestoredOr("rollback")
    BY <1>5 DEF rollback_check
  <2>2. PICK t : /\ DOMAIN t = TaskFields /\ t.tool = task.tool /\ t.left = task.left
                 /\ t.i = task.i /\ t.items = task.items /\ task' = Backward(t, "rollback")
    BY <1>1, <2>1, ConflictFacts
  <2>3. CardInv' /\ OnlyAt({Hidden(It.name, "rollback"), Pub(It.name)}) /\ NoNewFiles
    BY <1>1, <1>2, <2>1, Returned
  <2>4. PICK S : S = {Hidden(It.name, "rollback"), Pub(It.name)}
    OBVIOUS
  <2>5. \A m \in S : m[2] # "original" /\ (m[2] = "rollback" => m = RollOf(task.i))
    BY <1>1, <2>4, ItFacts DEF Hidden, Pub
  <2>6. NoneParked => NoneParked'
    BY <1>2, <2>3, <2>4, <2>5 DEF NoneParked, SameRun, OnlyAt
  <2> QED BY <1>1, <1>2, <2>2, <2>3, <2>4, <2>5, <2>6, GoesOnBack DEF Rolling, Taken
<1> QED BY <1>4, <1>5

LEMMA RollbackRestore ==
  ASSUME Inv, rollback_restore
  PROVE  Inv'
PROOF
<1>1. /\ task.pc = "restore" /\ task.tool = "stage" /\ Running /\ spent' = spent /\ owed' = owed
  BY DEF rollback_restore, Stage, At, Running
<1>2. SameRun /\ spent'.ids = spent.ids
  BY <1>1, NoneSpent DEF Inv, SameRun
<1>3. PICK j : j = task.i
  OBVIOUS
<1>4. fs[RollOf(task.i)] = File(It.installed, It.payload)
  BY <1>1 DEF Inv, TaskInv, Rollbacks
<1>5. CASE It.orig = NoFile
  <2>1. Goes("discard", j) /\ KeepsItems /\ fs' = fs
    BY <1>1, <1>3, <1>5, ItFacts DEF rollback_restore, To, Goes, KeepsItems, TaskFields
  <2>2. CardInv' /\ OnlyAt({}) /\ NoNewFiles
    BY <1>2, <2>1, Stays
  <2>3. NoneParked => NoneParked'
    BY <1>2, <2>1 DEF NoneParked, SameRun
  <2> QED BY <1>1, <1>2, <1>3, <1>4, <2>1, <2>2, <2>3, HoldsAside DEF Taken
<1>6. CASE It.orig # NoFile /\ It.backup /\ CanRename(Hidden(It.name, "original"), Pub(It.name))
  <2>1. Goes("discard", j) /\ KeepsItems /\ Renamed(Hidden(It.name, "original"), Pub(It.name))
    BY <1>1, <1>3, <1>6, ItFacts DEF rollback_restore, To, Goes, KeepsItems, TaskFields
  <2>2. RestoredOr("original")
    BY <1>6, <2>1 DEF RestoredOr
  <2>3. CardInv' /\ OnlyAt({Hidden(It.name, "original"), Pub(It.name)}) /\ NoNewFiles
    BY <1>1, <1>2, <2>2, Returned
  <2>4. PICK S : S = {Hidden(It.name, "original"), Pub(It.name)}
    OBVIOUS
  <2>5. \A m \in S : m[2] \notin {"rollback"}
    BY <2>4 DEF Hidden, Pub
  <2>6. ~NoneParked
    BY <1>6 DEF CanRename, NoneParked, Hidden, Has
  <2> QED BY <1>1, <1>2, <1>3, <1>4, <2>1, <2>3, <2>4, <2>5, <2>6, HoldsAside DEF Taken
<1>7. CASE It.orig # NoFile /\ ~(It.backup /\ CanRename(Hidden(It.name, "original"), Pub(It.name)))
  <2>1. task' = Conflict /\ fs' = fs
    BY <1>7 DEF rollback_restore
  <2>2. PICK t : /\ DOMAIN t = TaskFields /\ t.tool = task.tool /\ t.left = task.left
                 /\ t.i = task.i /\ t.items = task.items /\ task' = Backward(t, "rollback")
    BY <1>1, <2>1, ConflictFacts
  <2> QED BY <1>1, <1>2, <2>1, <2>2, GivesUp DEF Rolling, Taken
<1> QED BY <1>5, <1>6, <1>7

LEMMA RollbackDiscard ==
  ASSUME Inv, rollback_discard
  PROVE  Inv'
PROOF
<1>1. /\ task.pc = "discard" /\ task.tool = "stage" /\ Running /\ spent' = spent /\ owed' = owed
      /\ fs' = Drop(fs, Hidden(It.name, "rollback"))
  BY DEF rollback_discard, Stage, At, Running
<1>2. SameRun /\ spent'.ids = spent.ids
  BY <1>1, NoneSpent DEF Inv, SameRun
<1>3. PICK name : name = Hidden(It.name, "rollback")
  OBVIOUS
<1>4. name[2] = "rollback" /\ name = RollOf(task.i) /\ fs[name] \notin owed
  BY <1>1, <1>3, ItFacts DEF Inv, TaskInv, Rollbacks, Taken, ItemOK, Hidden
<1>5. CardInv' /\ OnlyAt({name}) /\ NoNewFiles
  BY <1>1, <1>2, <1>3, <1>4, Dropped
<1>6. PICK t : /\ DOMAIN t = TaskFields /\ t.tool = task.tool /\ t.left = task.left
               /\ t.i = task.i /\ t.items = task.items /\ task' = Backward(t, "rollback")
  BY <1>1, ItFacts DEF rollback_discard, Conflict, TaskFields
<1>7. NoneParked => NoneParked'
  BY <1>2, <1>4, <1>5 DEF NoneParked, SameRun, OnlyAt
<1>8. \A m \in {name} : m[2] = "rollback" => m = RollOf(task.i)
  BY <1>4
<1> QED BY <1>1, <1>2, <1>5, <1>6, <1>7, <1>8, GoesOnBack DEF Rolling, Taken

LEMMA RollbackIoError ==
  ASSUME Inv, rollback_io_error
  PROVE  Inv'
PROOF
<1>1. /\ task.pc \in {"rollback", "taken", "restore", "discard"} /\ task.tool = "stage"
      /\ Running /\ owed' = owed /\ fs' = fs /\ Fault /\ task' = Conflict
  BY DEF rollback_io_error, Running
<1>2. SameRun /\ spent'.ids = spent.ids
  BY <1>1, FaultSpent DEF Inv, SameRun
<1>3. PICK t : /\ DOMAIN t = TaskFields /\ t.tool = task.tool /\ t.left = task.left
               /\ t.i = task.i /\ t.items = task.items /\ task' = Backward(t, "rollback")
  BY <1>1, ConflictFacts
<1> QED BY <1>1, <1>2, <1>3, GivesUp DEF Rolling, Taken

(* A forward pass is broken off; the card stays, or an original returns. *)
LEMMA BreaksOff ==
  ASSUME Inv, Running, SameRun, owed' = owed, spent'.ids = spent.ids, NoneRolled,
         NEW p \in {"unwind", "rollback", "undo", "remove", "done"}, NEW j, j \in Items,
         Goes(p, j), KeepsItems, fs' = fs \/ RestoredOr("original")
  PROVE  Inv'
PROOF
<1>1. CASE fs' = fs
  <2>1. CardInv' /\ OnlyAt({}) /\ NoNewFiles
    BY <1>1, Stays
  <2>2. NoneParked => NoneParked'
    BY <1>1 DEF NoneParked, SameRun
  <2> QED BY <2>1, <2>2, PassFails
<1>2. CASE fs' # fs /\ RestoredOr("original")
  <2>1. /\ CardInv' /\ OnlyAt({Hidden(It.name, "original"), Pub(It.name)}) /\ NoNewFiles
        /\ Has(Hidden(It.name, "original"))
    BY <1>2, Returned
  <2>2. PICK S : S = {Hidden(It.name, "original"), Pub(It.name)}
    OBVIOUS
  <2>3. \A m \in S : m[2] \notin {"rollback"}
    BY <2>2 DEF Hidden, Pub
  <2>4. ~NoneParked
    BY <2>1 DEF NoneParked, Hidden, Has
  <2> QED BY <2>1, <2>2, <2>3, <2>4, PassFails
<1> QED BY <1>1, <1>2

(* A failed cleanup is reported and the next one tried. *)
LEMMA SkipsCleanup ==
  ASSUME Inv, Running, SameRun, owed' = owed, spent'.ids = spent.ids, fs' = fs,
         task.pc \in {"cleanup", "purge"},
         Goes(task'.pc, task'.i), KeepsItems, task'.i \in Items,
         \/ task'.pc = task.pc /\ task.i < Last /\ task'.i = task.i + 1
         \/ task'.pc = "done"
  PROVE  Inv'
PROOF
<1>1. PICK p, j : p = task'.pc /\ j = task'.i
  OBVIOUS
<1>2. Goes(p, j) /\ (p \notin {"idle", "done"} => j \in Items)
      /\ p \notin {"forced", "parkpair", "compare"}
  BY <1>1
<1>3. /\ CardInv' /\ Shape' /\ ItemsOK' /\ Snapshots' /\ ParksNothing'
      /\ Last' = Last /\ Items' = Items /\ OrigsKept(Items) /\ NoneRolled' = NoneRolled
  BY <1>2, QuietStep
<1>4. /\ NoneRolled /\ \A k \in task.i .. Last : ParkedIfRecorded(k)
      /\ \A k \in Items : MayGo(k)
  BY DEF Inv, TaskInv, Rollbacks, Rolling, Taken, Behind, Committed
<1>5. Rollbacks' /\ Ahead' /\ Temporaries'
  BY <1>3, <1>4 DEF Rollbacks, Rolling, Taken, Ahead, Temporaries, Running
<1>6. Behind'
  <2>1. PICK K : K = task.i .. Last
    OBVIOUS
  <2>2. K \subseteq Items /\ \A k \in K : ParkedIfRecorded(k)
    BY <1>4, <2>1, ItFacts
  <2>3. OrigsKept(K)
    BY <1>3, <2>2 DEF OrigsKept
  <2>4. \A k \in K : ParkedIfRecorded(k)'
    BY <2>2, <2>3, StillParked DEF KeepsItems, Goes
  <2>5. task'.pc # "done" => \A k \in task'.i .. Last : k \in K
    BY <2>1, ItFacts
  <2> QED BY <1>3, <2>4, <2>5 DEF Behind
<1>7. Committed'
  BY <1>3, <1>4, StillMayGo DEF Committed, SameRun
<1> QED BY <1>3, <1>5, <1>6, <1>7 DEF Inv, TaskInv

LEMMA StagingIoError ==
  ASSUME Inv, staging_io_error
  PROVE  Inv'
PROOF
<1>1. task.tool = "stage" /\ owed' = owed /\ Fault
  BY DEF staging_io_error
<1>2. SameRun /\ spent'.ids = spent.ids
  BY <1>1, FaultSpent DEF Inv, SameRun
<1>3. PICK j : j = task.i
  OBVIOUS
<1>4. CASE task.pc = "snapshot" /\ task' = [task EXCEPT !.pc = "done", !.result = "failed"] /\ fs' = fs
  <2>1. Running /\ NoneRolled
    BY <1>4 DEF Running, Inv, TaskInv, Rollbacks, Rolling, Taken
  <2>2. Goes("done", j) /\ KeepsItems /\ j \in Items
    BY <1>3, <1>4, <2>1, ItFacts DEF Goes, KeepsItems, TaskFields
  <2> QED BY <1>1, <1>2, <1>4, <2>1, <2>2, BreaksOff
<1>5. CASE /\ task.pc \in {"write", "fill", "park", "check", "publish"}
           /\ task' = To("unwind") /\ (fs' = fs \/ RestoredOr("original"))
  <2>1. Running /\ NoneRolled
    BY <1>5 DEF Running, Inv, TaskInv, Rollbacks, Rolling, Taken
  <2>2. Goes("unwind", j) /\ KeepsItems /\ j \in Items
    BY <1>3, <1>5, <2>1, ItFacts DEF To, Goes, KeepsItems, TaskFields
  <2> QED BY <1>1, <1>2, <1>5, <2>1, <2>2, BreaksOff
<1>6. CASE task.pc = "record" /\ task' = With(Recorded, "unwind") /\ fs' = fs
  <2>1. Running /\ NoneRolled
    BY <1>6 DEF Running, Inv, TaskInv, Rollbacks, Rolling, Taken
  <2>2. PICK it : it = Recorded
    OBVIOUS
  <2>3. /\ DOMAIN it = ItemFields /\ it.name = It.name /\ it.payload = It.payload
        /\ it.orig = It.orig /\ it.temp = 0 /\ it.installed = It.temp
    BY <2>1, <2>2, ItFacts DEF Recorded, ItemOK, ItemFields
  <2>4. ItemOK(it)'
    BY <1>2, <2>1, <2>3, ItemStill
  <2>5. Goes("unwind", j) /\ SetsItem(it) /\ j \in Items
    BY <1>3, <1>6, <2>1, <2>2, ItFacts DEF With, Goes, SetsItem, TaskFields
  <2>6. /\ CardInv' /\ Shape' /\ ItemsOK' /\ Last' = Last /\ Items' = Items
        /\ NoneParked' = NoneParked /\ NoneRolled' = NoneRolled
        /\ task'.items[task.i] = it
        /\ \A k \in Items : k # task.i => task'.items[k] = task.items[k]
    <3>1. it.name = It.name
      BY <2>3
    <3>2. fs' = fs
      BY <1>6
    <3>3. PICK p : p = "unwind"
      OBVIOUS
    <3>4. Goes(p, j)
      BY <2>5, <3>3
    <3> HIDE <2>2, <2>3, <3>3
    <3> QED BY <1>2, <2>1, <2>4, <2>5, <3>1, <3>2, <3>4, QuietSet
  <2>7. \A k \in Items : task'.items[k].orig = task.items[k].orig
    BY <2>3, <2>6 DEF It
  <2>8. NoNewFiles
    BY <1>2, <1>6, Stays
  <2> QED BY <1>1, <1>2, <2>1, <2>5, <2>6, <2>7, <2>8, GoesBack DEF Rolling
<1>7. CASE task.pc = "verify" /\ task' = [task EXCEPT !.pc = "rollback", !.i = Last] /\ fs' = fs
  <2>1. Running /\ NoneRolled
    BY <1>7 DEF Running, Inv, TaskInv, Rollbacks, Rolling, Taken
  <2>2. PICK n : n = Last
    OBVIOUS
  <2>3. Goes("rollback", n) /\ KeepsItems /\ n \in Items
    BY <1>7, <2>1, <2>2, ItFacts DEF Goes, KeepsItems, TaskFields
  <2> QED BY <1>1, <1>2, <1>7, <2>1, <2>3, BreaksOff
<1>8. CASE /\ task.pc = "cleanup" /\ fs' = fs
           /\ task' = LET t == Forward([task EXCEPT !.report = Report(It.name)], "cleanup", "done")
                      IN  IF t.pc = "done" THEN [t EXCEPT !.result = "committed"] ELSE t
  <2>1. Running
    BY <1>8 DEF Running
  <2>2. PICK t, i, n : /\ t = [task EXCEPT !.report = Report(It.name)]
                       /\ i = task.i /\ n = Last
    OBVIOUS
  <2>3. /\ DOMAIN t = TaskFields /\ t.tool = task.tool /\ t.left = task.left /\ t.i = task.i
        /\ t.items = task.items /\ n \in Nat /\ Len(t.items) = n /\ t.i \in 1 .. n
    BY <2>1, <2>2, ItFacts DEF TaskFields, Last
  <2>4. PICK u : u = Forward(t, "cleanup", "done")
    OBVIOUS
  <2>5. /\ DOMAIN u = TaskFields /\ u.tool = t.tool /\ u.left = t.left /\ u.items = t.items
        /\ \/ u.pc = "cleanup" /\ t.i < n /\ u.i = t.i + 1
           \/ u.pc = "done" /\ t.i = n /\ u.i = 1
    BY <2>3, <2>4, ForwardFacts
  <2>6. task' = IF u.pc = "done" THEN [u EXCEPT !.result = "committed"] ELSE u
    BY <1>8, <2>2, <2>4
  <2>7. /\ DOMAIN task' = TaskFields /\ task'.tool = u.tool /\ task'.left = u.left
        /\ task'.items = u.items /\ task'.pc = u.pc /\ task'.i = u.i
    BY <2>5, <2>6 DEF TaskFields
  <2>8. /\ Goes(task'.pc, task'.i) /\ KeepsItems /\ task'.i \in Items
        /\ \/ task'.pc = task.pc /\ task.i < Last /\ task'.i = task.i + 1
           \/ task'.pc = "done"
    BY <1>8, <2>1, <2>2, <2>3, <2>5, <2>7, ItFacts DEF Goes, KeepsItems
  <2> QED BY <1>1, <1>2, <1>8, <2>1, <2>8, SkipsCleanup
<1> QED BY <1>4, <1>5, <1>6, <1>7, <1>8 DEF staging_io_error

LEMMA StagingInterrupt ==
  ASSUME Inv, staging_interrupt
  PROVE  Inv'
PROOF
<1>1. /\ task.tool = "stage" /\ owed' = owed /\ fs' = fs /\ Fault
      /\ task.pc \in {"write", "fill", "park", "check", "publish", "record", "verify"}
  BY DEF staging_interrupt
<1>2. SameRun /\ spent'.ids = spent.ids
  BY <1>1, FaultSpent DEF Inv, SameRun
<1>3. Running /\ NoneRolled
  BY <1>1 DEF Running, Inv, TaskInv, Rollbacks, Rolling, Taken
<1>4. PICK p, j : /\ p = IF task.pc = "verify" THEN "rollback" ELSE "unwind"
                  /\ j = IF task.pc = "verify" THEN Last ELSE task.i
  OBVIOUS
<1>5. task' = [task EXCEPT !.hurt = TRUE, !.pc = p, !.i = j]
  BY <1>4 DEF staging_interrupt
<1>6. Goes(p, j) /\ KeepsItems /\ j \in Items /\ p \in {"unwind", "rollback"}
  BY <1>3, <1>4, <1>5, ItFacts DEF Goes, KeepsItems, TaskFields
<1> QED BY <1>1, <1>2, <1>3, <1>6, BreaksOff

-----------------------------------------------------------------------------
(* A command begins: its hidden names are new, and it knows nothing yet. *)

Begun == {"snapshot", "prepare", "forced", "replan", "create"}
Payload(data) == data \in Datas /\ data.form # "partial" /\ Dated(data)
Listed(items, n, name, payload) ==
  /\ n \in Nat \ {0} /\ DOMAIN items = 1 .. n /\ items = [k \in 1 .. n |-> items[k]]
  /\ \A k \in 1 .. n : items[k] = Item(name[k], payload[k]) /\ Payload(payload[k])
  /\ \A j, k \in 1 .. n : name[j] = name[k] => j = k
FreshList(items) == \E n, name, payload : Listed(items, n, name, payload)

LEMMA FreshItems ==
  ASSUME Inv, CardInv', NoneParked', NoneRolled', spent'.ids = spent.ids,
         DOMAIN task' = TaskFields, task'.i = 1, task'.pc \in Begun,
         NEW items, task'.items = items, FreshList(items),
         task'.tool = "preset" /\ task'.left # <<>> => task'.pc # "forced"
  PROVE  Inv'
PROOF
<1>0. PICK n, name, payload :
        /\ n \in Nat \ {0} /\ DOMAIN items = 1 .. n /\ items = [k \in 1 .. n |-> items[k]]
        /\ \A k \in 1 .. n : items[k] = Item(name[k], payload[k]) /\ Payload(payload[k])
        /\ \A j, k \in 1 .. n : name[j] = name[k] => j = k
  BY DEF FreshList, Listed
<1>1. spent.ids \in Nat
  BY DEF Inv, CardInv
<1>4. Last' = n /\ Items' = 1 .. n
  <2>1. n \in Nat /\ DOMAIN items = 1 .. n /\ items = [k \in 1 .. n |-> items[k]]
    BY <1>0
  <2>2. Len(items) = n
    BY <2>1, LengthOf
  <2> QED BY <2>2 DEF Last, Items
<1>5. \A k \in 1 .. n : /\ DOMAIN items[k] = ItemFields /\ items[k].name = name[k]
                        /\ items[k].payload = payload[k] /\ items[k].orig = NoFile
                        /\ items[k].temp = 0 /\ items[k].installed = 0 /\ ~items[k].backup
  BY <1>0 DEF Item, ItemFields
<1>6. Shape'
  BY <1>0, <1>4, <1>5 DEF Shape
<1>7. ItemsOK'
  <2> SUFFICES ASSUME NEW k \in 1 .. n
               PROVE  ItemOK(items[k])'
    BY <1>4 DEF ItemsOK
  <2>1. NoFile \in Files /\ Made(NoFile)' /\ NoFile.form # "partial"
    BY <1>1 DEF NoFile, Files, Makers, Forms, Made, Dated
  <2>2. Payload(payload[k]) /\ Dated(payload[k])'
    BY <1>0 DEF Payload, Dated
  <2> QED BY <1>1, <1>5, <2>1, <2>2 DEF ItemOK, Payload
<1>9. Snapshots'
  BY <1>4, <1>5 DEF CardInv, FilesKnown, Snapshots, NoFile
<1>10. Rollbacks'
  BY DEF Begun, Rollbacks, Rolling, Taken
<1>11. Ahead'
  BY DEF Begun, Ahead
<1>12. Behind'
  BY <1>4, <1>5 DEF Begun, Behind, ParkedIfRecorded
<1>13. Temporaries' /\ Committed'
  BY DEF Begun, Temporaries, Committed
<1>14. ParksNothing'
  <2>1. NoFile' = NoFile
    BY DEF NoFile
  <2> QED BY <1>4, <1>5, <2>1 DEF Begun, ParksNothing
<1> QED BY <1>6, <1>7, <1>9, <1>10, <1>11, <1>12, <1>13, <1>14 DEF Inv, TaskInv

LEMMA Begins ==
  ASSUME Inv, NEW tool, NEW pc, NEW items, NEW left, Starts(tool, pc, items, left),
         pc \in Begun, FreshList(items),
         tool = "preset" /\ left # <<>> => pc # "forced"
  PROVE  Inv'
PROOF
<1>1. /\ spent' \in [ids : Nat, foreign : Nat, faults : Nat, runs : Nat]
      /\ spent'.ids = spent.ids /\ spent'.runs = spent.runs + 1
      /\ spent.ids \in Nat /\ spent.runs \in Nat /\ fs' = fs /\ owed' = owed
  <2>1. spent \in [ids : Nat, foreign : Nat, faults : Nat, runs : Nat]
    BY DEF Inv, CardInv
  <2> QED BY <2>1 DEF Starts, Count
<1>2. CardInv'
  BY <1>1, CardKept DEF Inv
<1>3. /\ DOMAIN task' = TaskFields /\ task'.tool = tool /\ task'.pc = pc /\ task'.i = 1
      /\ task'.items = items /\ task'.left = left
  BY DEF Starts, Idle, TaskFields
<1>4. NoneParked' /\ NoneRolled'
  <2>1. \A m \in DOMAIN fs : m[2] # "public" => m[3] # spent.runs + 1
    BY <1>1 DEF Inv, CardInv, HiddenByRun
  <2> QED BY <1>1, <2>1 DEF NoneParked, NoneRolled
<1>5. /\ DOMAIN task' = TaskFields /\ task'.i = 1 /\ task'.items = items
      /\ spent'.ids = spent.ids
  BY <1>1, <1>3
<1>6. task'.pc \in Begun
  BY <1>3
<1>7. task'.tool = "preset" /\ task'.left # <<>> => task'.pc # "forced"
  BY <1>3
<1> HIDE <1>1, <1>3
<1> QED BY <1>2, <1>4, <1>5, <1>6, <1>7, FreshItems

LEMMA PlanStaging ==
  ASSUME Inv, NEW r \in 1 .. 2, plan_staging(r)
  PROVE  Inv'
PROOF
<1>1. PICK n : n = Len(Managed)
  OBVIOUS
<1>2. n \in Nat \ {0} /\ DOMAIN Managed = 1 .. n
      /\ \A j, k \in 1 .. n : Managed[j] = Managed[k] => j = k
  BY <1>1, PackageFiles
<1>3. PICK items : items = [k \in 1 .. n |-> Item(Managed[k], Release(r))]
  OBVIOUS
<1>4. PICK payload : payload = [k \in 1 .. n |-> Release(r)]
  OBVIOUS
<1>5. PICK tool, pc, left : tool = "stage" /\ pc = "snapshot" /\ left = <<>>
  OBVIOUS
<1>9. Starts(tool, pc, items, left)
  BY <1>1, <1>3, <1>5 DEF plan_staging
<1>10. /\ pc \in Begun
       /\ tool = "preset" /\ left # <<>> => pc # "forced"
  BY <1>5 DEF Begun
<1>6. Payload(Release(r))
  BY DEF Payload, Release, Data, Datas, Makers, Forms, Dated
<1>7. \A k \in 1 .. n : items[k] = Item(Managed[k], payload[k]) /\ Payload(payload[k])
  BY <1>3, <1>4, <1>6
<1>8. DOMAIN items = 1 .. n /\ items = [k \in 1 .. n |-> items[k]]
  BY <1>3
<1>11. FreshList(items)
  <2>1. PICK name : name = Managed
    OBVIOUS
  <2>2. \A k \in 1 .. n : items[k] = Item(name[k], payload[k]) /\ Payload(payload[k])
    BY <1>7, <2>1
  <2>3. \A j, k \in 1 .. n : name[j] = name[k] => j = k
    BY <1>2, <2>1
  <2>4. n \in Nat \ {0} /\ DOMAIN items = 1 .. n /\ items = [k \in 1 .. n |-> items[k]]
    BY <1>2, <1>8
  <2> HIDE <1>1, <1>3, <1>4, <1>5, <2>1
  <2>5. Listed(items, n, name, payload)
    BY <2>2, <2>3, <2>4 DEF Listed
  <2> QED BY <2>5 DEF FreshList
<1> HIDE <1>3, <1>5
<1> QED BY <1>9, <1>10, <1>11, Begins

LEMMA StagingStep ==
  ASSUME Inv, StagingNext
  PROVE  Inv'
PROOF BY PlanStaging, SnapshotOriginal, SkipUnchanged, CreateTemporary, FillTemporary,
         ParkOriginal, CheckParked, Publish, RecordPublication, VerifyInstalled,
         CleanupOriginal, Unwind, StagingIoError, StagingInterrupt,
         RollbackUnpublished, RollbackTake, RollbackCheck, RollbackRestore,
         RollbackDiscard, RollbackIoError DEF StagingNext

-----------------------------------------------------------------------------
(* The preset pair, forward. *)

LEMMA PairFacts ==
  ASSUME Inv, \A k \in 1 .. 2 : ValidDefinition(k), NEW g, NEW items, items = PairOf(g)
  PROVE  FreshList(items)
PROOF
<1>1. PICK name : name = [k \in 1 .. 2 |-> preset_relative_path(Kinds[k], g)]
  OBVIOUS
<1>2. PICK payload : payload = [k \in 1 .. 2 |-> build_document(k)]
  OBVIOUS
<1>3. \A k \in 1 .. 2 : fs[Pub(Definitions[k])].n \in Nat
  BY DEF Inv, CardInv, FilesKnown, Files, ValidDefinition, Has
<1>4. \A k \in 1 .. 2 : Payload(payload[k])
  BY <1>2, <1>3 DEF Payload, build_document, Data, Datas, Makers, Forms, Dated
<1>5. \A j, k \in 1 .. 2 : name[j] = name[k] => j = k
  BY <1>1 DEF preset_relative_path, Kinds
<1>6. /\ DOMAIN items = 1 .. 2 /\ items = [k \in 1 .. 2 |-> items[k]]
      /\ \A k \in 1 .. 2 : items[k] = Item(name[k], payload[k])
  BY <1>1, <1>2 DEF PairOf
<1>7. PICK n : n = 2
  OBVIOUS
<1>8. n \in Nat \ {0} /\ DOMAIN items = 1 .. n /\ items = [k \in 1 .. n |-> items[k]]
  BY <1>6, <1>7
<1>9. \A k \in 1 .. n : items[k] = Item(name[k], payload[k]) /\ Payload(payload[k])
  BY <1>4, <1>6, <1>7
<1>10. \A j, k \in 1 .. n : name[j] = name[k] => j = k
  BY <1>5, <1>7
<1> HIDE <1>1, <1>2, <1>7
<1>11. Listed(items, n, name, payload)
  BY <1>8, <1>9, <1>10 DEF Listed
<1> QED BY <1>11 DEF FreshList

LEMMA GeneratePresets ==
  ASSUME Inv, NEW g, NEW force \in BOOLEAN, generate_presets(g, force)
  PROVE  Inv'
PROOF
<1>1. PICK items : items = PairOf(g)
  OBVIOUS
<1>2. PICK tool, pc, left : /\ tool = "preset" /\ pc = IF force THEN "forced" ELSE "prepare"
                            /\ left = <<>>
  OBVIOUS
<1>3. Starts(tool, pc, items, left) /\ \A k \in 1 .. 2 : ValidDefinition(k)
  BY <1>1, <1>2 DEF generate_presets
<1>4. FreshList(items)
  BY <1>1, <1>3, PairFacts
<1>5. /\ pc \in Begun
      /\ tool = "preset" /\ left # <<>> => pc # "forced"
  BY <1>2 DEF Begun
<1> HIDE <1>1, <1>2
<1> QED BY <1>3, <1>4, <1>5, Begins

LEMMA ApplyPresets ==
  ASSUME Inv, apply_presets
  PROVE  Inv'
PROOF
<1>1. PICK g : g = Head(plan_presets)
  OBVIOUS
<1>2. PICK items : items = PairOf(g)
  OBVIOUS
<1>3. PICK tool, pc, left : tool = "preset" /\ pc = "prepare" /\ left = Tail(plan_presets)
  OBVIOUS
<1>4. Starts(tool, pc, items, left) /\ \A k \in 1 .. 2 : ValidDefinition(k)
  BY <1>1, <1>2, <1>3 DEF apply_presets, Plannable
<1>5. FreshList(items)
  BY <1>2, <1>4, PairFacts
<1>6. /\ pc \in Begun
      /\ tool = "preset" /\ left # <<>> => pc # "forced"
  BY <1>3 DEF Begun
<1> HIDE <1>2, <1>3
<1> QED BY <1>4, <1>5, <1>6, Begins

LEMMA ApplyNextPair ==
  ASSUME Inv, apply_next_pair
  PROVE  Inv'
PROOF
<1>1. /\ task.pc = "doctor" /\ task.tool = "preset" /\ Running /\ fs' = fs /\ owed' = owed
      /\ spent' = spent
  BY DEF apply_next_pair, Preset, At, Running
<1>2. SameRun /\ spent'.ids = spent.ids
  BY <1>1, NoneSpent DEF Inv, SameRun
<1>3. NoneRolled /\ NoneParked
  BY <1>1 DEF Inv, TaskInv, Rollbacks, Rolling, Taken, Ahead
<1>4. CardInv' /\ NoneRolled' /\ NoneParked' /\ OnlyAt({}) /\ NoNewFiles
  BY <1>1, <1>2, <1>3, Stays DEF NoneRolled, NoneParked
<1>5. CASE \A k \in 1 .. 2 : ValidDefinition(k)
  <2>1. PICK g : g = Head(task.left)
    OBVIOUS
  <2>2. PICK items : items = PairOf(g)
    OBVIOUS
  <2>3. task' = [task EXCEPT !.pc = "prepare", !.i = 1, !.left = Tail(@),
                             !.items = PairOf(Head(task.left)),
                             !.before = Known(PairOf(Head(task.left)))]
    BY <1>5 DEF apply_next_pair
  <2>4. /\ DOMAIN task' = TaskFields /\ task'.i = 1 /\ task'.pc = "prepare"
        /\ task'.items = items
    BY <1>1, <2>1, <2>2, <2>3, ItFacts DEF TaskFields
  <2>8. \A k \in 1 .. 2 : ValidDefinition(k)
    BY <1>5
  <2>9. items = PairOf(g)
    BY <2>2
  <2>5. FreshList(items)
    BY <2>8, <2>9, PairFacts
  <2>6. task'.pc \in Begun /\ task'.pc # "forced"
    BY <2>4 DEF Begun
  <2>7. /\ DOMAIN task' = TaskFields /\ task'.i = 1 /\ task'.items = items
        /\ spent'.ids = spent.ids
    BY <1>2, <2>4
  <2>10. task'.tool = "preset" /\ task'.left # <<>> => task'.pc # "forced"
    BY <2>6
  <2> HIDE <2>2, <2>3, <2>4
  <2> QED BY <1>4, <2>5, <2>6, <2>7, <2>10, FreshItems
<1>6. CASE ~ \A k \in 1 .. 2 : ValidDefinition(k)
  <2>1. task' = [task EXCEPT !.pc = "done", !.left = <<>>, !.result = "committed"]
    BY <1>6 DEF apply_next_pair
  <2>2. /\ DOMAIN task' = TaskFields /\ task'.i = task.i /\ task'.pc = "done"
        /\ task'.items = task.items /\ task'.tool = task.tool /\ task'.left = <<>>
    BY <1>1, <2>1, ItFacts DEF TaskFields
  <2>3. Last' = Last /\ Items' = Items
    BY <2>2 DEF Last, Items
  <2>4. Shape' /\ Snapshots' /\ Rollbacks' /\ ParksNothing'
    BY <1>1, <2>2, <2>3
       DEF Inv, TaskInv, Shape, Running, Snapshots, Rollbacks, Rolling, Taken, ParksNothing
  <2>5. ItemsOK'
    <3> SUFFICES ASSUME NEW k \in Items
                 PROVE  ItemOK(task.items[k])'
      BY <2>3 DEF ItemsOK
    <3>1. task.items[k]' = task.items[k] /\ ItemOK(task.items[k])
      BY <2>2 DEF Inv, TaskInv, ItemsOK
    <3> QED BY <1>1, <3>1 DEF ItemOK, Dated, Made
  <2>6. Ahead' /\ Behind' /\ Temporaries' /\ Committed'
    BY <2>2, TurnedBack DEF Backing
  <2> QED BY <1>4, <2>4, <2>5, <2>6 DEF Inv, TaskInv
<1> QED BY <1>5, <1>6

LEMMA PrepareOutput ==
  ASSUME Inv, prepare_output
  PROVE  Inv'
PROOF
<1>1. /\ task.pc \in {"prepare", "forced"} /\ task.tool = "preset" /\ Running /\ fs' = fs
      /\ owed' = owed /\ spent' = spent
  BY DEF prepare_output, Running
<1>2. SameRun /\ spent'.ids = spent.ids
  BY <1>1, NoneSpent DEF Inv, SameRun
<1>3. NoneParked /\ NoneRolled /\ \A k \in Items : ~Has(OrigOf(k))
  BY <1>1 DEF Inv, TaskInv, Ahead, Rollbacks, Rolling, Taken, NoneParked, OrigOf, Hidden, Has
<1>4. PICK now, pc : now = Look(Pub(It.name)) /\ pc = task.pc
  OBVIOUS
<1>5. CASE now # NoFile /\ pc = "prepare"
  <2>1. PICK j : j = task.i
    OBVIOUS
  <2>2. Goes("done", j) /\ KeepsItems /\ j \in Items
    BY <1>1, <1>4, <1>5, <2>1, ItFacts DEF prepare_output, Goes, KeepsItems, TaskFields
  <2> QED BY <1>1, <1>2, <1>3, <2>2, BreaksOff
<1>6. CASE now = NoFile \/ pc # "prepare"
  <2>1. PICK it : it = [It EXCEPT !.orig = now]
    OBVIOUS
  <2>2. /\ DOMAIN it = ItemFields /\ it.payload = It.payload /\ it.name = It.name
        /\ it.temp = It.temp /\ it.installed = It.installed /\ it.backup = It.backup
        /\ it.orig = now
    BY <1>1, <2>1, ItFacts DEF ItemOK, ItemFields
  <2>3. it.orig \in Files /\ Made(it.orig) /\ it.orig.form # "partial"
    <3>1. Pub(It.name)[2] = "public"
      BY DEF Pub
    <3>2. CASE Has(Pub(It.name))
      BY <1>4, <2>2, <3>1, <3>2 DEF Inv, CardInv, FilesKnown, OthersWhole, Has, Look
    <3>3. CASE ~Has(Pub(It.name))
      BY <1>4, <2>2, <3>3 DEF Inv, CardInv, NoFile, Files, Makers, Forms, Made, Dated, Look
    <3> QED BY <3>2, <3>3
  <2>4. ItemOK(it)'
    BY <1>1, <1>2, <2>2, <2>3, ItemStill
  <2>5. /\ SetsItem(it) /\ Goes(task'.pc, task'.i) /\ task'.i \in Items
        /\ \/ task'.pc = pc /\ task.i < Last /\ task'.i = task.i + 1
           \/ task'.pc = "allocate" /\ task.i = Last /\ task'.i = 1
    <3>1. PICK t : t = [task EXCEPT !.items[task.i].orig = now, !.touched = Settled(It.name)]
      OBVIOUS
    <3>2. /\ DOMAIN t = TaskFields /\ t.tool = task.tool /\ t.left = task.left /\ t.i = task.i
          /\ t.items = [task.items EXCEPT ![task.i] = it]
      BY <1>1, <2>1, <3>1, ItFacts DEF TaskFields, It
    <3>3. task' = Forward(t, pc, "allocate")
      BY <1>4, <1>6, <3>1 DEF prepare_output
    <3> QED BY <1>1, <3>2, <3>3, NextItem
  <2>6. /\ CardInv' /\ Shape' /\ ItemsOK' /\ Last' = Last /\ Items' = Items
        /\ OrigsKept(Items) /\ NoneParked' = NoneParked /\ NoneRolled' = NoneRolled
        /\ task'.items[task.i] = it
        /\ \A k \in Items : k # task.i => task'.items[k] = task.items[k]
    BY <1>1, <1>2, <2>2, <2>4, <2>5, QuietSet
  <2>7. \A k \in Items : ~task.items[k].backup /\ ~task'.items[k].backup
    BY <1>1, <1>3, <2>2, <2>6, ItFacts DEF Inv, TaskInv, Behind, ParkedIfRecorded, Parked
  <2>8. pc \in {"prepare", "forced"}
    BY <1>1, <1>4
  <2>9. Rollbacks' /\ Ahead' /\ Temporaries' /\ Committed' /\ Snapshots'
    BY <1>1, <1>3, <2>5, <2>6, <2>8
       DEF Rollbacks, Rolling, Taken, Ahead, Temporaries, Committed, Goes, Snapshots
  <2>10. Behind'
    BY <2>5, <2>6, <2>7, <2>8 DEF Behind, ParkedIfRecorded
  <2>11. ParksNothing'
    <3>1. task.left # <<>> => pc # "forced" /\ \A k \in Items : task.items[k].orig = NoFile
      BY <1>1, <1>4 DEF Inv, TaskInv, ParksNothing
    <3>2. task.left # <<>> => now = NoFile
      BY <1>6, <2>8, <3>1
    <3>3. NoFile' = NoFile
      BY DEF NoFile
    <3> QED BY <1>1, <1>3, <2>2, <2>5, <2>6, <2>7, <2>8, <3>1, <3>2, <3>3
            DEF ParksNothing, Goes
  <2> QED BY <2>6, <2>9, <2>10, <2>11 DEF Inv, TaskInv
<1> QED BY <1>5, <1>6

LEMMA AllocateTemporary ==
  ASSUME Inv, allocate_temporary
  PROVE  Inv'
PROOF
<1>1. /\ task.pc = "allocate" /\ task.tool = "preset" /\ Running /\ owed' = owed
      /\ fs' = Put(fs, Hidden(It.name, "temporary"), File(NewId, [It.payload EXCEPT !.form = "partial"]))
      /\ Count("ids") /\ task' = With([It EXCEPT !.temp = NewId], "fillpair")
  BY DEF allocate_temporary, Preset, At, Running
<1>2. PICK n, it : n = It.name /\ it = [It EXCEPT !.temp = NewId]
  OBVIOUS
<1>3. /\ CardInv' /\ SameRun /\ OnlyAt({TempOf(task.i)})
      /\ ItemOK(it)' /\ it.name = It.name /\ it.orig = It.orig /\ it.backup = It.backup
      /\ it.temp # 0 /\ it.temp = NewId
      /\ TempOf(task.i) \in DOMAIN fs' /\ fs'[TempOf(task.i)].id = it.temp
  BY <1>1, <1>2, Created
<1>4. Goes("fillpair", task.i) /\ SetsItem(it)
  BY <1>1, <1>2, ItFacts DEF With, Goes, SetsItem, TaskFields
<1>5. PICK j : j = task.i
  OBVIOUS
<1>6. /\ Shape' /\ ItemsOK' /\ Last' = Last /\ Items' = Items /\ NamesKept
      /\ task'.items[task.i] = it
      /\ \A k \in Items : k # task.i => task'.items[k] = task.items[k]
  BY <1>1, <1>3, <1>4, <1>5, ItemSet, ItFacts
<1>7. /\ OrigsKept(Items) /\ RollsKept(Items) /\ (NoneRolled => NoneRolled')
      /\ (NoneParked => NoneParked') /\ TempsKept(Items \ {task.i})
  <2>1. PICK S : S = {TempOf(task.i)}
    OBVIOUS
  <2>2. \A m \in S : m[2] = "temporary" /\ m = TempOf(task.i)
    BY <2>1 DEF TempOf, Hidden
  <2> QED BY <1>1, <1>3, <1>6, <2>1, <2>2, NamesUntouched DEF SameRun
<1>8. /\ NoneRolled /\ NoneParked /\ \A k \in Items : ParkedIfRecorded(k)
      /\ \A k \in 1 .. task.i - 1 : Ready(k)
  BY <1>1 DEF Inv, TaskInv, Rollbacks, Rolling, Taken, Ahead, Behind, Temporaries
<1>9. Snapshots' /\ Rollbacks' /\ Committed' /\ Ahead'
  BY <1>1, <1>4, <1>7, <1>8 DEF Goes, Snapshots, Rollbacks, Rolling, Taken, Committed, Ahead
<1>10. \A k \in Items : /\ task'.items[k].orig = task.items[k].orig
                        /\ task'.items[k].backup => task.items[k].backup
  BY <1>3, <1>6 DEF It
<1>11. ParksNothing'
  BY <1>4, <1>6, <1>7, <1>10, ParksNothingKept DEF Goes
<1>12. Behind'
  <2>1. \A k \in Items : ParkedIfRecorded(k)'
    BY <1>4, <1>7, <1>8, <1>10, StillParked DEF Goes
  <2> QED BY <1>4, <1>6, <2>1 DEF Behind, Goes
<1>13. Temporaries'
  <2>1. It' = it /\ task'.i = task.i
    BY <1>4, <1>6 DEF It, Goes
  <2>2. TempOf(task.i)' = TempOf(task.i)
    BY <1>3, <1>6, <2>1 DEF It, SameRun, TempOf, Hidden
  <2>3. \A k \in 1 .. task.i - 1 : Ready(k)'
    <3>1. \A k \in 1 .. task.i - 1 : k \in Items \ {task.i}
      BY <1>1, ItFacts
    <3> QED BY <1>6, <1>7, <1>8, <3>1, StillReady DEF TempsKept
  <2> QED BY <1>3, <1>4, <2>1, <2>2, <2>3 DEF Temporaries, Goes, Has
<1> QED BY <1>3, <1>6, <1>9, <1>11, <1>12, <1>13 DEF Inv, TaskInv

LEMMA FillPreset ==
  ASSUME Inv, fill_preset
  PROVE  Inv'
PROOF
<1>1. /\ task.pc = "fillpair" /\ task.tool = "preset" /\ Running /\ owed' = owed /\ spent' = spent
      /\ fs' = Put(fs, Hidden(It.name, "temporary"), File(It.temp, It.payload))
      /\ task' = Forward(task, "allocate", "backup")
  BY DEF fill_preset, Preset, At, Running
<1>2. PICK n : n = It.name
  OBVIOUS
<1>3. /\ CardInv' /\ SameRun /\ OnlyAt({TempOf(task.i)})
      /\ TempOf(task.i) \in DOMAIN fs' /\ It.temp # 0
      /\ fs'[TempOf(task.i)] = File(It.temp, It.payload)
  BY <1>1, <1>2, Filled
<1>4. /\ Goes(task'.pc, task'.i) /\ KeepsItems /\ task'.i \in Items
      /\ \/ task'.pc = "allocate" /\ task.i < Last /\ task'.i = task.i + 1
         \/ task'.pc = "backup" /\ task.i = Last /\ task'.i = 1
  <2>1. PICK t : t = task
    OBVIOUS
  <2>2. /\ DOMAIN t = TaskFields /\ t.tool = task.tool /\ t.left = task.left /\ t.i = task.i
        /\ t.items = task.items /\ task' = Forward(t, "allocate", "backup")
    BY <1>1, <2>1, ItFacts
  <2> QED BY <1>1, <2>2, NextItemKept
<1>5. PICK j, p : j = task'.i /\ p = task'.pc
  OBVIOUS
<1>6. /\ Shape' /\ ItemsOK' /\ Last' = Last /\ Items' = Items /\ NamesKept
  <2>1. Goes(p, j) /\ j \in Items
    BY <1>4, <1>5
  <2> QED BY <1>1, <1>3, <1>4, <2>1, ItemsKept
<1>7. /\ OrigsKept(Items) /\ RollsKept(Items) /\ (NoneRolled => NoneRolled')
      /\ (NoneParked => NoneParked') /\ TempsKept(Items \ {task.i})
  <2>1. PICK S : S = {TempOf(task.i)}
    OBVIOUS
  <2>2. \A m \in S : m[2] = "temporary" /\ m = TempOf(task.i)
    BY <2>1 DEF TempOf, Hidden
  <2> QED BY <1>1, <1>3, <1>6, <2>1, <2>2, NamesUntouched DEF SameRun
<1>8. /\ NoneRolled /\ NoneParked /\ \A k \in Items : ParkedIfRecorded(k)
      /\ \A k \in 1 .. task.i - 1 : Ready(k)
  BY <1>1 DEF Inv, TaskInv, Rollbacks, Rolling, Taken, Ahead, Behind, Temporaries
<1>9. Snapshots' /\ Rollbacks' /\ Committed'
  BY <1>1, <1>4, <1>7, <1>8 DEF Goes, Snapshots, Rollbacks, Rolling, Taken, Committed
<1>10. Ahead'
  <2>1. \A k \in Items : ~Has(OrigOf(k))'
    BY <1>7, <1>8, UnusedNames DEF OrigsKept
  <2>2. Items' = 1 .. Last' /\ task'.i \in Nat /\ Last' \in Nat
    BY <1>1, <1>4, <1>6, ItFacts
  <2> QED BY <1>4, <1>6, <1>7, <1>8, <2>1, <2>2 DEF Ahead
<1>11. ParksNothing'
  <2>1. task'.pc \notin {"forced", "parkpair", "compare"}
    BY <1>4
  <2> QED BY <1>4, <1>6, <1>7, <2>1, ParksNothingKept DEF Goes, KeepsItems
<1>12. Behind'
  <2>1. \A k \in Items : ParkedIfRecorded(k)'
    BY <1>4, <1>7, <1>8, StillParked DEF KeepsItems, Goes
  <2> QED BY <1>4, <1>6, <2>1 DEF Behind
<1>13. Temporaries'
  <2>1. \A k \in 1 .. task.i : Ready(k)'
    <3>1. \A k \in 1 .. task.i - 1 : Ready(k)'
      <4>1. \A k \in 1 .. task.i - 1 : k \in Items \ {task.i}
        BY <1>1, ItFacts
      <4> QED BY <1>4, <1>7, <1>8, <4>1, StillReady DEF TempsKept, KeepsItems
    <3>2. PICK i : i = task.i
      OBVIOUS
    <3>3. TempOf(i)' = TempOf(i)
      BY <1>3, <1>4 DEF SameRun, TempOf, Hidden, KeepsItems
    <3>4. Ready(i)'
      BY <1>3, <1>4, <3>2, <3>3 DEF Ready, Has, It, KeepsItems, File
    <3>5. i \in Nat
      BY <1>1, <3>2, ItFacts
    <3> QED BY <3>1, <3>2, <3>4, <3>5
  <2> QED BY <1>1, <1>4, <1>6, <2>1, ItFacts DEF Temporaries
<1> QED BY <1>3, <1>6, <1>9, <1>10, <1>11, <1>12, <1>13 DEF Inv, TaskInv

LEMMA BackUp ==
  ASSUME Inv, back_up
  PROVE  Inv'
PROOF
<1>1. /\ task.pc = "backup" /\ task.tool = "preset" /\ Running /\ owed' = owed /\ spent' = spent
      /\ fs' = fs
  BY DEF back_up, Preset, At, Running
<1>2. SameRun /\ spent'.ids = spent.ids
  BY <1>1, NoneSpent DEF Inv, SameRun
<1>3. /\ NoneRolled /\ \A k \in task.i .. Last : ~Has(OrigOf(k)) /\ Ready(k)
      /\ \A k \in Items : ParkedIfRecorded(k)
  BY <1>1 DEF Inv, TaskInv, Rollbacks, Rolling, Taken, Ahead, Behind, Temporaries
<1>4. PICK j : j = task.i
  OBVIOUS
<1>5. CASE It.orig = NoFile
  <2>1. Goes("install", j) /\ KeepsItems
    BY <1>1, <1>4, <1>5, ItFacts DEF back_up, To, Goes, KeepsItems, TaskFields
  <2>2. /\ CardInv' /\ Shape' /\ ItemsOK' /\ Snapshots' /\ ParksNothing'
        /\ Last' = Last /\ Items' = Items
        /\ TempsKept(Items) /\ OrigsKept(Items) /\ NoneRolled' = NoneRolled
    BY <1>1, <1>2, <1>4, <2>1, QuietStep, ItFacts
  <2>3. Rollbacks' /\ Committed'
    BY <1>3, <2>1, <2>2 DEF Goes, Rollbacks, Rolling, Taken, Committed
  <2>4. \A k \in task.i .. Last : ~Has(OrigOf(k))' /\ Ready(k)'
    <3>1. \A k \in task.i .. Last : k \in Items
      BY <1>1, ItFacts
    <3> QED BY <1>3, <2>1, <2>2, <3>1, StillReady DEF OrigsKept, TempsKept, KeepsItems
  <2>5. \A k \in Items : ParkedIfRecorded(k)'
    BY <1>3, <2>1, <2>2, StillParked DEF KeepsItems, Goes
  <2>6. Ahead' /\ Behind' /\ Temporaries'
    BY <1>1, <1>4, <2>1, <2>2, <2>4, <2>5, ItFacts DEF Ahead, Behind, Temporaries, Goes
  <2> QED BY <2>2, <2>3, <2>6 DEF Inv, TaskInv
<1>6. CASE It.orig # NoFile
  <2>1. PICK it : it = [It EXCEPT !.backup = TRUE]
    OBVIOUS
  <2>2. /\ DOMAIN it = ItemFields /\ it.name = It.name /\ it.payload = It.payload
        /\ it.orig = It.orig /\ it.temp = It.temp /\ it.installed = It.installed
    BY <1>1, <2>1, ItFacts DEF ItemOK, ItemFields
  <2>3. ItemOK(it)'
    BY <1>1, <1>2, <2>2, ItemStill
  <2>4. Goes("parkpair", j) /\ SetsItem(it)
    BY <1>1, <1>4, <1>6, <2>1, ItFacts DEF back_up, With, Goes, SetsItem, TaskFields
  <2>5. /\ CardInv' /\ Shape' /\ ItemsOK' /\ Last' = Last /\ Items' = Items
        /\ TempsKept(Items) /\ OrigsKept(Items) /\ NoneRolled' = NoneRolled
        /\ task'.items[task.i] = it
        /\ \A k \in Items : k # task.i => task'.items[k] = task.items[k]
    <3>1. it.name = It.name /\ j \in Items
      BY <1>1, <1>4, <2>2, ItFacts
    <3>2. PICK p : p = "parkpair"
      OBVIOUS
    <3>3. Goes(p, j)
      BY <2>4, <3>2
    <3> HIDE <1>4, <2>1, <2>2, <3>2
    <3> QED BY <1>1, <1>2, <2>3, <2>4, <3>1, <3>3, QuietSet
  <2>6. Snapshots' /\ Rollbacks' /\ Committed'
    BY <1>1, <1>3, <2>4, <2>5 DEF Goes, Snapshots, Rollbacks, Rolling, Taken, Committed
  <2>7. ParksNothing'
    <3>1. task.left = <<>>
      BY <1>1, <1>6, ItFacts DEF Inv, TaskInv, ParksNothing
    <3> QED BY <2>4, <3>1 DEF ParksNothing, Goes
  <2>8. \A k \in task.i .. Last : ~Has(OrigOf(k))' /\ Ready(k)'
    <3>1. \A k \in task.i .. Last : k \in Items
      BY <1>1, ItFacts
    <3>2. \A k \in Items : /\ task'.items[k].temp = task.items[k].temp
                           /\ task'.items[k].payload = task.items[k].payload
      BY <1>1, <2>2, <2>5, ItFacts
    <3> QED BY <1>3, <2>5, <3>1, <3>2, StillReady DEF OrigsKept, TempsKept
  <2>9. \A k \in Items \ {task.i} : ParkedIfRecorded(k)'
    BY <1>3, <2>4, <2>5, StillParked DEF OrigsKept, Goes
  <2>10. Ahead' /\ Behind' /\ Temporaries'
    BY <1>1, <1>4, <2>4, <2>5, <2>8, <2>9, ItFacts DEF Ahead, Behind, Temporaries, Goes
  <2> QED BY <2>5, <2>6, <2>7, <2>10 DEF Inv, TaskInv
<1> QED BY <1>5, <1>6

LEMMA ParkPreset ==
  ASSUME Inv, park_preset
  PROVE  Inv'
PROOF
<1>1. /\ task.pc = "parkpair" /\ task.tool = "preset" /\ Running /\ owed' = owed /\ spent' = spent
  BY DEF park_preset, Preset, At, Running
<1>2. SameRun /\ spent'.ids = spent.ids
  BY <1>1, NoneSpent DEF Inv, SameRun
<1>3. /\ NoneRolled /\ \A k \in task.i .. Last : ~Has(OrigOf(k)) /\ Ready(k)
      /\ \A k \in Items \ {task.i} : ParkedIfRecorded(k)
  BY <1>1 DEF Inv, TaskInv, Rollbacks, Rolling, Taken, Ahead, Behind, Temporaries
<1>4. PICK j, n : j = task.i /\ n = Last
  OBVIOUS
<1>5. CASE ~Has(Pub(It.name))
  <2>1. Goes("undo", n) /\ KeepsItems /\ fs' = fs /\ n \in Items
    <3>1. task' = [task EXCEPT !.pc = "undo", !.i = Last] /\ fs' = fs
      BY <1>5 DEF park_preset
    <3>2. DOMAIN task = TaskFields /\ Last \in Items
      BY <1>1, ItFacts
    <3>3. Goes("undo", Last) /\ KeepsItems
      BY <3>1, <3>2 DEF Goes, KeepsItems, TaskFields
    <3> QED BY <1>4, <3>1, <3>2, <3>3
  <2> QED BY <1>1, <1>2, <1>3, <2>1, BreaksOff
<1>6. CASE Has(Pub(It.name))
  <2>1. Goes("compare", j) /\ KeepsItems /\ Renamed(Pub(It.name), Hidden(It.name, "original"))
    BY <1>1, <1>4, <1>6, ItFacts DEF park_preset, To, Goes, KeepsItems, TaskFields
  <2>2. PICK from, to : from = Pub(It.name) /\ to = Hidden(It.name, "original")
    OBVIOUS
  <2>3. /\ from[2] = "public" /\ to[2] = "original" /\ to[3] = spent.runs
        /\ to = OrigOf(task.i) /\ Has(from) /\ ~Has(to) /\ Renamed(from, to)
    BY <1>1, <1>3, <1>6, <2>1, <2>2, ItFacts DEF Pub, Hidden
  <2>4. fs[from].form # "partial"
    BY <2>3 DEF Inv, CardInv, OthersWhole, Has
  <2>5. /\ CardInv' /\ OnlyAt({from, to}) /\ NoNewFiles
        /\ DOMAIN fs' = (DOMAIN fs \ {from}) \cup {to} /\ fs'[to] = fs[from]
    BY <1>1, <1>2, <2>3, <2>4, Moved
  <2>6. /\ Shape' /\ ItemsOK' /\ Last' = Last /\ Items' = Items /\ NamesKept
    BY <1>1, <1>2, <1>4, <2>1, ItemsKept, ItFacts
  <2>7. /\ TempsKept(Items) /\ OrigsKept(Items \ {task.i}) /\ RollsKept(Items)
        /\ (NoneRolled => NoneRolled')
    BY <1>1, <1>2, <2>3, <2>5, <2>6, NamesUntouched DEF SameRun
  <2>8. Snapshots' /\ Committed'
    BY <1>1, <2>1 DEF Goes, Snapshots, Committed
  <2>9. ParksNothing'
    <3>1. task.left = <<>>
      BY <1>1 DEF Inv, TaskInv, ParksNothing
    <3> QED BY <2>1, <3>1 DEF ParksNothing, Goes
  <2>10. Rollbacks'
    BY <1>3, <2>1, <2>7 DEF Goes, Rollbacks, Rolling, Taken
  <2>11. OrigOf(task.i)' = OrigOf(task.i) /\ task'.i = task.i
    BY <1>2, <1>4, <2>1 DEF Goes, SameRun, KeepsItems, OrigOf, Hidden
  <2>12. Ahead'
    <3>1. \A k \in task.i + 1 .. Last : ~Has(OrigOf(k))'
      BY <1>1, <1>3, <2>7, ItFacts DEF OrigsKept
    <3> QED BY <2>1, <2>3, <2>5, <2>6, <2>11, <3>1 DEF Ahead, Goes, Has
  <2>13. Behind'
    <3>1. \A k \in Items \ {task.i} : ParkedIfRecorded(k)'
      BY <1>3, <2>1, <2>7, StillParked DEF KeepsItems, Goes
    <3> QED BY <2>1, <2>6, <2>11, <3>1 DEF Behind, Goes
  <2>14. Temporaries'
    <3>1. \A k \in task.i .. Last : Ready(k)'
      <4>1. \A k \in task.i .. Last : k \in Items
        BY <1>1, ItFacts
      <4> QED BY <1>3, <2>1, <2>7, <4>1, StillReady DEF TempsKept, KeepsItems
    <3> QED BY <2>1, <2>6, <2>11, <3>1 DEF Temporaries, Goes
  <2> QED BY <2>5, <2>6, <2>8, <2>9, <2>10, <2>12, <2>13, <2>14 DEF Inv, TaskInv
<1> QED BY <1>5, <1>6

LEMMA CompareBackup ==
  ASSUME Inv, compare_backup
  PROVE  Inv'
PROOF
<1>1. /\ task.pc = "compare" /\ task.tool = "preset" /\ Running /\ owed' = owed /\ spent' = spent
  BY DEF compare_backup, Preset, At, Running
<1>2. SameRun /\ spent'.ids = spent.ids
  BY <1>1, NoneSpent DEF Inv, SameRun
<1>3. /\ NoneRolled /\ \A k \in task.i + 1 .. Last : ~Has(OrigOf(k))
      /\ \A k \in task.i .. Last : Ready(k)
      /\ \A k \in Items \ {task.i} : ParkedIfRecorded(k)
      /\ Has(OrigOf(task.i))
  BY <1>1 DEF Inv, TaskInv, Rollbacks, Rolling, Taken, Ahead, Behind, Temporaries
<1>4. PICK j, n : j = task.i /\ n = Last
  OBVIOUS
<1>5. CASE fs[Hidden(It.name, "original")] = It.orig
  <2>1. Goes("install", j) /\ KeepsItems /\ fs' = fs
    BY <1>1, <1>4, <1>5, ItFacts DEF compare_backup, To, Goes, KeepsItems, TaskFields
  <2>2. /\ CardInv' /\ Shape' /\ ItemsOK' /\ Snapshots' /\ ParksNothing'
        /\ Last' = Last /\ Items' = Items
        /\ TempsKept(Items) /\ OrigsKept(Items) /\ NoneRolled' = NoneRolled
    BY <1>1, <1>2, <1>4, <2>1, QuietStep, ItFacts
  <2>3. Rollbacks' /\ Committed'
    BY <1>3, <2>1, <2>2 DEF Goes, Rollbacks, Rolling, Taken, Committed
  <2>4. \A k \in task.i + 1 .. Last : ~Has(OrigOf(k))'
    BY <1>1, <1>3, <2>2, ItFacts DEF OrigsKept
  <2>5. \A k \in task.i .. Last : Ready(k)'
    <3>1. \A k \in task.i .. Last : k \in Items
      BY <1>1, ItFacts
    <3> QED BY <1>3, <2>1, <2>2, <3>1, StillReady DEF TempsKept, KeepsItems
  <2>6. \A k \in Items : ParkedIfRecorded(k)'
    <3>1. ParkedIfRecorded(j)
      BY <1>1, <1>3, <1>4, <1>5, ItFacts DEF ParkedIfRecorded, Parked
    <3>2. \A k \in Items : ParkedIfRecorded(k)
      BY <1>3, <1>4, <3>1
    <3> QED BY <2>1, <2>2, <3>2, StillParked DEF KeepsItems, Goes
  <2>7. Ahead' /\ Behind' /\ Temporaries'
    BY <1>1, <1>4, <2>1, <2>2, <2>4, <2>5, <2>6, ItFacts DEF Ahead, Behind, Temporaries, Goes
  <2> QED BY <2>2, <2>3, <2>7 DEF Inv, TaskInv
<1>6. CASE fs[Hidden(It.name, "original")] # It.orig /\ Restorable(It)
  <2>1. PICK it : it = [It EXCEPT !.backup = FALSE]
    OBVIOUS
  <2>2. /\ DOMAIN it = ItemFields /\ it.name = It.name /\ it.payload = It.payload
        /\ it.orig = It.orig /\ it.temp = It.temp /\ it.installed = It.installed /\ ~it.backup
    BY <1>1, <2>1, ItFacts DEF ItemOK, ItemFields
  <2>3. ItemOK(it)'
    BY <1>1, <1>2, <2>2, ItemStill
  <2>4. Goes("undo", n) /\ SetsItem(it) /\ Renamed(Hidden(It.name, "original"), Pub(It.name))
    BY <1>1, <1>4, <1>6, <2>1, ItFacts DEF compare_backup, With, Goes, SetsItem, TaskFields
  <2>5. RestoredOr("original")
    BY <1>6, <2>4 DEF RestoredOr, Restorable
  <2>6. CardInv' /\ OnlyAt({Hidden(It.name, "original"), Pub(It.name)}) /\ NoNewFiles
    BY <1>1, <1>2, <2>5, Returned
  <2>7. /\ Shape' /\ ItemsOK' /\ Last' = Last /\ Items' = Items /\ NamesKept
        /\ task'.items[task.i] = it
        /\ \A k \in Items : k # task.i => task'.items[k] = task.items[k]
    <3>1. it.name = It.name /\ n \in Items
      BY <1>1, <1>4, <2>2, ItFacts
    <3>2. PICK p : p = "undo"
      OBVIOUS
    <3>3. Goes(p, n)
      BY <2>4, <3>2
    <3> HIDE <1>4, <2>1, <2>2, <3>2
    <3> QED BY <1>1, <1>2, <2>3, <2>4, <3>1, <3>3, ItemSet
  <2>8. RollsKept(Items)
    <3>1. PICK S : S = {Hidden(It.name, "original"), Pub(It.name)}
      OBVIOUS
    <3>2. \A m \in S : m[2] # "rollback"
      BY <3>1 DEF Hidden, Pub
    <3> QED BY <1>1, <1>2, <2>6, <2>7, <3>1, <3>2, NamesUntouched DEF SameRun
  <2>9. \A k \in 1 .. n : ~Has(RollOf(k))'
    BY <1>1, <1>3, <1>4, <2>8, UnusedNames, ItFacts DEF RollsKept
  <2>10. ~NoneParked
    BY <1>6 DEF Restorable, CanRename, NoneParked, Hidden, Has
  <2>11. \A k \in Items : /\ task'.items[k].orig = task.items[k].orig
                          /\ task'.items[k].backup => task.items[k].backup
    BY <2>2, <2>7 DEF It
  <2>12. Goes("undo", n)
    BY <2>4
  <2> HIDE <1>4, <2>1
  <2> QED BY <1>2, <2>6, <2>7, <2>9, <2>10, <2>11, <2>12, GoesBack
<1>7. CASE fs[Hidden(It.name, "original")] # It.orig /\ ~Restorable(It)
  <2>1. Goes("undo", n) /\ KeepsItems /\ fs' = fs /\ n \in Items
    <3>1. task' = [task EXCEPT !.pc = "undo", !.i = Last] /\ fs' = fs
      BY <1>7 DEF compare_backup
    <3>2. DOMAIN task = TaskFields /\ Last \in Items
      BY <1>1, ItFacts
    <3>3. Goes("undo", Last) /\ KeepsItems
      BY <3>1, <3>2 DEF Goes, KeepsItems, TaskFields
    <3> QED BY <1>4, <3>1, <3>2, <3>3
  <2> QED BY <1>1, <1>2, <1>3, <2>1, BreaksOff
<1> QED BY <1>5, <1>6, <1>7

LEMMA InstallPreset ==
  ASSUME Inv, install_preset
  PROVE  Inv'
PROOF
<1>1. /\ task.pc = "install" /\ task.tool = "preset" /\ Running /\ owed' = owed /\ spent' = spent
  BY DEF install_preset, Preset, At, Running
<1>2. SameRun /\ spent'.ids = spent.ids
  BY <1>1, NoneSpent DEF Inv, SameRun
<1>3. /\ NoneRolled /\ \A k \in task.i + 1 .. Last : ~Has(OrigOf(k))
      /\ \A k \in task.i .. Last : Ready(k)
      /\ \A k \in Items : ParkedIfRecorded(k)
  BY <1>1 DEF Inv, TaskInv, Rollbacks, Rolling, Taken, Ahead, Behind, Temporaries
<1>4. PICK j, n : j = task.i /\ n = Last
  OBVIOUS
<1>5. CASE Has(Pub(It.name))
  <2>1. Goes("undo", n) /\ KeepsItems /\ fs' = fs /\ n \in Items
    <3>1. task' = [task EXCEPT !.pc = "undo", !.i = Last] /\ fs' = fs
      BY <1>5 DEF install_preset
    <3>2. DOMAIN task = TaskFields /\ Last \in Items
      BY <1>1, ItFacts
    <3>3. Goes("undo", Last) /\ KeepsItems
      BY <3>1, <3>2 DEF Goes, KeepsItems, TaskFields
    <3> QED BY <1>4, <3>1, <3>2, <3>3
  <2> QED BY <1>1, <1>2, <1>3, <2>1, BreaksOff
<1>6. CASE ~Has(Pub(It.name))
  <2>1. Goes("own", j) /\ KeepsItems /\ Renamed(Hidden(It.name, "temporary"), Pub(It.name))
    BY <1>1, <1>4, <1>6, ItFacts DEF install_preset, To, Goes, KeepsItems, TaskFields
  <2>2. PICK from, to : from = Hidden(It.name, "temporary") /\ to = Pub(It.name)
    OBVIOUS
  <2>3. /\ from[2] = "temporary" /\ to[2] = "public" /\ Has(from) /\ ~Has(to)
        /\ Renamed(from, to) /\ fs[from].form # "partial" /\ from = TempOf(task.i)
    <3>1. Ready(task.i)
      BY <1>1, <1>3, ItFacts
    <3> QED BY <1>1, <1>6, <2>1, <2>2, <3>1, ItFacts, ReadyWhole DEF Pub, Hidden
  <2>4. CardInv' /\ OnlyAt({from, to}) /\ NoNewFiles
    BY <1>2, <1>1, <2>3, Moved
  <2>5. /\ Shape' /\ ItemsOK' /\ Last' = Last /\ Items' = Items /\ NamesKept
    BY <1>1, <1>2, <1>4, <2>1, ItemsKept, ItFacts
  <2>6. /\ OrigsKept(Items) /\ RollsKept(Items) /\ (NoneRolled => NoneRolled')
        /\ (NoneParked => NoneParked') /\ TempsKept(Items \ {task.i})
    BY <1>1, <1>2, <2>3, <2>4, <2>5, NamesUntouched DEF SameRun
  <2>7. Snapshots' /\ Committed' /\ Rollbacks'
    BY <1>1, <1>3, <2>1, <2>6 DEF Goes, Snapshots, Committed, Rollbacks, Rolling, Taken
  <2>8. ParksNothing'
    BY <2>1, <2>5, <2>6, ParksNothingKept DEF Goes, KeepsItems
  <2>9. task'.i = task.i
    BY <1>4, <2>1 DEF Goes
  <2>10. Ahead'
    <3>1. \A k \in task.i + 1 .. Last : ~Has(OrigOf(k))'
      BY <1>1, <1>3, <2>6, ItFacts DEF OrigsKept
    <3> QED BY <2>1, <2>5, <2>9, <3>1 DEF Ahead, Goes
  <2>11. Behind'
    <3>1. \A k \in Items : ParkedIfRecorded(k)'
      BY <1>3, <2>1, <2>6, StillParked DEF KeepsItems, Goes
    <3> QED BY <2>1, <2>5, <3>1 DEF Behind, Goes
  <2>12. Temporaries'
    <3>1. \A k \in task.i + 1 .. Last : Ready(k)'
      <4>1. \A k \in task.i + 1 .. Last : k \in Items \ {task.i} /\ k \in task.i .. Last
        BY <1>1, ItFacts
      <4> QED BY <1>3, <2>1, <2>6, <4>1, StillReady DEF TempsKept, KeepsItems
    <3>2. It.temp # 0
      BY <1>1, <1>3, ItFacts DEF Ready
    <3>3. It' = It
      BY <2>1, <2>9 DEF It, KeepsItems
    <3> QED BY <2>1, <2>5, <2>9, <3>1, <3>2, <3>3 DEF Temporaries, Goes
  <2> QED BY <2>4, <2>5, <2>7, <2>8, <2>10, <2>11, <2>12 DEF Inv, TaskInv
<1> QED BY <1>5, <1>6

LEMMA OwnPreset ==
  ASSUME Inv, own_preset
  PROVE  Inv'
PROOF
<1>1. /\ task.pc = "own" /\ task.tool = "preset" /\ Running /\ owed' = owed /\ spent' = spent
      /\ fs' = fs
  BY DEF own_preset, Preset, At, Running
<1>2. SameRun /\ spent'.ids = spent.ids
  BY <1>1, NoneSpent DEF Inv, SameRun
<1>3. /\ NoneRolled /\ \A k \in task.i + 1 .. Last : ~Has(OrigOf(k)) /\ Ready(k)
      /\ \A k \in Items : ParkedIfRecorded(k)
  BY <1>1 DEF Inv, TaskInv, Rollbacks, Rolling, Taken, Ahead, Behind, Temporaries
<1>4. PICK it : it = Owned
  OBVIOUS
<1>5. /\ DOMAIN it = ItemFields /\ it.name = It.name /\ it.payload = It.payload
      /\ it.orig = It.orig /\ it.temp = 0 /\ it.installed = It.temp /\ it.backup = It.backup
  BY <1>1, <1>4, ItFacts DEF Owned, ItemOK, ItemFields
<1>6. ItemOK(it)'
  BY <1>1, <1>2, <1>5, ItemStill
<1>7. /\ Goes(task'.pc, task'.i) /\ SetsItem(it) /\ task'.i \in Items
      /\ \/ task'.pc = "backup" /\ task.i < Last /\ task'.i = task.i + 1
         \/ task'.pc = "confirm" /\ task.i = Last /\ task'.i = 1
  <2>1. PICK t : t = With(Owned, "backup")
    OBVIOUS
  <2>2. /\ DOMAIN t = TaskFields /\ t.tool = task.tool /\ t.left = task.left /\ t.i = task.i
        /\ t.items = [task.items EXCEPT ![task.i] = it]
    BY <1>1, <1>4, <2>1, ItFacts DEF With, TaskFields
  <2>3. task' = Forward(t, "backup", "confirm")
    BY <2>1 DEF own_preset
  <2> QED BY <1>1, <2>2, <2>3, NextItem
<1>8. /\ CardInv' /\ Shape' /\ ItemsOK' /\ Last' = Last /\ Items' = Items
      /\ TempsKept(Items) /\ OrigsKept(Items) /\ NoneRolled' = NoneRolled
      /\ NoneParked' = NoneParked
      /\ task'.items[task.i] = it
      /\ \A k \in Items : k # task.i => task'.items[k] = task.items[k]
  BY <1>1, <1>2, <1>5, <1>6, <1>7, QuietSet
<1>9. Snapshots' /\ Rollbacks' /\ Committed'
  BY <1>1, <1>3, <1>7, <1>8 DEF Goes, Snapshots, Rollbacks, Rolling, Taken, Committed
<1>10. \A k \in Items : /\ task'.items[k].orig = task.items[k].orig
                        /\ task'.items[k].backup => task.items[k].backup
  BY <1>5, <1>8 DEF It
<1>11. ParksNothing'
  <2>1. task'.pc \notin {"forced", "parkpair", "compare"}
    BY <1>7
  <2> QED BY <1>7, <1>8, <1>10, <2>1, ParksNothingKept DEF Goes
<1>12. \A k \in task.i + 1 .. Last : ~Has(OrigOf(k))' /\ Ready(k)'
  <2>1. \A k \in task.i + 1 .. Last : k \in Items /\ k # task.i
    BY <1>1, ItFacts
  <2> QED BY <1>3, <1>8, <2>1, StillReady DEF OrigsKept, TempsKept
<1>13. \A k \in Items : ParkedIfRecorded(k)'
  BY <1>3, <1>7, <1>8, <1>10, StillParked DEF Goes
<1>14. Ahead' /\ Behind' /\ Temporaries'
  BY <1>1, <1>7, <1>8, <1>12, <1>13, ItFacts DEF Ahead, Behind, Temporaries
<1> QED BY <1>8, <1>9, <1>11, <1>14 DEF Inv, TaskInv

LEMMA ConfirmPreset ==
  ASSUME Inv, confirm_preset
  PROVE  Inv'
PROOF
<1>1. /\ task.pc = "confirm" /\ task.tool = "preset" /\ Running /\ spent' = spent /\ fs' = fs
  BY DEF confirm_preset, Preset, At, Running
<1>2. owed' = owed \/ owed' = owed \ {task.items[k].orig : k \in 1 .. Last}
  BY DEF confirm_preset
<1>3. SameRun /\ spent'.ids = spent.ids
  BY <1>1, <1>2, NoneSpent DEF Inv, SameRun
<1>4. NoneRolled /\ \A k \in Items : ParkedIfRecorded(k)
  BY <1>1 DEF Inv, TaskInv, Rollbacks, Rolling, Taken, Behind
<1>5. PICK t : t = [task EXCEPT !.touched = Settled(It.name)]
  OBVIOUS
<1>6. /\ DOMAIN t = TaskFields /\ t.tool = task.tool /\ t.left = task.left /\ t.i = task.i
      /\ t.items = task.items
  BY <1>1, <1>5, ItFacts DEF TaskFields
<1>7. CASE Look(Pub(It.name)) = File(It.installed, It.payload)
  <2>1. task' = Forward(t, "confirm", "purge")
    BY <1>5, <1>7 DEF confirm_preset
  <2>2. /\ Goes(task'.pc, task'.i) /\ KeepsItems /\ task'.i \in Items
        /\ \/ task'.pc = "confirm" /\ task.i < Last /\ task'.i = task.i + 1
           \/ task'.pc = "purge" /\ task.i = Last /\ task'.i = 1
    BY <1>1, <1>6, <2>1, NextItemKept
  <2>3. /\ CardInv' /\ Shape' /\ ItemsOK' /\ Snapshots' /\ ParksNothing'
        /\ Last' = Last /\ Items' = Items
        /\ OrigsKept(Items) /\ NoneRolled' = NoneRolled
    BY <1>1, <1>3, <2>2, QuietStep
  <2>4. Rollbacks' /\ Ahead' /\ Temporaries'
    BY <1>4, <2>2, <2>3 DEF Rollbacks, Rolling, Taken, Ahead, Temporaries
  <2>5. Behind'
    <3>1. \A k \in Items : ParkedIfRecorded(k)'
      BY <1>4, <2>2, <2>3, StillParked DEF KeepsItems, Goes
    <3>2. \A k \in task'.i .. Last : k \in Items
      BY <1>1, <2>2, <2>3, ItFacts
    <3> QED BY <2>2, <2>3, <3>1, <3>2 DEF Behind
  <2>6. Committed'
    <3>1. task.i = Last => owed' = owed \ {task.items[k].orig : k \in 1 .. Last}
      BY <1>7 DEF confirm_preset
    <3>2. \A k \in Items :
            task.items[k].backup => fs[OrigOf(k)] \notin owed \ {task.items[j].orig : j \in 1 .. Last}
      BY <1>1, <1>4 DEF ParkedIfRecorded, Parked, Items
    <3> QED BY <2>2, <2>3, <3>1, <3>2, CommitLetsGo
  <2> QED BY <2>3, <2>4, <2>5, <2>6 DEF Inv, TaskInv
<1>8. CASE Look(Pub(It.name)) # File(It.installed, It.payload)
  <2>1. PICK j : j = Last
    OBVIOUS
  <2>2. Goes("undo", j) /\ KeepsItems /\ j \in Items
    <3>1. task' = [t EXCEPT !.pc = "undo", !.i = Last]
      BY <1>5, <1>8 DEF confirm_preset
    <3> QED BY <1>1, <1>6, <2>1, <3>1, ItFacts DEF Goes, KeepsItems, TaskFields
  <2>3. CardInv' /\ OnlyAt({}) /\ NoNewFiles
    BY <1>1, <1>3, Stays
  <2>4. NoneParked => NoneParked'
    BY <1>1, <1>3 DEF NoneParked, SameRun
  <2> QED BY <1>1, <1>3, <1>4, <2>2, <2>3, <2>4, PassFails
<1> QED BY <1>7, <1>8

LEMMA PurgeBackup ==
  ASSUME Inv, purge_backup
  PROVE  Inv'
PROOF
<1>1. /\ task.pc = "purge" /\ task.tool = "preset" /\ Running /\ spent' = spent /\ owed' = owed
      /\ fs' = IF It.backup THEN Drop(fs, Hidden(It.name, "original")) ELSE fs
  BY DEF purge_backup, Preset, At, Running
<1>2. SameRun /\ spent'.ids = spent.ids
  BY <1>1, NoneSpent DEF Inv, SameRun
<1>3. /\ NoneRolled /\ \A k \in task.i .. Last : ParkedIfRecorded(k)
      /\ \A k \in Items : MayGo(k)
  BY <1>1 DEF Inv, TaskInv, Rollbacks, Rolling, Taken, Behind, Committed
<1>4. /\ Goes(task'.pc, task'.i) /\ KeepsItems /\ task'.i \in Items
      /\ \/ task'.pc = "purge" /\ task.i < Last /\ task'.i = task.i + 1
         \/ task'.pc = "done"
         \/ task'.pc = "doctor" /\ task.left # <<>>
  <2>1. PICK t : t = task
    OBVIOUS
  <2>2. PICK u : u = Forward(t, "purge", "done")
    OBVIOUS
  <2>3. PICK i, n : i = task.i /\ n = Last
    OBVIOUS
  <2>4. /\ DOMAIN u = TaskFields /\ u.tool = t.tool /\ u.left = t.left /\ u.items = t.items
        /\ \/ u.pc = "purge" /\ t.i < n /\ u.i = t.i + 1
           \/ u.pc = "done" /\ t.i = n /\ u.i = 1
    <3>1. DOMAIN t = TaskFields /\ n \in Nat /\ Len(t.items) = n /\ t.i \in 1 .. n
      BY <1>1, <2>1, <2>3, ItFacts DEF Last
    <3> QED BY <2>2, <3>1, ForwardFacts
  <2>5. task' = NextPair(u)
    BY <2>1, <2>2 DEF purge_backup
  <2>6. /\ DOMAIN task' = TaskFields /\ task'.tool = u.tool /\ task'.left = u.left
        /\ task'.items = u.items /\ task'.i = u.i
        /\ \/ task'.pc = u.pc
           \/ u.pc = "done" /\ u.left # <<>> /\ task'.pc = "doctor"
    BY <2>4, <2>5 DEF NextPair, TaskFields
  <2> QED BY <1>1, <2>1, <2>3, <2>4, <2>6, ItFacts DEF Goes, KeepsItems
<1>5. /\ CardInv' /\ OnlyAt({Hidden(It.name, "original")}) /\ NoNewFiles
      /\ NoneParked => NoneParked'
  <2>1. PICK name : name = Hidden(It.name, "original")
    OBVIOUS
  <2>2. CASE It.backup
    <3>1. Has(name) => fs[name] \notin owed
      BY <1>1, <1>3, <2>1, <2>2, ItFacts DEF MayGo
    <3>2. CardInv' /\ OnlyAt({name}) /\ NoNewFiles /\ DOMAIN fs' = DOMAIN fs \ {name}
      BY <1>1, <1>2, <2>1, <2>2, <3>1, Dropped
    <3>3. NoneParked => NoneParked'
      BY <1>2, <3>2 DEF NoneParked, SameRun
    <3> QED BY <2>1, <3>2, <3>3
  <2>3. CASE ~It.backup
    <3>1. CardInv' /\ OnlyAt({}) /\ NoNewFiles
      BY <1>1, <1>2, <2>3, Stays
    <3>2. NoneParked => NoneParked'
      BY <1>1, <1>2, <2>3 DEF NoneParked, SameRun
    <3> QED BY <3>1, <3>2 DEF OnlyAt
  <2> QED BY <2>2, <2>3
<1>6. /\ Shape' /\ ItemsOK' /\ Last' = Last /\ Items' = Items /\ NamesKept
  BY <1>1, <1>2, <1>4, ItemsKept
<1>7. RollsKept(Items) /\ OrigsKept(Items \ {task.i}) /\ (NoneRolled => NoneRolled')
  <2>1. PICK S : S = {Hidden(It.name, "original")}
    OBVIOUS
  <2>2. \A m \in S : m[2] = "original" /\ m = OrigOf(task.i)
    BY <1>1, <2>1, ItFacts DEF Hidden
  <2> QED BY <1>1, <1>2, <1>5, <1>6, <2>1, <2>2, NamesUntouched DEF SameRun
<1>8. Snapshots'
  BY <1>1, <1>4 DEF Goes, Snapshots
<1>9. ParksNothing'
  <2>1. task'.pc \notin {"forced", "parkpair", "compare"}
    BY <1>4
  <2> QED BY <1>4, <1>5, <1>6, <2>1, ParksNothingKept DEF Goes, KeepsItems
<1>10. Rollbacks' /\ Temporaries'
  BY <1>3, <1>4, <1>7 DEF Rollbacks, Rolling, Taken, Temporaries, Running
<1>11. Ahead'
  <2>1. task'.pc = "doctor" => NoneParked'
    BY <1>1, <1>4, <1>5 DEF Inv, TaskInv, ParksNothing
  <2> QED BY <1>4, <2>1 DEF Ahead
<1>12. Behind'
  <2>1. \A k \in task.i + 1 .. Last : ParkedIfRecorded(k)'
    <3>1. PICK K : K = task.i + 1 .. Last
      OBVIOUS
    <3>2. K \subseteq Items /\ K \subseteq Items \ {task.i} /\ \A k \in K : ParkedIfRecorded(k)
      BY <1>1, <1>3, <3>1, ItFacts
    <3>3. OrigsKept(K)
      BY <1>7, <3>2 DEF OrigsKept
    <3> QED BY <1>4, <3>1, <3>2, <3>3, StillParked DEF KeepsItems, Goes
  <2> QED BY <1>4, <1>6, <2>1 DEF Behind
<1>13. Committed'
  BY <1>1, <1>2, <1>3, <1>4, <1>6, <1>7, DropMayGo DEF Committed
<1> QED BY <1>5, <1>6, <1>8, <1>9, <1>10, <1>11, <1>12, <1>13 DEF Inv, TaskInv

LEMMA PresetFault ==
  ASSUME Inv, preset_fault
  PROVE  Inv'
PROOF
<1>1. task.tool = "preset" /\ owed' = owed /\ fs' = fs /\ Fault
  BY DEF preset_fault
<1>2. SameRun /\ spent'.ids = spent.ids
  BY <1>1, FaultSpent DEF Inv, SameRun
<1>3. CASE /\ task.pc \in {"prepare", "forced", "allocate", "fillpair", "backup",
                           "parkpair", "compare", "install", "own", "confirm"}
           /\ \E interrupted \in BOOLEAN :
                task' = Undone(IF task.pc = "own" /\ ~interrupted THEN With(Owned, "own")
                               ELSE task, interrupted)
  <2>1. Running /\ NoneRolled
    BY <1>3 DEF Running, Inv, TaskInv, Rollbacks, Rolling, Taken
  <2>2. PICK interrupted \in BOOLEAN :
          task' = Undone(IF task.pc = "own" /\ ~interrupted THEN With(Owned, "own")
                         ELSE task, interrupted)
    BY <1>3
  <2>3. PICK n : n = Last
    OBVIOUS
  <2>4. n \in Items /\ DOMAIN task = TaskFields
    BY <2>1, <2>3, ItFacts
  <2>5. CASE ~(task.pc = "own" /\ ~interrupted)
    <3>1. task' = Undone(task, interrupted)
      BY <2>2, <2>5
    <3>2. Goes("undo", n) /\ KeepsItems
      BY <2>3, <2>4, <3>1 DEF Undone, Goes, KeepsItems, TaskFields
    <3> QED BY <1>1, <1>2, <2>1, <2>4, <3>2, BreaksOff
  <2>6. CASE task.pc = "own" /\ ~interrupted
    <3>1. PICK it : it = Owned
      OBVIOUS
    <3>2. /\ DOMAIN it = ItemFields /\ it.name = It.name /\ it.payload = It.payload
          /\ it.orig = It.orig /\ it.temp = 0 /\ it.installed = It.temp /\ it.backup = It.backup
      BY <2>1, <3>1, ItFacts DEF Owned, ItemOK, ItemFields
    <3>3. ItemOK(it)'
      BY <1>2, <2>1, <3>2, ItemStill
    <3>4. task' = Undone(With(Owned, "own"), interrupted)
      BY <2>2, <2>6
    <3>5. Goes("undo", n) /\ SetsItem(it)
      BY <2>3, <2>4, <3>1, <3>4 DEF Undone, With, Goes, SetsItem, TaskFields
    <3>6. /\ CardInv' /\ Shape' /\ ItemsOK' /\ Last' = Last /\ Items' = Items
          /\ NoneParked' = NoneParked /\ RollsKept(Items)
          /\ task'.items[task.i] = it
          /\ \A k \in Items : k # task.i => task'.items[k] = task.items[k]
      <4>1. it.name = It.name
        BY <3>2
      <4>2. PICK p : p = "undo"
        OBVIOUS
      <4>3. Goes(p, n)
        BY <3>5, <4>2
      <4> HIDE <2>3, <3>1, <3>2, <4>2
      <4> QED BY <1>1, <1>2, <2>1, <2>4, <3>3, <3>5, <4>1, <4>3, QuietSet
    <3>7. \A k \in Items : /\ task'.items[k].orig = task.items[k].orig
                           /\ task'.items[k].backup => task.items[k].backup
      BY <3>2, <3>6 DEF It
    <3>8. NoNewFiles
      BY <1>1, <1>2, Stays
    <3>9. \A k \in 1 .. n : ~Has(RollOf(k))'
      BY <2>1, <2>3, <3>6, UnusedNames, ItFacts DEF RollsKept
    <3>10. Goes("undo", n)
      BY <3>5
    <3> HIDE <2>3, <3>1
    <3> QED BY <1>2, <3>6, <3>7, <3>8, <3>9, <3>10, GoesBack
  <2> QED BY <2>5, <2>6
<1>4. CASE /\ task.pc = "purge" /\ It.backup
           /\ task' = LET t == Forward([task EXCEPT !.report = Report(It.name)],
                                       "purge", "done")
                      IN  IF t.pc = "done" THEN [t EXCEPT !.result = "committed"] ELSE t
  <2>1. Running
    BY <1>4 DEF Running
  <2>2. PICK t, i, n : /\ t = [task EXCEPT !.report = Report(It.name)]
                       /\ i = task.i /\ n = Last
    OBVIOUS
  <2>3. /\ DOMAIN t = TaskFields /\ t.tool = task.tool /\ t.left = task.left /\ t.i = task.i
        /\ t.items = task.items /\ n \in Nat /\ Len(t.items) = n /\ t.i \in 1 .. n
    BY <2>1, <2>2, ItFacts DEF TaskFields, Last
  <2>4. PICK u : u = Forward(t, "purge", "done")
    OBVIOUS
  <2>5. /\ DOMAIN u = TaskFields /\ u.tool = t.tool /\ u.left = t.left /\ u.items = t.items
        /\ \/ u.pc = "purge" /\ t.i < n /\ u.i = t.i + 1
           \/ u.pc = "done" /\ t.i = n /\ u.i = 1
    BY <2>3, <2>4, ForwardFacts
  <2>6. task' = IF u.pc = "done" THEN [u EXCEPT !.result = "committed"] ELSE u
    BY <1>4, <2>2, <2>4
  <2>7. /\ DOMAIN task' = TaskFields /\ task'.tool = u.tool /\ task'.left = u.left
        /\ task'.items = u.items /\ task'.pc = u.pc /\ task'.i = u.i
    BY <2>5, <2>6 DEF TaskFields
  <2>8. /\ Goes(task'.pc, task'.i) /\ KeepsItems /\ task'.i \in Items
        /\ \/ task'.pc = task.pc /\ task.i < Last /\ task'.i = task.i + 1
           \/ task'.pc = "done"
    BY <1>4, <2>1, <2>2, <2>3, <2>5, <2>7, ItFacts DEF Goes, KeepsItems
  <2> QED BY <1>1, <1>2, <1>4, <2>1, <2>8, SkipsCleanup
<1> QED BY <1>3, <1>4 DEF preset_fault

-----------------------------------------------------------------------------
(* The preset pair turns back. *)

(* A parked file returns, and a hidden file nobody is owed goes. *)
LEMMA CardMovedDropped ==
  ASSUME CardInv, NEW from, NEW to, Has(from), ~Has(to), to[2] = "public",
         fs[from].form # "partial", NEW x, x # from, x # to, Has(x) => fs[x] \notin owed,
         fs' = Drop(Move(fs, from, to), x), owed' = owed, spent'.ids = spent.ids,
         spent' \in [ids : Nat, foreign : Nat, faults : Nat, runs : Nat],
         spent'.runs = spent.runs
  PROVE  CardInv'
PROOF
<1>1. /\ DOMAIN fs' = ((DOMAIN fs \ {from}) \cup {to}) \ {x} /\ fs'[to] = fs[from]
      /\ from \in DOMAIN fs /\ to \notin DOMAIN fs /\ from # to
      /\ \A m \in DOMAIN fs : m # from /\ m # x => fs'[m] = fs[m]
  BY DEF Move, Drop, Has
<1>2. FilesKnown'
  BY <1>1 DEF CardInv, FilesKnown, Made, Dated
<1>3. InodesUnique'
  BY <1>1 DEF CardInv, InodesUnique
<1>4. TemporariesOwn' /\ OthersWhole'
  BY <1>1 DEF CardInv, TemporariesOwn, OthersWhole
<1>5. HiddenByRun'
  BY <1>1 DEF CardInv, HiddenByRun
<1>6. NothingLost'
  <2>1. \A f \in owed : f = NoFile \/ \E m \in DOMAIN fs : m # x /\ fs[m] = f
    BY DEF CardInv, NothingLost, Has
  <2>2. NoFile' = NoFile
    BY DEF NoFile
  <2> QED BY <2>1, <2>2, <1>1 DEF NothingLost
<1> QED BY <1>2, <1>3, <1>4, <1>5, <1>6 DEF CardInv

LEMMA ReturnedDropped ==
  ASSUME Inv, Running, SameRun, owed' = owed, spent'.ids = spent.ids, Restorable(It),
         NEW x, x[2] \notin {"public", "original"}, Has(x) => fs[x] \notin owed,
         fs' = Drop(Move(fs, Hidden(It.name, "original"), Pub(It.name)), x)
  PROVE  /\ CardInv' /\ OnlyAt({Hidden(It.name, "original"), Pub(It.name), x}) /\ NoNewFiles
         /\ ~NoneParked
PROOF
<1>1. PICK from, to : from = Hidden(It.name, "original") /\ to = Pub(It.name)
  OBVIOUS
<1>2. /\ from[2] = "original" /\ to[2] = "public" /\ Has(from) /\ ~Has(to)
      /\ from[3] = spent.runs
  BY <1>1 DEF Hidden, Pub, Restorable, CanRename
<1>3. fs[from].form # "partial" /\ x # from /\ x # to
  BY <1>2 DEF Inv, CardInv, OthersWhole, Has
<1>4. fs' = Drop(Move(fs, from, to), x)
  BY <1>1
<1>5. CardInv'
  <2>1. /\ CardInv /\ spent'.runs = spent.runs
        /\ spent' \in [ids : Nat, foreign : Nat, faults : Nat, runs : Nat]
    BY DEF Inv, SameRun
  <2>2. /\ Has(from) /\ ~Has(to) /\ to[2] = "public" /\ fs[from].form # "partial"
        /\ x # from /\ x # to
    BY <1>2, <1>3
  <2> HIDE <1>1
  <2> QED BY <1>4, <2>1, <2>2, CardMovedDropped
<1>6. /\ DOMAIN fs' = ((DOMAIN fs \ {from}) \cup {to}) \ {x} /\ fs'[to] = fs[from]
      /\ \A m \in DOMAIN fs : m # from /\ m # x => fs'[m] = fs[m]
  BY <1>2, <1>3, <1>4 DEF Move, Drop, Has
<1>7. NoNewFiles /\ OnlyAt({from, to, x})
  BY <1>2, <1>6 DEF NoNewFiles, OnlyAt, Has
<1>8. ~NoneParked
  BY <1>2 DEF NoneParked, Has
<1> QED BY <1>1, <1>7, <1>8, <1>5

LEMMA FailureFacts ==
  ASSUME Inv, Running, task' = Failure
  PROVE  \E t : /\ DOMAIN t = TaskFields /\ t.tool = task.tool /\ t.left = task.left
                /\ t.i = task.i /\ t.items = task.items /\ task' = Backward(t, "undo")
PROOF BY ItFacts DEF Failure, TaskFields

LEMMA UndoTake ==
  ASSUME Inv, undo_take
  PROVE  Inv'
PROOF
<1>1. /\ task.pc = "undo" /\ task.tool = "preset" /\ Running /\ spent' = spent /\ owed' = owed
      /\ It.installed # 0
  BY DEF undo_take, Preset, At, Running
<1>2. SameRun /\ spent'.ids = spent.ids
  BY <1>1, NoneSpent DEF Inv, SameRun
<1>3. CASE Has(Pub(It.name))
  <2>1. PICK j : j = task.i
    OBVIOUS
  <2>2. /\ Goes("undotaken", j) /\ KeepsItems
        /\ Renamed(Pub(It.name), Hidden(It.name, "rollback"))
    BY <1>1, <1>3, <2>1, ItFacts DEF undo_take, To, Goes, KeepsItems, TaskFields
  <2> QED BY <1>1, <1>2, <1>3, <2>1, <2>2, TakesAside DEF Rolling
<1>4. CASE ~Has(Pub(It.name))
  <2>1. fs' = fs /\ task' = Failure
    BY <1>4 DEF undo_take
  <2>2. PICK t : /\ DOMAIN t = TaskFields /\ t.tool = task.tool /\ t.left = task.left
                 /\ t.i = task.i /\ t.items = task.items /\ task' = Backward(t, "undo")
    BY <1>1, <2>1, FailureFacts
  <2> QED BY <1>1, <1>2, <2>1, <2>2, GivesUp DEF Rolling, Taken
<1> QED BY <1>3, <1>4

LEMMA UndoCheck ==
  ASSUME Inv, undo_check
  PROVE  Inv'
PROOF
<1>1. /\ task.pc = "undotaken" /\ task.tool = "preset" /\ Running /\ spent' = spent
      /\ owed' = owed
  BY DEF undo_check, Preset, At, Running
<1>2. SameRun /\ spent'.ids = spent.ids
  BY <1>1, NoneSpent DEF Inv, SameRun
<1>3. PICK j : j = task.i
  OBVIOUS
<1>4. CASE fs[Hidden(It.name, "rollback")] = File(It.installed, It.payload)
  <2>1. Goes("undorestore", j) /\ KeepsItems /\ fs' = fs
    BY <1>1, <1>3, <1>4, ItFacts DEF undo_check, To, Goes, KeepsItems, TaskFields
  <2>2. CardInv' /\ OnlyAt({}) /\ NoNewFiles
    BY <1>2, <2>1, Stays
  <2>3. NoneParked => NoneParked'
    BY <1>2, <2>1 DEF NoneParked, SameRun
  <2>4. fs[RollOf(task.i)] = File(It.installed, It.payload)
    BY <1>1, <1>4, ItFacts
  <2> QED BY <1>1, <1>2, <1>3, <2>1, <2>2, <2>3, <2>4, HoldsAside DEF Taken
<1>5. CASE fs[Hidden(It.name, "rollback")] # File(It.installed, It.payload)
  <2>1. task' = Failure /\ RestoredOr("rollback")
    <3>1. Has(Hidden(It.name, "rollback"))
      BY <1>1, ItFacts DEF Inv, TaskInv, Rollbacks, Taken
    <3> QED BY <1>5, <3>1 DEF undo_check, RestoredOr, CanRename
  <2>2. PICK t : /\ DOMAIN t = TaskFields /\ t.tool = task.tool /\ t.left = task.left
                 /\ t.i = task.i /\ t.items = task.items /\ task' = Backward(t, "undo")
    BY <1>1, <2>1, FailureFacts
  <2>3. CardInv' /\ OnlyAt({Hidden(It.name, "rollback"), Pub(It.name)}) /\ NoNewFiles
    BY <1>1, <1>2, <2>1, Returned
  <2>4. PICK S : S = {Hidden(It.name, "rollback"), Pub(It.name)}
    OBVIOUS
  <2>5. \A m \in S : m[2] # "original" /\ (m[2] = "rollback" => m = RollOf(task.i))
    BY <1>1, <2>4, ItFacts DEF Hidden, Pub
  <2>6. NoneParked => NoneParked'
    BY <1>2, <2>3, <2>4, <2>5 DEF NoneParked, SameRun, OnlyAt
  <2> QED BY <1>1, <1>2, <2>2, <2>3, <2>4, <2>5, <2>6, GoesOnBack DEF Rolling, Taken
<1> QED BY <1>4, <1>5

LEMMA UndoRestore ==
  ASSUME Inv, undo_restore
  PROVE  Inv'
PROOF
<1>1. /\ task.pc = "undorestore" /\ task.tool = "preset" /\ Running /\ spent' = spent
      /\ owed' = owed
  BY DEF undo_restore, Preset, At, Running
<1>2. SameRun /\ spent'.ids = spent.ids
  BY <1>1, NoneSpent DEF Inv, SameRun
<1>3. PICK x : x = Hidden(It.name, "rollback")
  OBVIOUS
<1>4. x[2] = "rollback" /\ x = RollOf(task.i) /\ fs[x] \notin owed
  BY <1>1, <1>3, ItFacts DEF Inv, TaskInv, Rollbacks, Taken, ItemOK, Hidden
<1>5. CASE It.backup /\ Restorable(It)
  <2>1. fs' = Drop(Move(fs, Hidden(It.name, "original"), Pub(It.name)), x)
    BY <1>3, <1>5 DEF undo_restore
  <2>2. PICK t : /\ DOMAIN t = TaskFields /\ t.tool = task.tool /\ t.left = task.left
                 /\ t.i = task.i /\ t.items = task.items /\ task' = Backward(t, "undo")
    <3>1. task' = Backward([task EXCEPT !.touched = Settled(It.name)], "undo")
      BY <1>5 DEF undo_restore
    <3> QED BY <1>1, <3>1, ItFacts DEF TaskFields
  <2>3. x[2] \notin {"public", "original"} /\ (Has(x) => fs[x] \notin owed) /\ Restorable(It)
    BY <1>4, <1>5
  <2>4. /\ CardInv' /\ OnlyAt({Hidden(It.name, "original"), Pub(It.name), x}) /\ NoNewFiles
        /\ ~NoneParked
    <3> HIDE <1>3
    <3> QED BY <1>1, <1>2, <2>1, <2>3, ReturnedDropped
  <2>5. PICK S : S = {Hidden(It.name, "original"), Pub(It.name), x}
    OBVIOUS
  <2>6. \A m \in S : m[2] = "rollback" => m = RollOf(task.i)
    BY <1>4, <2>5 DEF Hidden, Pub
  <2> QED BY <1>1, <1>2, <2>2, <2>4, <2>5, <2>6, GoesOnBack DEF Rolling, Taken
<1>6. CASE It.backup /\ ~Restorable(It)
  <2>1. fs' = fs /\ task' = Failure
    BY <1>6 DEF undo_restore
  <2>2. PICK t : /\ DOMAIN t = TaskFields /\ t.tool = task.tool /\ t.left = task.left
                 /\ t.i = task.i /\ t.items = task.items /\ task' = Backward(t, "undo")
    BY <1>1, <2>1, FailureFacts
  <2> QED BY <1>1, <1>2, <2>1, <2>2, GivesUp DEF Rolling, Taken
<1>7. CASE ~It.backup
  <2>1. fs' = Drop(fs, x)
    BY <1>3, <1>7 DEF undo_restore
  <2>2. PICK t : /\ DOMAIN t = TaskFields /\ t.tool = task.tool /\ t.left = task.left
                 /\ t.i = task.i /\ t.items = task.items /\ task' = Backward(t, "undo")
    <3>1. task' = Backward([task EXCEPT !.touched =
                       IF Has(Pub(It.name)) THEN @ ELSE Settled(It.name)], "undo")
      BY <1>7 DEF undo_restore
    <3> QED BY <1>1, <3>1, ItFacts DEF TaskFields
  <2>3. CardInv' /\ OnlyAt({x}) /\ NoNewFiles
    <3>1. Has(x) => fs[x] \notin owed
      BY <1>4
    <3> HIDE <1>3
    <3> QED BY <1>1, <1>2, <2>1, <3>1, Dropped
  <2>4. NoneParked => NoneParked'
    BY <1>2, <1>4, <2>3 DEF NoneParked, SameRun, OnlyAt
  <2>5. \A m \in {x} : m[2] = "rollback" => m = RollOf(task.i)
    BY <1>4
  <2> QED BY <1>1, <1>2, <2>2, <2>3, <2>4, <2>5, GoesOnBack DEF Rolling, Taken
<1> QED BY <1>5, <1>6, <1>7

LEMMA UndoUnpublished ==
  ASSUME Inv, undo_unpublished
  PROVE  Inv'
PROOF
<1>1. /\ task.pc = "undo" /\ task.tool = "preset" /\ Running /\ spent' = spent /\ owed' = owed
  BY DEF undo_unpublished, Preset, At, Running
<1>2. SameRun /\ spent'.ids = spent.ids
  BY <1>1, NoneSpent DEF Inv, SameRun
<1>3. PICK x, from, to : /\ x = Hidden(It.name, "temporary")
                         /\ from = Hidden(It.name, "original") /\ to = Pub(It.name)
  OBVIOUS
<1>4. /\ x[2] = "temporary" /\ from[2] = "original" /\ to[2] = "public"
      /\ (Has(x) => fs[x] \notin owed)
  BY <1>3 DEF Hidden, Pub, Inv, CardInv, TemporariesOwn, Has
<1>5. PICK t : /\ DOMAIN t = TaskFields /\ t.tool = task.tool /\ t.left = task.left
               /\ t.i = task.i /\ t.items = task.items /\ task' = Backward(t, "undo")
  <2>1. CASE task' = Failure
    BY <1>1, <2>1, FailureFacts
  <2>2. CASE task' = Backward([task EXCEPT !.touched =
                           IF It.backup THEN Settled(It.name) ELSE @], "undo")
    BY <1>1, <2>2, ItFacts DEF TaskFields
  <2> QED BY <2>1, <2>2 DEF undo_unpublished
<1>6. \/ fs' = fs
      \/ fs' = Drop(fs, x)
      \/ Restorable(It) /\ fs' = Move(fs, from, to)
      \/ Restorable(It) /\ fs' = Drop(Move(fs, from, to), x)
  BY <1>3 DEF undo_unpublished
<1>7. PICK S : S = {from, to, x}
  OBVIOUS
<1>8. \A m \in S : m[2] = "rollback" => m = RollOf(task.i)
  BY <1>4, <1>7
<1>9. CardInv' /\ NoNewFiles /\ OnlyAt(S) /\ (NoneParked => NoneParked')
  <2>1. CASE fs' = fs
    <3>1. CardInv' /\ OnlyAt({}) /\ NoNewFiles
      BY <1>2, <2>1, Stays
    <3>2. NoneParked => NoneParked'
      BY <1>2, <2>1 DEF NoneParked, SameRun
    <3> QED BY <3>1, <3>2 DEF OnlyAt
  <2>2. CASE fs' = Drop(fs, x)
    <3>1. CardInv' /\ OnlyAt({x}) /\ NoNewFiles
      <4> HIDE <1>3
      <4> QED BY <1>1, <1>2, <1>4, <2>2, Dropped
    <3>2. NoneParked => NoneParked'
      BY <1>2, <1>4, <3>1 DEF NoneParked, SameRun, OnlyAt
    <3> QED BY <1>7, <3>1, <3>2 DEF OnlyAt
  <2>3. CASE Restorable(It) /\ fs' = Move(fs, from, to)
    <3>1. RestoredOr("original")
      BY <1>3, <2>3 DEF RestoredOr, Restorable, Renamed
    <3>2. CardInv' /\ OnlyAt({Hidden(It.name, "original"), Pub(It.name)}) /\ NoNewFiles
      BY <1>1, <1>2, <3>1, Returned
    <3>3. ~NoneParked
      BY <2>3 DEF Restorable, CanRename, NoneParked, Hidden, Has
    <3>4. OnlyAt({from, to})
      BY <1>3, <3>2
    <3> QED BY <1>7, <3>2, <3>3, <3>4 DEF OnlyAt
  <2>4. CASE Restorable(It) /\ fs' = Drop(Move(fs, from, to), x)
    <3>1. fs' = Drop(Move(fs, Hidden(It.name, "original"), Pub(It.name)), x)
      BY <1>3, <2>4
    <3>2. /\ CardInv' /\ OnlyAt({Hidden(It.name, "original"), Pub(It.name), x}) /\ NoNewFiles
          /\ ~NoneParked
      <4>1. x[2] \notin {"public", "original"}
        BY <1>4
      <4> HIDE <1>3
      <4> QED BY <1>1, <1>2, <1>4, <2>4, <3>1, <4>1, ReturnedDropped
    <3>3. OnlyAt({from, to, x})
      BY <1>3, <3>2
    <3> QED BY <1>7, <3>2, <3>3 DEF OnlyAt
  <2> QED BY <1>6, <2>1, <2>2, <2>3, <2>4
<1> HIDE <1>3, <1>7
<1> QED BY <1>1, <1>2, <1>5, <1>8, <1>9, GoesOnBack DEF Rolling

LEMMA UndoIoError ==
  ASSUME Inv, undo_io_error
  PROVE  Inv'
PROOF
<1>1. /\ task.pc \in {"undo", "undotaken", "undorestore"} /\ task.tool = "preset"
      /\ Running /\ owed' = owed /\ fs' = fs /\ Fault /\ task' = Failure
  BY DEF undo_io_error, Running
<1>2. SameRun /\ spent'.ids = spent.ids
  BY <1>1, FaultSpent DEF Inv, SameRun
<1>3. PICK t : /\ DOMAIN t = TaskFields /\ t.tool = task.tool /\ t.left = task.left
               /\ t.i = task.i /\ t.items = task.items /\ task' = Backward(t, "undo")
  BY <1>1, FailureFacts
<1> QED BY <1>1, <1>2, <1>3, GivesUp DEF Rolling, Taken

LEMMA PresetStep ==
  ASSUME Inv, PresetNext \/ DoctorNext
  PROVE  Inv'
PROOF
<1>1. ASSUME NEW k \in 1 .. Len(Roms), NEW force \in BOOLEAN,
             generate_presets(Roms[k].stem, force)
      PROVE  Inv'
  BY <1>1, GeneratePresets
<1> QED BY <1>1, PrepareOutput, AllocateTemporary, FillPreset, BackUp, ParkPreset,
           CompareBackup, InstallPreset, OwnPreset, ConfirmPreset, PurgeBackup, PresetFault,
           UndoTake, UndoCheck, UndoRestore, UndoUnpublished, UndoIoError,
           ApplyPresets, ApplyNextPair DEF PresetNext, DoctorNext

-----------------------------------------------------------------------------
(* The migrators plan. *)

LEMMA SelectedFacts ==
  ASSUME NEW s \in Selected
  PROVE  \E n \in Nat \ {0} :
           /\ DOMAIN s = 1 .. n /\ Len(s) = n /\ s = [k \in 1 .. n |-> s[k]]
           /\ \A k \in 1 .. n : Has(Pub(Shared(s[k])))
           /\ \A j, k \in 1 .. n : s[j] = s[k] => j = k
PROOF
<1>1. PICK n \in 1 .. Len(Titles) : s \in [1 .. n -> Saved]
  BY DEF Selected
<1>2. n \in Nat \ {0} /\ DOMAIN s = 1 .. n /\ s = [k \in 1 .. n |-> s[k]]
  BY <1>1, TitleList
<1>3. Len(s) = n
  BY <1>2, LengthOf
<1>4. \A k \in 1 .. n : s[k] \in Saved
  BY <1>1
<1>5. \A t \in Saved : Has(Pub(Shared(t))) /\ Place(t) \in Nat
  <2> SUFFICES ASSUME NEW t \in Saved
               PROVE  Has(Pub(Shared(t))) /\ Place(t) \in Nat
    OBVIOUS
  <2>1. PICK k \in 1 .. Len(Titles) : Titles[k] = t /\ Has(Pub(Shared(Titles[k])))
    BY DEF Saved
  <2>2. Place(t) \in 1 .. Len(Titles)
    BY <2>1 DEF Place
  <2> QED BY <2>1, <2>2, TitleList
<1>6. \A j, k \in 1 .. n : j < k => Place(s[j]) < Place(s[k])
  BY <1>2 DEF Selected
<1>7. \A j, k \in 1 .. n : s[j] = s[k] => j = k
  <2> SUFFICES ASSUME NEW j \in 1 .. n, NEW k \in 1 .. n, s[j] = s[k], j # k
               PROVE  FALSE
    OBVIOUS
  <2>1. Place(s[j]) \in Nat /\ Place(s[k]) = Place(s[j])
    BY <1>4, <1>5
  <2>2. Place(s[j]) < Place(s[k]) \/ Place(s[k]) < Place(s[j])
    BY <1>2, <1>6
  <2> QED BY <2>1, <2>2
<1> QED BY <1>2, <1>3, <1>4, <1>5, <1>7

LEMMA SharedPayload ==
  ASSUME Inv, NEW t, Has(Pub(Shared(t)))
  PROVE  /\ Payload(convert_save(t, fs[Pub(Shared(t))]))
         /\ Payload(DataOf(fs[Pub(Shared(t))]))
PROOF
<1>1. PICK m : m = Pub(Shared(t))
  OBVIOUS
<1>2. m \in DOMAIN fs /\ m[2] = "public"
  BY <1>1 DEF Has, Pub
<1>3. fs[m] \in Files /\ Dated(fs[m]) /\ fs[m].form # "partial"
  BY <1>2 DEF Inv, CardInv, FilesKnown, OthersWhole, Made
<1>4. Payload(Data(fs[m].by, fs[m].n, "canonical"))
  BY <1>3 DEF Payload, Data, Datas, Files, Forms, Layouts, Dated
<1>5. Payload(Data(fs[m].by, fs[m].n, fs[m].form))
  BY <1>3 DEF Payload, Data, Datas, Files, Dated
<1> QED BY <1>1, <1>4, <1>5 DEF convert_save, DataOf

LEMMA PlanFacts ==
  ASSUME Inv, NEW s \in Selected
  PROVE  FreshList(Planned(s)) /\ FreshList(Copied(s))
PROOF
<1>1. PICK n \in Nat \ {0} :
           /\ DOMAIN s = 1 .. n /\ Len(s) = n /\ s = [k \in 1 .. n |-> s[k]]
           /\ \A k \in 1 .. n : Has(Pub(Shared(s[k])))
           /\ \A j, k \in 1 .. n : s[j] = s[k] => j = k
  BY SelectedFacts
<1>2. PICK name : name = [k \in 1 .. n |-> Own(s[k])]
  OBVIOUS
<1>3. \A j, k \in 1 .. n : name[j] = name[k] => j = k
  <2> SUFFICES ASSUME NEW j \in 1 .. n, NEW k \in 1 .. n, name[j] = name[k]
               PROVE  j = k
    OBVIOUS
  <2>1. Own(s[j]) = Own(s[k])
    BY <1>2
  <2>2. s[j] = s[k]
    BY <2>1 DEF Own
  <2> QED BY <1>1, <2>2
<1>4. FreshList(Planned(s))
  <2>1. PICK payload : payload = [k \in 1 .. n |-> convert_save(s[k], fs[Pub(Shared(s[k]))])]
    OBVIOUS
  <2>2. \A k \in 1 .. n : Payload(payload[k])
    BY <1>1, <2>1, SharedPayload
  <2>3. PICK items : items = Planned(s)
    OBVIOUS
  <2>4. /\ DOMAIN items = 1 .. n /\ items = [k \in 1 .. n |-> items[k]]
        /\ \A k \in 1 .. n : items[k] = Item(name[k], payload[k])
    BY <1>1, <1>2, <2>1, <2>3 DEF Planned
  <2>5. Listed(items, n, name, payload)
    BY <1>1, <1>3, <2>2, <2>4 DEF Listed
  <2> QED BY <2>3, <2>5 DEF FreshList
<1>5. FreshList(Copied(s))
  <2>1. PICK payload : payload = [k \in 1 .. n |-> DataOf(fs[Pub(Shared(s[k]))])]
    OBVIOUS
  <2>2. \A k \in 1 .. n : Payload(payload[k])
    BY <1>1, <2>1, SharedPayload
  <2>3. PICK items : items = Copied(s)
    OBVIOUS
  <2>4. /\ DOMAIN items = 1 .. n /\ items = [k \in 1 .. n |-> items[k]]
        /\ \A k \in 1 .. n : items[k] = Item(name[k], payload[k])
    BY <1>1, <1>2, <2>1, <2>3 DEF Copied
  <2>5. Listed(items, n, name, payload)
    BY <1>1, <1>3, <2>2, <2>4 DEF Listed
  <2> QED BY <2>3, <2>5 DEF FreshList
<1> QED BY <1>4, <1>5

LEMMA PlanMigration ==
  ASSUME Inv, plan_migration
  PROVE  Inv'
PROOF
<1>1. PICK s \in Selected : Starts("cartridge", "replan", Planned(s), s)
  BY DEF plan_migration
<1>2. PICK items : items = Planned(s)
  OBVIOUS
<1>3. PICK tool, pc : tool = "cartridge" /\ pc = "replan"
  OBVIOUS
<1>4. Starts(tool, pc, items, s) /\ FreshList(items)
  BY <1>1, <1>2, <1>3, PlanFacts
<1>5. pc \in Begun /\ (tool = "preset" /\ s # <<>> => pc # "forced")
  BY <1>3 DEF Begun
<1> HIDE <1>2, <1>3
<1> QED BY <1>4, <1>5, Begins

LEMMA PlanNamespace ==
  ASSUME Inv, plan_namespace
  PROVE  Inv'
PROOF
<1>1. PICK s \in Selected : Starts("namespace", "replan", Copied(s), s)
  BY DEF plan_namespace
<1>2. PICK items : items = Copied(s)
  OBVIOUS
<1>3. PICK tool, pc : tool = "namespace" /\ pc = "replan"
  OBVIOUS
<1>4. Starts(tool, pc, items, s) /\ FreshList(items)
  BY <1>1, <1>2, <1>3, PlanFacts
<1>5. pc \in Begun /\ (tool = "preset" /\ s # <<>> => pc # "forced")
  BY <1>3 DEF Begun
<1> HIDE <1>2, <1>3
<1> QED BY <1>4, <1>5, Begins

LEMMA ConvertOne ==
  ASSUME Inv, NEW t, migrate_type01_save(t) \/ migrate_legacy_eeprom_save(t)
  PROVE  Inv'
PROOF
<1>1. PICK payload : payload = convert_save(t, fs[Pub(Shared(t))])
  OBVIOUS
<1>2. PICK items : items = <<Item(Own(t), payload)>>
  OBVIOUS
<1>3. PICK tool, pc, left : tool = "convert" /\ pc = "create" /\ left = <<t>>
  OBVIOUS
<1>4. Starts(tool, pc, items, left) /\ Has(Pub(Shared(t)))
  BY <1>1, <1>2, <1>3 DEF migrate_type01_save, migrate_legacy_eeprom_save
<1>5. FreshList(items)
  <2>1. PICK n : n = 1
    OBVIOUS
  <2>2. PICK names, payloads : names = [k \in 1 .. 1 |-> Own(t)] /\ payloads = [k \in 1 .. 1 |-> payload]
    OBVIOUS
  <2>3. Payload(payload)
    BY <1>1, <1>4, SharedPayload
  <2>4. Listed(items, n, names, payloads)
    <3>1. n \in Nat \ {0} /\ DOMAIN items = 1 .. n /\ items = [k \in 1 .. n |-> items[k]]
      BY <1>2, <2>1
    <3>2. \A k \in 1 .. n : items[k] = Item(names[k], payloads[k]) /\ Payload(payloads[k])
      BY <1>2, <2>1, <2>2, <2>3
    <3>3. \A j, k \in 1 .. n : names[j] = names[k] => j = k
      BY <2>1
    <3> QED BY <3>1, <3>2, <3>3 DEF Listed
  <2> QED BY <2>4 DEF FreshList
<1>6. pc \in Begun /\ (tool = "preset" /\ left # <<>> => pc # "forced")
  BY <1>3 DEF Begun
<1> HIDE <1>2, <1>3
<1> QED BY <1>4, <1>5, <1>6, Begins

-----------------------------------------------------------------------------
(* The migrators, forward. *)

(* A step of the migrators that leaves the card alone. *)
LEMMA MigratorGoesOn ==
  ASSUME Inv, Running, SameRun, spent'.ids = spent.ids, fs' = fs, NoneRolled,
         NEW p \in {"create", "complete", "done"}, NEW j, j \in Items, Goes(p, j), KeepsItems
  PROVE  Inv'
PROOF
<1>1. p \notin {"forced", "parkpair", "compare"}
  OBVIOUS
<1>2. /\ CardInv' /\ Shape' /\ ItemsOK' /\ Snapshots' /\ ParksNothing'
      /\ NoneRolled' = NoneRolled
  BY <1>1, QuietStep
<1>3. Rollbacks'
  BY <1>2 DEF Rollbacks, Rolling, Taken, Goes
<1>4. Ahead' /\ Behind' /\ Temporaries' /\ Committed'
  BY TurnedBack DEF Goes, Backing
<1> QED BY <1>2, <1>3, <1>4 DEF Inv, TaskInv

(* A failure before anything of this item is on the card. *)
LEMMA MigratorFails ==
  ASSUME Inv, Running, SameRun, owed' = owed, spent'.ids = spent.ids, fs' = fs, NoneRolled,
         task' = Failing(task)
  PROVE  Inv'
PROOF
<1>1. PICK p, j : p = task'.pc /\ j = task.i
  OBVIOUS
<1>2. /\ Goes(p, j) /\ KeepsItems /\ p \in {"remove", "done"} /\ j \in Items
  BY <1>1, ItFacts DEF Failing, Goes, KeepsItems, TaskFields
<1> HIDE <1>1
<1> QED BY <1>2, BreaksOff

LEMMA ApplyMigration ==
  ASSUME Inv, apply_migration
  PROVE  Inv'
PROOF
<1>1. /\ task.pc = "replan" /\ Running /\ fs' = fs /\ owed' = owed /\ spent' = spent
      /\ \/ task' = To("create")
         \/ task' = [task EXCEPT !.pc = "done", !.result = "failed"]
  BY DEF apply_migration, On, Running
<1>2. SameRun /\ spent'.ids = spent.ids /\ NoneRolled
  BY <1>1, NoneSpent DEF Inv, SameRun, TaskInv, Rollbacks, Rolling, Taken
<1>3. PICK p, j : p = task'.pc /\ j = task.i
  OBVIOUS
<1>4. /\ Goes(p, j) /\ KeepsItems /\ p \in {"create", "done"} /\ j \in Items
  BY <1>1, <1>3, ItFacts DEF To, Goes, KeepsItems, TaskFields
<1> HIDE <1>3
<1> QED BY <1>1, <1>2, <1>4, MigratorGoesOn

LEMMA DestinationState ==
  ASSUME Inv, destination_state
  PROVE  Inv'
PROOF
<1>1. /\ task.pc = "create" /\ Running /\ fs' = fs /\ owed' = owed /\ spent' = spent
  BY DEF destination_state, On, Running
<1>2. SameRun /\ spent'.ids = spent.ids /\ NoneRolled
  BY <1>1, NoneSpent DEF Inv, SameRun, TaskInv, Rollbacks, Rolling, Taken
<1>3. CASE task' = Failing(task)
  BY <1>1, <1>2, <1>3, MigratorFails
<1>4. CASE task' = Forward([task EXCEPT !.touched = Settled(It.name)], "create", "complete")
  <2>1. PICK t : t = [task EXCEPT !.touched = Settled(It.name)]
    OBVIOUS
  <2>2. /\ DOMAIN t = TaskFields /\ t.tool = task.tool /\ t.left = task.left /\ t.i = task.i
        /\ t.items = task.items /\ task' = Forward(t, "create", "complete")
    BY <1>1, <1>4, <2>1, ItFacts DEF TaskFields
  <2>3. PICK p, j : p = task'.pc /\ j = task'.i
    OBVIOUS
  <2>4. Goes(p, j) /\ KeepsItems /\ j \in Items /\ p \in {"create", "complete"}
    BY <1>1, <2>2, <2>3, NextItemKept
  <2> HIDE <2>3
  <2> QED BY <1>1, <1>2, <2>4, MigratorGoesOn
<1> QED BY <1>3, <1>4 DEF destination_state

LEMMA WriteNew ==
  ASSUME Inv, write_new
  PROVE  Inv'
PROOF
<1>1. /\ task.pc = "create" /\ Migrating /\ Running /\ owed' = owed
      /\ fs' = Put(fs, Hidden(It.name, "temporary"), File(NewId, [It.payload EXCEPT !.form = "partial"]))
      /\ Count("ids") /\ task' = With([It EXCEPT !.temp = NewId], "sync")
  BY DEF write_new, On, Running
<1>2. PICK n, it : n = It.name /\ it = [It EXCEPT !.temp = NewId]
  OBVIOUS
<1>3. /\ CardInv' /\ SameRun /\ OnlyAt({TempOf(task.i)})
      /\ ItemOK(it)' /\ it.name = It.name
      /\ it.temp # 0 /\ it.temp = NewId
      /\ TempOf(task.i) \in DOMAIN fs' /\ fs'[TempOf(task.i)].id = it.temp
  BY <1>1, <1>2, Created
<1>4. Goes("sync", task.i) /\ SetsItem(it)
  BY <1>1, <1>2, ItFacts DEF With, Goes, SetsItem, TaskFields
<1>5. PICK j : j = task.i
  OBVIOUS
<1>6. /\ Shape' /\ ItemsOK' /\ Last' = Last /\ Items' = Items /\ NamesKept
      /\ task'.items[task.i] = it
  BY <1>1, <1>3, <1>4, <1>5, ItemSet, ItFacts
<1>7. NoneRolled'
  <2>1. PICK S : S = {TempOf(task.i)}
    OBVIOUS
  <2>2. \A m \in S : m[2] = "temporary"
    BY <2>1 DEF TempOf, Hidden
  <2>3. NoneRolled
    BY <1>1 DEF Inv, TaskInv, Rollbacks, Rolling, Taken
  <2> QED BY <1>1, <1>3, <1>6, <2>1, <2>2, <2>3, NamesUntouched DEF SameRun
<1>8. Snapshots' /\ ParksNothing'
  BY <1>1, <1>4 DEF Snapshots, ParksNothing, Migrating, Goes
<1>9. Rollbacks' /\ Ahead' /\ Behind' /\ Committed'
  BY <1>4, <1>7 DEF Goes, Rollbacks, Rolling, Taken, Ahead, Behind, Committed
<1>10. Temporaries'
  <2>1. It' = it /\ task'.i = task.i
    BY <1>4, <1>6 DEF It, Goes
  <2>2. TempOf(task.i)' = TempOf(task.i)
    BY <1>3, <1>6, <2>1 DEF It, SameRun, TempOf, Hidden
  <2> QED BY <1>3, <1>4, <2>1, <2>2 DEF Temporaries, Goes, Has
<1> QED BY <1>3, <1>6, <1>8, <1>9, <1>10 DEF Inv, TaskInv

LEMMA SyncNew ==
  ASSUME Inv, sync_new
  PROVE  Inv'
PROOF
<1>1. /\ task.pc = "sync" /\ Migrating /\ Running /\ owed' = owed /\ spent' = spent
      /\ fs' = Put(fs, Hidden(It.name, "temporary"), File(It.temp, It.payload))
      /\ task' = To("link")
  BY DEF sync_new, On, Running
<1>2. PICK n : n = It.name
  OBVIOUS
<1>3. /\ CardInv' /\ SameRun /\ OnlyAt({TempOf(task.i)})
      /\ TempOf(task.i) \in DOMAIN fs' /\ It.temp # 0
      /\ fs'[TempOf(task.i)] = File(It.temp, It.payload)
  BY <1>1, <1>2, Filled
<1>4. Goes("link", task.i) /\ KeepsItems
  BY <1>1, ItFacts DEF To, Goes, KeepsItems, TaskFields
<1>5. PICK j, p : j = task.i /\ p = "link"
  OBVIOUS
<1>6. /\ Shape' /\ ItemsOK' /\ Last' = Last /\ Items' = Items /\ NamesKept
  <2>1. Goes(p, j) /\ j \in Items
    BY <1>1, <1>4, <1>5, ItFacts
  <2> QED BY <1>1, <1>3, <1>4, <2>1, ItemsKept
<1>7. NoneRolled'
  <2>1. PICK S : S = {TempOf(task.i)}
    OBVIOUS
  <2>2. \A m \in S : m[2] = "temporary"
    BY <2>1 DEF TempOf, Hidden
  <2>3. NoneRolled
    BY <1>1 DEF Inv, TaskInv, Rollbacks, Rolling, Taken
  <2> QED BY <1>1, <1>3, <1>6, <2>1, <2>2, <2>3, NamesUntouched DEF SameRun
<1>8. Snapshots' /\ ParksNothing'
  BY <1>1, <1>4 DEF Snapshots, ParksNothing, Migrating, Goes
<1>9. Rollbacks' /\ Ahead' /\ Behind' /\ Committed'
  BY <1>4, <1>7 DEF Goes, Rollbacks, Rolling, Taken, Ahead, Behind, Committed
<1>10. Temporaries'
  <2>1. TempOf(task.i)' = TempOf(task.i) /\ task'.i = task.i
    BY <1>3, <1>4 DEF Goes, SameRun, TempOf, Hidden, KeepsItems
  <2>2. PICK i : i = task.i
    OBVIOUS
  <2>3. TempOf(i)' = TempOf(i) /\ It = task.items[i]
    BY <2>1, <2>2 DEF It
  <2>4. Ready(i)' /\ task'.i = i
    BY <1>3, <1>4, <2>1, <2>2, <2>3 DEF Ready, Has, KeepsItems, File
  <2> QED BY <1>4, <2>4 DEF Temporaries, Goes
<1> QED BY <1>3, <1>6, <1>8, <1>9, <1>10 DEF Inv, TaskInv

(* The temporary goes, and with it the item's claim to it. *)
LEMMA MigratorDrops ==
  ASSUME Inv, Running, SameRun, owed' = owed, spent'.ids = spent.ids, NoneRolled, Migrating,
         fs' = Drop(fs, Hidden(It.name, "temporary")) \/ fs' = fs,
         NEW it, DOMAIN it = ItemFields, it.name = It.name, it.payload = It.payload,
         it.orig = It.orig, it.temp = 0, it.installed = It.installed, it.backup = It.backup,
         SetsItem(it),
         NEW p \in {"remove", "done"}, NEW j, j = task.i, Goes(p, j)
  PROVE  Inv'
PROOF
<1>1. ItemOK(it)'
  BY ItemStill
<1>2. /\ Shape' /\ ItemsOK' /\ Last' = Last /\ Items' = Items /\ NamesKept
      /\ task'.items[task.i] = it
      /\ \A k \in Items : k # task.i => task'.items[k] = task.items[k]
  <2>1. j \in Items
    BY ItFacts
  <2> QED BY <1>1, <2>1, ItemSet
<1>3. CardInv' /\ OnlyAt({Hidden(It.name, "temporary")}) /\ NoNewFiles
  <2>1. PICK name : name = Hidden(It.name, "temporary")
    OBVIOUS
  <2>2. CASE fs' = Drop(fs, name)
    <3>1. Has(name) => fs[name] \notin owed
      BY <2>1 DEF Inv, CardInv, TemporariesOwn, Hidden, Has
    <3>2. CardInv' /\ OnlyAt({name}) /\ NoNewFiles
      BY <2>2, <3>1, Dropped
    <3> QED BY <2>1, <3>2
  <2>3. CASE fs' = fs
    <3>1. CardInv' /\ OnlyAt({}) /\ NoNewFiles
      BY <2>3, Stays
    <3> QED BY <3>1 DEF OnlyAt
  <2> QED BY <2>1, <2>2, <2>3
<1>4. RollsKept(Items) /\ (NoneParked => NoneParked')
  <2>1. PICK S : S = {Hidden(It.name, "temporary")}
    OBVIOUS
  <2>2. \A m \in S : m[2] = "temporary"
    BY <2>1 DEF Hidden
  <2> QED BY <1>2, <1>3, <2>1, <2>2, NamesUntouched DEF SameRun
<1>5. \A k \in 1 .. j : ~Has(RollOf(k))'
  BY <1>4, UnusedNames, ItFacts DEF RollsKept
<1>6. \A k \in Items : /\ task'.items[k].orig = task.items[k].orig
                       /\ task'.items[k].backup => task.items[k].backup
  BY <1>2 DEF It
<1> QED BY <1>2, <1>3, <1>4, <1>5, <1>6, GoesBack

LEMMA InstallNoReplace ==
  ASSUME Inv, install_no_replace
  PROVE  Inv'
PROOF
<1>1. /\ task.pc = "link" /\ Migrating /\ Running /\ owed' = owed /\ spent' = spent
  BY DEF install_no_replace, On, Running
<1>2. SameRun /\ spent'.ids = spent.ids
  BY <1>1, NoneSpent DEF Inv, SameRun
<1>3. NoneRolled /\ Ready(task.i)
  BY <1>1 DEF Inv, TaskInv, Rollbacks, Rolling, Taken, Temporaries
<1>4. CASE Has(Pub(It.name))
  <2>1. PICK it, p, j : it = [It EXCEPT !.temp = 0] /\ p = task'.pc /\ j = task.i
    OBVIOUS
  <2>2. /\ fs' = Drop(fs, Hidden(It.name, "temporary"))
        /\ task' = Failing(With(it, "link"))
    BY <1>4, <2>1 DEF install_no_replace
  <2>3. Goes(p, j) /\ SetsItem(it) /\ p \in {"remove", "done"}
    BY <1>1, <2>1, <2>2, ItFacts DEF Failing, With, Goes, SetsItem, TaskFields
  <2>4. /\ DOMAIN it = ItemFields /\ it.name = It.name /\ it.payload = It.payload
        /\ it.orig = It.orig /\ it.temp = 0 /\ it.installed = It.installed
        /\ it.backup = It.backup /\ j = task.i
    BY <1>1, <2>1, ItFacts DEF ItemOK, ItemFields
  <2> HIDE <2>1
  <2> QED BY <1>1, <1>2, <1>3, <2>2, <2>3, <2>4, MigratorDrops
<1>5. CASE ~Has(Pub(It.name))
  <2>1. PICK it, p, j : /\ it = [It EXCEPT !.installed = It.temp, !.temp = 0]
                        /\ p = "reread" /\ j = task.i
    OBVIOUS
  <2>2. /\ Renamed(Hidden(It.name, "temporary"), Pub(It.name)) /\ task' = With(it, "reread")
    BY <1>5, <2>1 DEF install_no_replace
  <2>3. Goes(p, j) /\ SetsItem(it)
    BY <1>1, <2>1, <2>2, ItFacts DEF With, Goes, SetsItem, TaskFields
  <2>4. /\ DOMAIN it = ItemFields /\ it.name = It.name /\ it.payload = It.payload
        /\ it.orig = It.orig /\ it.temp = 0 /\ it.installed = It.temp
        /\ it.backup = It.backup /\ j \in Items
    BY <1>1, <2>1, ItFacts DEF ItemOK, ItemFields
  <2>5. PICK from, to : from = Hidden(It.name, "temporary") /\ to = Pub(It.name)
    OBVIOUS
  <2>6. /\ Has(from) /\ ~Has(to) /\ fs[from].form # "partial" /\ to[2] = "public"
        /\ from[2] = "temporary" /\ Renamed(from, to)
    BY <1>1, <1>3, <1>5, <2>2, <2>5, ItFacts, ReadyWhole DEF Pub, Hidden
  <2>7. CardInv' /\ OnlyAt({from, to})
    BY <1>1, <1>2, <2>6, Moved
  <2>8. p = "reread"
    BY <2>1
  <2> HIDE <2>1, <2>5
  <2>9. ItemOK(it)'
    BY <1>1, <1>2, <2>4, ItemStill
  <2>10. /\ Shape' /\ ItemsOK' /\ Last' = Last /\ Items' = Items /\ NamesKept
    BY <1>1, <1>2, <2>3, <2>4, <2>9, ItemSet
  <2>11. NoneRolled'
    <3>1. PICK S : S = {from, to}
      OBVIOUS
    <3>2. OnlyAt(S) /\ \A m \in S : m[2] # "rollback"
      BY <2>6, <2>7, <3>1
    <3> HIDE <3>1
    <3> QED BY <1>1, <1>2, <1>3, <2>10, <3>2, NamesUntouched DEF SameRun
  <2>12. Snapshots' /\ ParksNothing'
    BY <1>1, <2>3 DEF Snapshots, ParksNothing, Migrating, Goes
  <2>13. Rollbacks'
    BY <2>3, <2>8, <2>11 DEF Goes, Rollbacks, Rolling, Taken
  <2>14. Ahead' /\ Behind' /\ Temporaries' /\ Committed'
    BY <2>3, <2>8, TurnedBack DEF Goes, Backing
  <2> QED BY <2>7, <2>10, <2>12, <2>13, <2>14 DEF Inv, TaskInv
<1> QED BY <1>4, <1>5

LEMMA VerifyCreated ==
  ASSUME Inv, verify_created
  PROVE  Inv'
PROOF
<1>1. /\ task.pc = "reread" /\ Running /\ fs' = fs /\ owed' = owed /\ spent' = spent
  BY DEF verify_created, On, Running
<1>2. SameRun /\ spent'.ids = spent.ids /\ NoneRolled
  BY <1>1, NoneSpent DEF Inv, SameRun, TaskInv, Rollbacks, Rolling, Taken
<1>3. CASE task' = Failing(task)
  BY <1>1, <1>2, <1>3, MigratorFails
<1>4. CASE task' = Forward([task EXCEPT !.touched =
                              IF task.tool = "convert" THEN @ ELSE Settled(It.name)],
                           "create", "complete")
  <2>1. PICK t : t = [task EXCEPT !.touched =
                        IF task.tool = "convert" THEN @ ELSE Settled(It.name)]
    OBVIOUS
  <2>2. /\ DOMAIN t = TaskFields /\ t.tool = task.tool /\ t.left = task.left /\ t.i = task.i
        /\ t.items = task.items /\ task' = Forward(t, "create", "complete")
    BY <1>1, <1>4, <2>1, ItFacts DEF TaskFields
  <2>3. PICK p, j : p = task'.pc /\ j = task'.i
    OBVIOUS
  <2>4. Goes(p, j) /\ KeepsItems /\ j \in Items /\ p \in {"create", "complete"}
    BY <1>1, <2>2, <2>3, NextItemKept
  <2> HIDE <2>3
  <2> QED BY <1>1, <1>2, <2>4, MigratorGoesOn
<1> QED BY <1>3, <1>4 DEF verify_created

LEMMA MigrationComplete ==
  ASSUME Inv, migration_complete
  PROVE  Inv'
PROOF
<1>1. /\ task.pc = "complete" /\ Running /\ fs' = fs /\ owed' = owed /\ spent' = spent
      /\ task' = [task EXCEPT !.pc = "done", !.result = "committed"]
  BY DEF migration_complete, On, Running
<1>2. SameRun /\ spent'.ids = spent.ids /\ NoneRolled
  BY <1>1, NoneSpent DEF Inv, SameRun, TaskInv, Rollbacks, Rolling, Taken
<1>3. PICK p, j : p = "done" /\ j = task.i
  OBVIOUS
<1>4. /\ Goes(p, j) /\ KeepsItems /\ p \in {"done"} /\ j \in Items
  BY <1>1, <1>3, ItFacts DEF Goes, KeepsItems, TaskFields
<1> HIDE <1>3
<1> QED BY <1>1, <1>2, <1>4, MigratorGoesOn

LEMMA MigrationFault ==
  ASSUME Inv, migration_fault
  PROVE  Inv'
PROOF
<1>1. /\ task.pc \in {"create", "sync", "link", "reread"} /\ Migrating /\ Running /\ owed' = owed
      /\ Fault
      /\ fs' = Drop(fs, Hidden(It.name, "temporary")) \/ fs' = fs
  BY DEF migration_fault, Running
<1>2. SameRun /\ spent'.ids = spent.ids
  BY <1>1, FaultSpent DEF Inv, SameRun
<1>3. NoneRolled
  BY <1>1 DEF Inv, TaskInv, Rollbacks, Rolling, Taken
<1>4. PICK it, p, j : it = [It EXCEPT !.temp = 0] /\ p = task'.pc /\ j = task.i
  OBVIOUS
<1>5. PICK t : t = With(it, task.pc)
  OBVIOUS
<1>6. \/ task' = Failing(t)
      \/ task' = [t EXCEPT !.pc = "done", !.result = "failed", !.hurt = TRUE]
  BY <1>4, <1>5 DEF migration_fault
<1>7. /\ DOMAIN t = TaskFields /\ t.tool = task.tool /\ t.left = task.left /\ t.i = task.i
      /\ t.items = [task.items EXCEPT ![task.i] = it]
  BY <1>1, <1>5, ItFacts DEF With, TaskFields
<1>8. Goes(p, j) /\ SetsItem(it) /\ p \in {"remove", "done"}
  <2>1. CASE task' = Failing(t)
    BY <1>4, <1>7, <2>1 DEF Failing, Goes, SetsItem, TaskFields
  <2>2. CASE task' = [t EXCEPT !.pc = "done", !.result = "failed", !.hurt = TRUE]
    <3>1. DOMAIN task' = TaskFields /\ task'.pc = "done"
      BY <1>7, <2>2 DEF TaskFields
    <3>2. /\ task'.tool = t.tool /\ task'.left = t.left /\ task'.i = t.i /\ task'.items = t.items
      BY <2>2, <1>7 DEF TaskFields
    <3> QED BY <1>4, <1>7, <3>1, <3>2 DEF Goes, SetsItem
  <2> QED BY <1>6, <2>1, <2>2
<1>9. /\ DOMAIN it = ItemFields /\ it.name = It.name /\ it.payload = It.payload
      /\ it.orig = It.orig /\ it.temp = 0 /\ it.installed = It.installed
      /\ it.backup = It.backup /\ j = task.i
  BY <1>1, <1>4, ItFacts DEF ItemOK, ItemFields
<1> HIDE <1>4, <1>5
<1> QED BY <1>1, <1>2, <1>3, <1>8, <1>9, MigratorDrops

-----------------------------------------------------------------------------
(* The cartridge migrator rolls back. *)

LEMMA LeftoverFacts ==
  ASSUME Inv, Running, task' = Leftover
  PROVE  \E t : /\ DOMAIN t = TaskFields /\ t.tool = task.tool /\ t.left = task.left
                /\ t.i = task.i /\ t.items = task.items /\ task' = Backward(t, "remove")
PROOF BY ItFacts DEF Leftover, TaskFields

LEMMA RemoveCreated ==
  ASSUME Inv, remove_created
  PROVE  Inv'
PROOF
<1>1. /\ task.pc = "remove" /\ Running /\ spent' = spent /\ owed' = owed
  BY DEF remove_created, On, Running
<1>2. SameRun /\ spent'.ids = spent.ids
  BY <1>1, NoneSpent DEF Inv, SameRun
<1>3. CASE It.installed # 0 /\ Has(Pub(It.name))
  <2>1. PICK j : j = task.i
    OBVIOUS
  <2>2. /\ Goes("inspect", j) /\ KeepsItems
        /\ Renamed(Pub(It.name), Hidden(It.name, "rollback"))
    BY <1>1, <1>3, <2>1, ItFacts DEF remove_created, To, Goes, KeepsItems, TaskFields
  <2> QED BY <1>1, <1>2, <1>3, <2>1, <2>2, TakesAside DEF Rolling
<1>4. CASE ~(It.installed # 0 /\ Has(Pub(It.name)))
  <2>1. fs' = fs /\ task' = Backward(task, "remove")
    BY <1>4 DEF remove_created
  <2>2. PICK t : t = task
    OBVIOUS
  <2>3. /\ DOMAIN t = TaskFields /\ t.tool = task.tool /\ t.left = task.left
        /\ t.i = task.i /\ t.items = task.items /\ task' = Backward(t, "remove")
    BY <1>1, <2>1, <2>2, ItFacts
  <2> HIDE <2>2
  <2> QED BY <1>1, <1>2, <2>1, <2>3, GivesUp DEF Rolling, Taken
<1> QED BY <1>3, <1>4

LEMMA InspectRemoved ==
  ASSUME Inv, inspect_removed
  PROVE  Inv'
PROOF
<1>1. /\ task.pc = "inspect" /\ Running /\ spent' = spent /\ owed' = owed
  BY DEF inspect_removed, On, Running
<1>2. SameRun /\ spent'.ids = spent.ids
  BY <1>1, NoneSpent DEF Inv, SameRun
<1>3. PICK x : x = Hidden(It.name, "rollback")
  OBVIOUS
<1>4. x[2] = "rollback" /\ x = RollOf(task.i) /\ Has(x)
  BY <1>1, <1>3, ItFacts DEF Inv, TaskInv, Rollbacks, Taken, Hidden
<1>5. CASE fs[x] = File(It.installed, It.payload)
  <2>1. /\ fs' = Drop(fs, x)
        /\ task' = Backward([task EXCEPT !.touched =
                       IF Has(Pub(It.name)) THEN @ ELSE Settled(It.name)], "remove")
    BY <1>3, <1>5 DEF inspect_removed
  <2>2. PICK t : /\ DOMAIN t = TaskFields /\ t.tool = task.tool /\ t.left = task.left
                 /\ t.i = task.i /\ t.items = task.items /\ task' = Backward(t, "remove")
    BY <1>1, <2>1, ItFacts DEF TaskFields
  <2>3. CardInv' /\ OnlyAt({x}) /\ NoNewFiles
    <3>1. fs[x] \notin owed
      BY <1>1, <1>5, ItFacts DEF Inv, TaskInv, Rollbacks, Taken, ItemOK
    <3> HIDE <1>3
    <3> QED BY <1>1, <1>2, <2>1, <3>1, Dropped
  <2>4. NoneParked => NoneParked'
    BY <1>2, <1>4, <2>3 DEF NoneParked, SameRun, OnlyAt
  <2>5. \A m \in {x} : m[2] = "rollback" => m = RollOf(task.i)
    BY <1>4
  <2> QED BY <1>1, <1>2, <2>2, <2>3, <2>4, <2>5, GoesOnBack DEF Rolling, Taken
<1>6. CASE fs[x] # File(It.installed, It.payload)
  <2>1. task' = Leftover /\ RestoredOr("rollback")
    BY <1>3, <1>4, <1>6 DEF inspect_removed, RestoredOr, CanRename
  <2>2. PICK t : /\ DOMAIN t = TaskFields /\ t.tool = task.tool /\ t.left = task.left
                 /\ t.i = task.i /\ t.items = task.items /\ task' = Backward(t, "remove")
    BY <1>1, <2>1, LeftoverFacts
  <2>3. CardInv' /\ OnlyAt({Hidden(It.name, "rollback"), Pub(It.name)}) /\ NoNewFiles
    BY <1>1, <1>2, <2>1, Returned
  <2>4. PICK S : S = {Hidden(It.name, "rollback"), Pub(It.name)}
    OBVIOUS
  <2>5. \A m \in S : m[2] # "original" /\ (m[2] = "rollback" => m = RollOf(task.i))
    BY <1>1, <2>4, ItFacts DEF Hidden, Pub
  <2>6. NoneParked => NoneParked'
    BY <1>2, <2>3, <2>4, <2>5 DEF NoneParked, SameRun, OnlyAt
  <2> QED BY <1>1, <1>2, <2>2, <2>3, <2>4, <2>5, <2>6, GoesOnBack DEF Rolling, Taken
<1> QED BY <1>5, <1>6

LEMMA RemoveIoError ==
  ASSUME Inv, remove_io_error
  PROVE  Inv'
PROOF
<1>1. /\ task.pc \in {"remove", "inspect"} /\ Running /\ owed' = owed /\ fs' = fs /\ Fault
      /\ task' = Leftover
  BY DEF remove_io_error, Running
<1>2. SameRun /\ spent'.ids = spent.ids
  BY <1>1, FaultSpent DEF Inv, SameRun
<1>3. PICK t : /\ DOMAIN t = TaskFields /\ t.tool = task.tool /\ t.left = task.left
               /\ t.i = task.i /\ t.items = task.items /\ task' = Backward(t, "remove")
  BY <1>1, LeftoverFacts
<1> QED BY <1>1, <1>2, <1>3, GivesUp DEF Rolling, Taken

LEMMA MigrationStep ==
  ASSUME Inv, MigrationNext
  PROVE  Inv'
PROOF
<1>1. ASSUME NEW k \in 1 .. Len(Titles),
             migrate_type01_save(Titles[k]) \/ migrate_legacy_eeprom_save(Titles[k])
      PROVE  Inv'
  BY <1>1, ConvertOne
<1> QED BY <1>1, PlanMigration, PlanNamespace, ApplyMigration, DestinationState, WriteNew,
           SyncNew, InstallNoReplace, VerifyCreated, MigrationComplete, MigrationFault,
           RemoveCreated, InspectRemoved, RemoveIoError DEF MigrationNext

-----------------------------------------------------------------------------
(* The card at first. *)

(* A list of known length, entry by entry. *)
IsList(s) == Len(s) \in Nat /\ s = [k \in 1 .. Len(s) |-> s[k]]

LEMMA ListOf ==
  ASSUME NEW n \in Nat, NEW s, s = [k \in 1 .. n |-> s[k]]
  PROVE  IsList(s) /\ Len(s) = n
PROOF
<1>1. DOMAIN s = 1 .. n
  OBVIOUS
<1>2. Len(s) = n
  BY <1>1, LengthOf
<1> QED BY <1>2 DEF IsList

LEMMA Joined ==
  ASSUME NEW s, NEW t, IsList(s), IsList(t)
  PROVE  IsList(s \o t) /\ Members(s \o t) = Members(s) \cup Members(t)
PROOF
<1>1. PICK m, n, S : m = Len(s) /\ n = Len(t) /\ S = Members(s) \cup Members(t)
  OBVIOUS
<1>2. m \in Nat /\ n \in Nat
  BY <1>1 DEF IsList
<1>3. s \in Seq(S) /\ t \in Seq(S)
  <2>1. /\ s = [k \in 1 .. m |-> s[k]] /\ \A k \in 1 .. m : s[k] \in S
        /\ t = [k \in 1 .. n |-> t[k]] /\ \A k \in 1 .. n : t[k] \in S
    BY <1>1 DEF IsList, Members
  <2>2. s \in [1 .. m -> S] /\ t \in [1 .. n -> S]
    BY <2>1
  <2> QED BY <1>2, <2>2
<1>4. PICK w : w = s \o t
  OBVIOUS
<1>5. /\ w \in Seq(S) /\ Len(w) = m + n
      /\ \A k \in 1 .. m + n : w[k] = IF k <= m THEN s[k] ELSE t[k - m]
  BY <1>1, <1>3, <1>4, ConcatProperties
<1>6. IsList(w)
  BY <1>2, <1>5 DEF IsList
<1>7. Members(w) = Members(s) \cup Members(t)
  <2>1. \A k \in 1 .. m : w[k] = s[k] /\ k \in 1 .. m + n
    BY <1>2, <1>5
  <2>2. \A k \in 1 .. n : w[k + m] = t[k] /\ k + m \in 1 .. m + n
    BY <1>2, <1>5
  <2>3. \A k \in 1 .. m + n : (k \in 1 .. m /\ w[k] = s[k])
                               \/ (k - m \in 1 .. n /\ w[k] = t[k - m])
    BY <1>2, <1>5
  <2> QED BY <1>1, <1>5, <2>1, <2>2, <2>3 DEF Members
<1> QED BY <1>4, <1>6, <1>7

LEMMA PlaceLists ==
  /\ IsList(Managed) /\ IsList(PresetPlaces) /\ IsList(OwnPlaces) /\ IsList(Sources)
  /\ Members(Sources) = {Shared(Titles[k]) : k \in 1 .. Len(Titles)}
PROOF
<1>1. IsList(Managed)
  BY PackageFiles DEF IsList
<1>2. IsList(PresetPlaces)
  <2>1. PICK n : n = 2 * Len(Roms)
    OBVIOUS
  <2>2. n \in Nat
    BY <2>1, RomList
  <2>3. PICK s : s = PresetPlaces
    OBVIOUS
  <2>4. s = [k \in 1 .. n |-> s[k]]
    BY <2>1, <2>3 DEF PresetPlaces
  <2> QED BY <2>2, <2>3, <2>4, ListOf
<1>3. PICK n : n = Len(Titles) /\ n \in Nat
  BY TitleList
<1>4. OwnPlaces = [k \in 1 .. n |-> Own(Titles[k])] /\ Sources = [k \in 1 .. n |-> Shared(Titles[k])]
  BY <1>3 DEF OwnPlaces, Sources, Each
<1>5. IsList(OwnPlaces)
  <2>1. PICK s : s = OwnPlaces
    OBVIOUS
  <2>2. s = [k \in 1 .. n |-> s[k]]
    BY <1>4, <2>1
  <2> QED BY <1>3, <2>1, <2>2, ListOf
<1>6. IsList(Sources) /\ Len(Sources) = n
  <2>1. PICK s : s = Sources
    OBVIOUS
  <2>2. s = [k \in 1 .. n |-> s[k]]
    BY <1>4, <2>1
  <2> QED BY <1>3, <2>1, <2>2, ListOf
<1>7. Members(Sources) = {Shared(Titles[k]) : k \in 1 .. Len(Titles)}
  BY <1>3, <1>4, <1>6 DEF Members
<1> QED BY <1>1, <1>2, <1>5, <1>6, <1>7

LEMMA PlacesFacts ==
  /\ IsList(Places)
  /\ Members(Places) = Members(Managed) \cup Members(PresetPlaces)
                       \cup Members(OwnPlaces) \cup Members(Sources)
PROOF
<1>1. PICK a : a = Managed \o PresetPlaces
  OBVIOUS
<1>2. IsList(a) /\ Members(a) = Members(Managed) \cup Members(PresetPlaces)
  BY <1>1, PlaceLists, Joined
<1>3. PICK b : b = a \o OwnPlaces
  OBVIOUS
<1>4. IsList(b) /\ Members(b) = Members(a) \cup Members(OwnPlaces)
  BY <1>2, <1>3, PlaceLists, Joined
<1>5. PICK c : c = b \o Sources
  OBVIOUS
<1>6. IsList(c) /\ Members(c) = Members(b) \cup Members(Sources)
  BY <1>4, <1>5, PlaceLists, Joined
<1>7. c = Places
  BY <1>1, <1>3, <1>5 DEF Places
<1> QED BY <1>2, <1>4, <1>6, <1>7

LEMMA InodeFacts ==
  ASSUME NEW p \in Members(Places)
  PROVE  InodeOf(p) \in 1 .. Len(Places) /\ Places[InodeOf(p)] = p
PROOF BY DEF Members, InodeOf

LEMMA CardsOnPlaces ==
  ASSUME NEW card \in Cards
  PROVE  card[1] \subseteq Members(Places)
PROOF
<1>1. FirstTwo(Sources) \subseteq Members(Sources)
  BY PlaceLists DEF FirstTwo, Members, IsList
<1>2. FirstTwo(PresetPlaces) \subseteq Members(PresetPlaces)
  BY PlaceLists DEF FirstTwo, Members, IsList
<1>3. FirstTwo(OwnPlaces) \subseteq Members(OwnPlaces)
  BY PlaceLists DEF FirstTwo, Members, IsList
<1>4. Plain \subseteq Members(Places)
  BY <1>1, PlacesFacts DEF Plain
<1>5. ASSUME NEW m \in SUBSET Members(Managed), card[1] = (Plain \ Members(Managed)) \cup m
      PROVE  card[1] \subseteq Members(Places)
  BY <1>4, <1>5, PlacesFacts
<1>6. ASSUME NEW q, q \subseteq FirstTwo(PresetPlaces) \/ q \subseteq FirstTwo(OwnPlaces),
             card[1] = Plain \cup q
      PROVE  card[1] \subseteq Members(Places)
  <2>1. q \subseteq Members(PresetPlaces) \/ q \subseteq Members(OwnPlaces)
    BY <1>2, <1>3, <1>6
  <2> QED BY <1>4, <1>6, <2>1, PlacesFacts
<1>7. ASSUME NEW q \in Members(Sources), card[1] = Members(Managed) \cup {q}
      PROVE  card[1] \subseteq Members(Places)
  BY <1>7, PlacesFacts
<1>8. \/ \E m \in SUBSET Members(Managed) : card = <<(Plain \ Members(Managed)) \cup m, "canonical">>
      \/ \E q \in (SUBSET FirstTwo(PresetPlaces)) \cup (SUBSET FirstTwo(OwnPlaces)) :
           card = <<Plain \cup q, "canonical">>
      \/ \E q \in Members(Sources), l \in Layouts : card = <<Members(Managed) \cup {q}, l>>
  BY DEF Cards
<1>9. \/ \E m \in SUBSET Members(Managed) : card[1] = (Plain \ Members(Managed)) \cup m
      \/ \E q : /\ q \subseteq FirstTwo(PresetPlaces) \/ q \subseteq FirstTwo(OwnPlaces)
                /\ card[1] = Plain \cup q
      \/ \E q \in Members(Sources) : card[1] = Members(Managed) \cup {q}
  BY <1>8
<1> QED BY <1>5, <1>6, <1>7, <1>9

LEMMA HeldFacts ==
  ASSUME NEW p \in Members(Places), NEW layout \in [Members(Titles) -> Layouts]
  PROVE  /\ Held(p, layout) \in Files /\ Held(p, layout).id = InodeOf(p)
         /\ Held(p, layout).form # "partial"
         /\ Held(p, layout).by = "owner" => Held(p, layout).n <= Len(Places)
PROOF
<1>1. InodeOf(p) \in Nat /\ InodeOf(p) <= Len(Places)
  BY InodeFacts, PlacesFacts DEF IsList
<1>2. PICK data : data = IF p \in Members(Managed) THEN Release(0)
                         ELSE IF p \in Members(Sources) THEN Data("owner", InodeOf(p), layout[p[2]])
                         ELSE Data("owner", InodeOf(p), "canonical")
  OBVIOUS
<1>3. p \in Members(Sources) => layout[p[2]] \in Layouts
  BY PlaceLists DEF Members, Shared
<1>4. data \in Datas /\ data.form # "partial" /\ (data.by = "owner" => data.n <= Len(Places))
  BY <1>1, <1>2, <1>3 DEF Release, Data, Datas, Makers, Forms, Layouts
<1>5. Held(p, layout) = File(InodeOf(p), data)
  BY <1>2 DEF Held
<1> QED BY <1>1, <1>4, <1>5, FileFacts

LEMMA IdleFits ==
  ASSUME task = Idle
  PROVE  TaskInv
PROOF
<1>1. /\ DOMAIN task = TaskFields /\ task.items = <<>> /\ task.pc = "idle" /\ task.tool = "none"
  BY DEF Idle, TaskFields
<1>2. Last = 0 /\ Items = {} /\ DOMAIN task.items = Items
  BY <1>1 DEF Last, Items
<1>3. Shape
  BY <1>1, <1>2 DEF Shape, Running
<1>4. ItemsOK /\ Snapshots /\ Rollbacks
  BY <1>1, <1>2 DEF ItemsOK, Snapshots, Rollbacks, Rolling, Taken, Running
<1>5. Ahead /\ Behind /\ Temporaries /\ Committed /\ ParksNothing
  BY <1>1 DEF Ahead, Behind, Temporaries, Committed, ParksNothing
<1> QED BY <1>3, <1>4, <1>5 DEF TaskInv

LEMMA AtFirst ==
  ASSUME Init
  PROVE  Inv
PROOF
<1>1. PICK card \in Cards, layout \in [Members(Titles) -> Layouts] :
        fs = [m \in {Pub(p) : p \in card[1]} |-> Held(m[1], layout)]
  BY DEF Init
<1>2. /\ owed = {fs[m] : m \in DOMAIN fs} /\ task = Idle
      /\ spent = [ids |-> Len(Places), foreign |-> 0, faults |-> 0, runs |-> 0]
  BY DEF Init
<1>3. Len(Places) \in Nat
  BY PlacesFacts DEF IsList
<1>4. \A m \in DOMAIN fs : /\ m[1] \in Members(Places) /\ m[2] = "public" /\ m = Pub(m[1])
                           /\ fs[m] = Held(m[1], layout)
  BY <1>1, CardsOnPlaces DEF Pub
<1>5. \A m \in DOMAIN fs : /\ fs[m] \in Files /\ fs[m].id = InodeOf(m[1])
                           /\ fs[m].form # "partial"
                           /\ fs[m].by = "owner" => fs[m].n <= Len(Places)
                           /\ InodeOf(m[1]) \in 1 .. Len(Places)
                           /\ Places[InodeOf(m[1])] = m[1]
  BY <1>4, HeldFacts, InodeFacts
<1>6. FilesKnown
  BY <1>2, <1>3, <1>5 DEF FilesKnown, Made, Dated
<1>7. InodesUnique
  BY <1>4, <1>5 DEF InodesUnique
<1>8. TemporariesOwn /\ OthersWhole /\ HiddenByRun /\ NothingLost
  BY <1>2, <1>4, <1>5 DEF TemporariesOwn, OthersWhole, HiddenByRun, NothingLost
<1>9. CardInv
  BY <1>2, <1>3, <1>6, <1>7, <1>8 DEF CardInv
<1>10. TaskInv
  BY <1>2, IdleFits
<1> QED BY <1>9, <1>10 DEF Inv

-----------------------------------------------------------------------------
(* Every step. *)

LEMMA IdleFitsNext ==
  ASSUME task' = Idle
  PROVE  TaskInv'
PROOF
<1>1. /\ DOMAIN task' = TaskFields /\ task'.items = <<>> /\ task'.pc = "idle" /\ task'.tool = "none"
  BY DEF Idle, TaskFields
<1>2. Last' = 0 /\ Items' = {} /\ DOMAIN task'.items = Items'
  BY <1>1 DEF Last, Items
<1>3. Shape'
  BY <1>1, <1>2 DEF Shape, Running
<1>4. ItemsOK' /\ Snapshots' /\ Rollbacks'
  BY <1>1, <1>2 DEF ItemsOK, Snapshots, Rollbacks, Rolling, Taken, Running
<1>5. Ahead' /\ Behind' /\ Temporaries' /\ Committed' /\ ParksNothing'
  BY <1>1 DEF Ahead, Behind, Temporaries, Committed, ParksNothing
<1> QED BY <1>3, <1>4, <1>5 DEF TaskInv

LEMMA CrashStep ==
  ASSUME Inv, Crash \/ Finish
  PROVE  Inv'
PROOF
<1>1. task' = Idle /\ fs' = fs /\ owed' = owed
  BY DEF Crash, Finish
<1>2. /\ spent' \in [ids : Nat, foreign : Nat, faults : Nat, runs : Nat]
      /\ spent'.ids = spent.ids /\ spent'.runs = spent.runs /\ spent.runs \in Nat
  BY FaultSpent, NoneSpent DEF Inv, Crash, Finish
<1>3. CardInv'
  BY <1>1, <1>2, CardKept DEF Inv
<1>4. TaskInv'
  BY <1>1, IdleFitsNext
<1> QED BY <1>3, <1>4 DEF Inv

LEMMA EveryStep ==
  ASSUME Inv, [Next]_cardVars
  PROVE  Inv'
PROOF
<1>1. CASE UNCHANGED cardVars
  <2>1. fs' = fs /\ owed' = owed /\ task' = task /\ spent' = spent
    BY <1>1 DEF cardVars
  <2>2. CardInv'
    <3>1. spent' \in [ids : Nat, foreign : Nat, faults : Nat, runs : Nat] /\ spent'.runs >= spent.runs
      BY <2>1, NoneSpent DEF Inv
    <3> QED BY <2>1, <3>1, CardKept DEF Inv
  <2>3. Shape' /\ ItemsOK'
    BY <2>1 DEF Inv, TaskInv, Shape, ItemsOK, ItemOK, Items, Last, Running, Dated, Made
  <2>4. Snapshots' /\ Rollbacks' /\ Committed' /\ ParksNothing'
    BY <2>1 DEF Inv, TaskInv, Snapshots, Rollbacks, Committed, MayGo, ParksNothing, Items, Last,
                It, Running, NoneRolled, NoneParked, OrigOf, RollOf, Hidden, Has, NoFile, File
  <2>5. Ahead' /\ Behind' /\ Temporaries'
    BY <2>1 DEF Inv, TaskInv, Ahead, Behind, Temporaries, Items, Last, It, Ready, Parked,
                ParkedIfRecorded, NoneParked, TempOf, OrigOf, Hidden, Has, NoFile
  <2> QED BY <2>2, <2>3, <2>4, <2>5 DEF Inv, TaskInv
<1> QED BY <1>1, StagingStep, PresetStep, MigrationStep, OwnerStep, CrashStep DEF Next

(* The invariant holds of every card, whatever the owner, failing system  *)
(* calls, Ctrl-C and crashes do: hidden names are used as their purpose    *)
(* says and what the tool is about to discard is its own or committed.     *)
THEOREM CardInvariant == Spec => []Inv
PROOF
<1>1. Init => Inv
  BY AtFirst
<1>2. Inv /\ [Next]_cardVars => Inv'
  BY EveryStep
<1> QED BY <1>1, <1>2, PTL DEF Spec

(* Nothing of the owner's is lost: apply_staging, generate_presets,        *)
(* the Doctor and the migrators keep every file the owner put on the card  *)
(* under some name until the owner, or a commit that read it, lets it go.  *)
THEOREM OwnersFilesSurvive == Spec => []NothingLost
PROOF
<1>1. Inv => NothingLost
  BY DEF Inv, CardInv
<1> QED BY <1>1, CardInvariant, PTL

(* No public name shows a half-written file: what _atomic_write_at,        *)
(* _allocate_temporary and write_new are filling has a hidden name.        *)
THEOREM PublicFilesWhole == Spec => []PublicNamesWhole
PROOF
<1>1. Inv => PublicNamesWhole
  BY DEF Inv, CardInv, OthersWhole, PublicNamesWhole, IsPublic
<1> QED BY <1>1, CardInvariant, PTL

-----------------------------------------------------------------------------
(* What the staging tool claims.  Its items are the package's files in     *)
(* order.  What it has dealt with it has replaced or found equal, and what  *)
(* it has verified is the release's unless touched since.                   *)

Replaced(it) == it.installed # 0 \/ ~Changes(it)
Sound(n) == n \in task.touched \/ (Has(Pub(n)) /\ fs[Pub(n)].by = "release")
AllSound == \A k \in Items : Sound(task.items[k].name)
Writing == {"fill", "park", "check", "publish", "record"}
Packaged ==
  /\ Last = Len(Managed)
  /\ \A k \in Items : task.items[k].name = Managed[k] /\ task.items[k].payload.by = "release"

Healthy ==
  task.tool = "stage" =>
    /\ Packaged
    /\ task.pc \in {"write"} \cup Writing => \A k \in 1 .. task.i - 1 : Replaced(task.items[k])
    /\ task.pc \in Writing => It.temp # 0
    /\ task.pc = "verify" => /\ \A k \in Items : Replaced(task.items[k])
                             /\ \A k \in 1 .. task.i - 1 : Sound(task.items[k].name)
    /\ task.pc = "cleanup" => AllSound
    /\ task.result = "committed" => task.pc = "done" /\ AllSound

(* Only the staging tool makes a run of the staging tool.                   *)
LEMMA OthersAreOthers ==
  ASSUME Inv, PresetNext \/ MigrationNext \/ DoctorNext
  PROVE  task'.tool # "stage"
PROOF
<1>1. DOMAIN task = TaskFields
  BY DEF Inv, TaskInv, Shape
<1>2. ASSUME NEW tool, NEW pc, NEW items, NEW left, Starts(tool, pc, items, left), tool # "stage"
      PROVE  task'.tool # "stage"
  BY <1>2 DEF Starts, Idle
<1>3. ASSUME PresetNext
      PROVE  task'.tool # "stage"
  <2>1. ASSUME NEW g, NEW force \in BOOLEAN, generate_presets(g, force)
        PROVE  task'.tool # "stage"
    BY <1>2, <2>1 DEF generate_presets
  <2>2. CASE prepare_output \/ allocate_temporary \/ fill_preset \/ back_up \/ park_preset
    BY <1>1, <2>2 DEF prepare_output, allocate_temporary, fill_preset, back_up, park_preset,
      Preset, At, To, With, Forward, TaskFields
  <2>3. CASE compare_backup \/ install_preset \/ own_preset \/ confirm_preset
    BY <1>1, <2>3 DEF compare_backup, install_preset, own_preset, confirm_preset,
      Preset, At, To, With, Forward, TaskFields
  <2>4. CASE purge_backup
    <3>1. PICK t : t = Forward(task, "purge", "done")
      OBVIOUS
    <3>2. DOMAIN t = TaskFields /\ t.tool = "preset" /\ task' = NextPair(t)
      BY <1>1, <2>4, <3>1 DEF purge_backup, Preset, At, Forward, TaskFields
    <3> QED BY <3>2 DEF NextPair, TaskFields
  <2>5. CASE preset_fault
    <3>1. CASE task.pc = "purge"
      <4>1. PICK t : t = Forward([task EXCEPT !.report = Report(It.name)], "purge", "done")
        OBVIOUS
      <4>2. /\ DOMAIN t = TaskFields /\ t.tool = "preset"
            /\ task' = IF t.pc = "done" THEN [t EXCEPT !.result = "committed"] ELSE t
        BY <1>1, <2>5, <3>1, <4>1 DEF preset_fault, Forward, TaskFields
      <4> QED BY <4>2 DEF TaskFields
    <3>2. CASE task.pc # "purge"
      <4>1. \E hurt \in BOOLEAN : task' = Undone(task, hurt) \/ task' = Undone(With(Owned, "own"), hurt)
        BY <2>5, <3>2 DEF preset_fault
      <4>2. task.tool = "preset"
        BY <2>5 DEF preset_fault
      <4> QED BY <1>1, <4>1, <4>2 DEF Undone, With, TaskFields
    <3> QED BY <3>1, <3>2
  <2>6. CASE undo_take \/ undo_check \/ undo_restore \/ undo_unpublished \/ undo_io_error
    BY <1>1, <2>6 DEF undo_take, undo_check, undo_restore, undo_unpublished, undo_io_error,
      Failure, Preset, At, To, Backward, TaskFields
  <2> QED BY <1>3, <2>1, <2>2, <2>3, <2>4, <2>5, <2>6 DEF PresetNext
<1>4. ASSUME MigrationNext
      PROVE  task'.tool # "stage"
  <2>1. CASE plan_migration \/ plan_namespace
    BY <1>2, <2>1 DEF plan_migration, plan_namespace
  <2>2. ASSUME NEW t, migrate_type01_save(t) \/ migrate_legacy_eeprom_save(t)
        PROVE  task'.tool # "stage"
    BY <1>2, <2>2 DEF migrate_type01_save, migrate_legacy_eeprom_save
  <2>3. CASE apply_migration \/ destination_state \/ write_new \/ sync_new
    BY <1>1, <2>3 DEF apply_migration, destination_state, write_new, sync_new,
      On, Migrating, Failing, To, With, Forward, TaskFields
  <2>4. CASE install_no_replace \/ verify_created \/ migration_complete \/ migration_fault
    BY <1>1, <2>4 DEF install_no_replace, verify_created, migration_complete, migration_fault,
      On, Migrating, Failing, To, With, Forward, TaskFields
  <2>5. CASE remove_created \/ inspect_removed \/ remove_io_error
    BY <1>1, <2>5 DEF remove_created, inspect_removed, remove_io_error,
      Leftover, On, Migrating, To, Backward, TaskFields
  <2> QED BY <1>4, <2>1, <2>2, <2>3, <2>4, <2>5 DEF MigrationNext
<1>5. ASSUME DoctorNext
      PROVE  task'.tool # "stage"
  BY <1>1, <1>2, <1>5 DEF DoctorNext, apply_presets, apply_next_pair, Preset, At, TaskFields
<1> QED BY <1>3, <1>4, <1>5

(* Items keep what the package says of them. *)
SamePackage ==
  /\ task.tool = "stage" /\ Last' = Last
  /\ \A k \in Items : /\ task'.items[k].name = task.items[k].name
                      /\ task'.items[k].payload = task.items[k].payload

LEMMA StillPackaged ==
  ASSUME Healthy, SamePackage
  PROVE  Packaged' /\ Items' = Items
PROOF
<1>1. Items' = Items
  BY DEF SamePackage, Items
<1> QED BY <1>1 DEF Healthy, SamePackage, Packaged

(* An item set, or all kept. *)
LEMMA PackageKept ==
  ASSUME Inv, Running, task.tool = "stage",
         NEW it, it.name = It.name, it.payload = It.payload,
         task'.items = task.items \/ task'.items = [task.items EXCEPT ![task.i] = it]
  PROVE  SamePackage
PROOF
<1>1. /\ task.i \in Items /\ Last \in Nat /\ Items = 1 .. Last /\ DOMAIN task.items = Items
      /\ It = task.items[task.i]
  BY ItFacts
<1>2. CASE task'.items = task.items
  BY <1>2 DEF SamePackage, Last
<1>3. CASE task'.items = [task.items EXCEPT ![task.i] = it]
  <2>1. Last' = Last
    <3>1. PICK n, s : n = Last /\ s = task'.items
      OBVIOUS
    <3>2. n \in Nat /\ DOMAIN s = 1 .. n /\ s = [k \in 1 .. n |-> s[k]]
      BY <1>1, <1>3, <3>1
    <3> QED BY <3>1, <3>2, LengthOf DEF Last
  <2> QED BY <1>1, <1>3, <2>1 DEF SamePackage
<1> QED BY <1>2, <1>3

(* A step that turns back, or has not begun to write, claims nothing. *)
LEMMA NoClaim ==
  ASSUME Inv, Healthy, task.tool = "stage", Running, SamePackage,
         task'.pc \notin {"write", "verify", "cleanup"} \cup Writing,
         task'.result # "committed"
  PROVE  Healthy'
PROOF BY StillPackaged DEF Healthy

LEMMA NotCommitted ==
  ASSUME Healthy, task.tool = "stage", Running
  PROVE  task.result # "committed"
PROOF BY DEF Healthy, Running

(* Reading and writing, one file after the other. *)
LEMMA HealthyWriting ==
  ASSUME Inv, Healthy, Running, task.tool = "stage",
         \/ snapshot_original \/ skip_unchanged \/ create_temporary \/ fill_temporary
         \/ park_original \/ check_parked \/ publish \/ record_publication
  PROVE  Healthy'
PROOF
<1>1. /\ task.i \in Items /\ Last \in Nat /\ Items = 1 .. Last /\ DOMAIN task.items = Items
      /\ It = task.items[task.i] /\ DOMAIN task = TaskFields /\ DOMAIN It = ItemFields
      /\ Last = Len(task.items)
  BY ItFacts DEF ItemOK, Last
<1>2. task.result # "committed"
  BY NotCommitted
<1>3. CASE snapshot_original
  <2>1. PICK t : t = [task EXCEPT !.items[task.i].orig = Look(Pub(It.name)),
                                  !.touched = Settled(It.name)]
    OBVIOUS
  <2>2. /\ DOMAIN t = TaskFields /\ t.i = task.i /\ t.result = task.result /\ t.tool = task.tool
        /\ t.items = [task.items EXCEPT ![task.i] = [It EXCEPT !.orig = Look(Pub(It.name))]]
    BY <1>1, <2>1 DEF TaskFields
  <2>3. task' = Forward(t, "snapshot", "write")
    BY <1>3, <2>1 DEF snapshot_original
  <2>4. /\ task'.items = t.items /\ task'.tool = "stage" /\ task'.result = task.result
        /\ task'.pc = "snapshot" \/ (task'.pc = "write" /\ task'.i = 1)
    BY <2>2, <2>3 DEF Forward, TaskFields
  <2>5. SamePackage
    BY <1>1, <2>2, <2>4, PackageKept DEF ItemFields
  <2> QED BY <1>2, <2>4, <2>5, StillPackaged DEF Healthy, Writing
<1>4. CASE skip_unchanged
  <2>1. task' = Forward(task, "write", "verify") /\ ~Changes(It) /\ task.pc = "write"
    BY <1>4 DEF skip_unchanged, Stage, At
  <2>2. /\ task'.items = task.items /\ task'.tool = "stage" /\ task'.result = task.result
        /\ \/ task'.pc = "write" /\ task'.i = task.i + 1
           \/ task'.pc = "verify" /\ task.i = Last /\ task'.i = 1
    BY <1>1, <2>1 DEF Forward, TaskFields
  <2>3. SamePackage
    BY <2>2, PackageKept
  <2>4. \A k \in 1 .. task.i : Replaced(task'.items[k])
    BY <1>1, <2>1, <2>2 DEF Healthy, Replaced
  <2> QED BY <1>1, <1>2, <2>2, <2>3, <2>4, StillPackaged DEF Healthy, Writing
<1>5. CASE create_temporary
  <2>1. task' = With([It EXCEPT !.temp = NewId], "fill") /\ task.pc = "write"
    BY <1>5 DEF create_temporary, Stage, At
  <2>2. /\ task'.items = [task.items EXCEPT ![task.i] = [It EXCEPT !.temp = NewId]]
        /\ task'.tool = "stage" /\ task'.result = task.result
        /\ task'.pc = "fill" /\ task'.i = task.i
    BY <1>1, <2>1 DEF With, TaskFields
  <2>3. SamePackage
    BY <1>1, <2>2, PackageKept DEF ItemFields
  <2>4. NewId # 0
    BY DEF NewId, Inv, CardInv
  <2>5. It'.temp # 0 /\ \A k \in 1 .. task.i - 1 : task'.items[k] = task.items[k]
    BY <1>1, <2>2, <2>4 DEF It, ItemFields
  <2> QED BY <1>1, <1>2, <2>1, <2>2, <2>3, <2>5, StillPackaged DEF Healthy, Writing
<1>6. CASE fill_temporary \/ park_original \/ check_parked \/ publish
  <2>1. \E pc \in {"park", "check", "publish", "record", "unwind"} : task' = To(pc)
    BY <1>6 DEF fill_temporary, park_original, check_parked, publish
  <2>2. task.pc \in Writing
    BY <1>6 DEF fill_temporary, park_original, check_parked, publish, Stage, At, Writing
  <2>3. /\ task'.items = task.items /\ task'.tool = "stage" /\ task'.result = task.result
        /\ task'.i = task.i /\ task'.pc \in {"park", "check", "publish", "record", "unwind"}
    BY <1>1, <2>1 DEF To, TaskFields
  <2>4. SamePackage
    BY <2>3, PackageKept
  <2>5. It' = It
    BY <2>3 DEF It
  <2> QED BY <1>2, <2>2, <2>3, <2>4, <2>5, StillPackaged DEF Healthy, Writing
<1>7. CASE record_publication
  <2>1. PICK t : t = With(Recorded, "write")
    OBVIOUS
  <2>2. /\ DOMAIN t = TaskFields /\ t.i = task.i /\ t.result = task.result /\ t.tool = "stage"
        /\ t.items = [task.items EXCEPT ![task.i] = Recorded]
    BY <1>1, <2>1 DEF With, TaskFields
  <2>3. task' = Forward(t, "write", "verify") /\ task.pc = "record"
    BY <1>7, <2>1 DEF record_publication, Stage, At
  <2>4. Recorded.name = It.name /\ Recorded.payload = It.payload /\ Recorded.installed = It.temp
    BY <1>1 DEF Recorded, ItemFields
  <2>5. task'.items = t.items
    BY <2>2, <2>3 DEF Forward, TaskFields
  <2>6. SamePackage
    BY <2>2, <2>4, <2>5, PackageKept
  <2>7. /\ task'.tool = "stage" /\ task'.result = task.result
        /\ \/ task'.pc = "write" /\ task'.i = task.i + 1
           \/ task'.pc = "verify" /\ task.i = Last /\ task'.i = 1
    <3>1. Len(t.items) = Last
      BY <2>5, <2>6 DEF SamePackage, Last
    <3> QED BY <1>1, <2>2, <2>3, <3>1 DEF Forward, TaskFields
  <2>8. \A k \in 1 .. task.i : Replaced(task'.items[k])
    <3>1. It.temp # 0 /\ \A k \in 1 .. task.i - 1 : Replaced(task.items[k])
      BY <2>3 DEF Healthy, Writing
    <3> QED BY <1>1, <2>2, <2>4, <2>5, <3>1 DEF Replaced
  <2> QED BY <1>1, <1>2, <2>6, <2>7, <2>8, StillPackaged DEF Healthy, Writing
<1> QED BY <1>3, <1>4, <1>5, <1>6, <1>7

(* Verified is the release's: installed by this run or equal to its file. *)
LEMMA VerifiedIsSound ==
  ASSUME Inv, Healthy, Running, task.tool = "stage", Replaced(It), AsVerified(It)
  PROVE  Has(Pub(It.name)) /\ fs[Pub(It.name)].by = "release"
PROOF
<1>1. It.payload.by = "release"
  BY ItFacts DEF Healthy, Packaged
<1>2. Look(Pub(It.name)).by = "release"
  <2>1. CASE It.installed # 0
    BY <1>1, <2>1 DEF AsVerified, File
  <2>2. CASE It.installed = 0
    <3>1. Look(Pub(It.name)) = It.orig /\ DataOf(It.orig) = It.payload
      BY <2>2 DEF AsVerified, Replaced, Changes
    <3> QED BY <1>1, <3>1 DEF DataOf, Data
  <2> QED BY <2>1, <2>2
<1> QED BY <1>2 DEF Look, NoFile

LEMMA HealthyVerifying ==
  ASSUME Inv, Healthy, Running, task.tool = "stage", verify_installed \/ cleanup_original
  PROVE  Healthy'
PROOF
<1>1. /\ task.i \in Items /\ Last \in Nat /\ Items = 1 .. Last /\ DOMAIN task.items = Items
      /\ It = task.items[task.i] /\ DOMAIN task = TaskFields /\ Last = Len(task.items)
      /\ \A j, k \in Items : task.items[j].name = task.items[k].name => j = k
  BY ItFacts DEF Inv, TaskInv, Shape, Last
<1>2. task.result # "committed"
  BY NotCommitted
<1>3. CASE verify_installed
  <2>1. PICK t : t = [task EXCEPT !.touched = Settled(It.name)]
    OBVIOUS
  <2>2. /\ DOMAIN t = TaskFields /\ t.i = task.i /\ t.result = task.result /\ t.tool = "stage"
        /\ t.items = task.items /\ t.touched = task.touched \ {It.name}
    BY <1>1, <2>1 DEF TaskFields, Settled
  <2>3. task.pc = "verify" /\ fs' = fs
    BY <1>3 DEF verify_installed, Stage, At
  <2>4. CASE AsVerified(It)
    <3>1. task' = Forward(t, "verify", "cleanup")
      BY <1>3, <2>1, <2>4 DEF verify_installed
    <3>2. /\ task'.items = task.items /\ task'.tool = "stage" /\ task'.result = task.result
          /\ task'.touched = task.touched \ {It.name}
          /\ \/ task'.pc = "verify" /\ task'.i = task.i + 1
             \/ task'.pc = "cleanup" /\ task.i = Last
      BY <1>1, <2>2, <3>1 DEF Forward, TaskFields
    <3>3. SamePackage
      BY <3>2, PackageKept
    <3>4. \A k \in Items : Replaced(task'.items[k])
      BY <2>3, <3>2 DEF Healthy
    <3>5. Has(Pub(It.name)) /\ fs[Pub(It.name)].by = "release"
      BY <1>1, <2>3, <2>4, VerifiedIsSound DEF Healthy
    <3>6. \A k \in 1 .. task.i : Sound(task.items[k].name)'
      <4> SUFFICES ASSUME NEW k \in 1 .. task.i
                   PROVE  Sound(task.items[k].name)'
        BY <3>2
      <4>1. CASE k = task.i
        BY <1>1, <2>3, <3>2, <3>5, <4>1 DEF Sound, Has
      <4>2. CASE k # task.i
        <5>1. Sound(task.items[k].name) /\ task.items[k].name # It.name
          BY <1>1, <2>3, <4>2 DEF Healthy
        <5> QED BY <2>3, <3>2, <5>1 DEF Sound, Has
      <4> QED BY <4>1, <4>2
    <3> QED BY <1>1, <1>2, <3>2, <3>3, <3>4, <3>6, StillPackaged DEF Healthy, AllSound, Writing
  <2>5. CASE ~AsVerified(It)
    <3>1. /\ task'.items = task.items /\ task'.pc = "rollback" /\ task'.result = task.result
      BY <1>3, <2>1, <2>2, <2>5 DEF verify_installed, TaskFields
    <3> QED BY <1>2, <3>1, PackageKept, NoClaim DEF Writing
  <2> QED BY <2>4, <2>5
<1>4. CASE cleanup_original
  <2>1. /\ task.pc = "cleanup"
        /\ fs' = fs \/ fs' = Drop(fs, Hidden(It.name, "original"))
    BY <1>4 DEF cleanup_original, Stage, At
  <2>2. /\ task'.items = task.items /\ task'.tool = "stage" /\ task'.touched = task.touched
        /\ \/ task'.pc = "cleanup" /\ task'.result = task.result
           \/ task'.pc = "done"
    BY <1>1, <1>4 DEF cleanup_original, Forward, TaskFields
  <2>3. \A n : Has(Pub(n)) => Has(Pub(n))' /\ fs'[Pub(n)] = fs[Pub(n)]
    BY <2>1 DEF Has, Drop, Pub, Hidden
  <2>4. \A n : Sound(n) => Sound(n)'
    BY <2>2, <2>3 DEF Sound, Pub
  <2>5. AllSound'
    BY <2>1, <2>2, <2>4 DEF Healthy, AllSound, Items, Last
  <2> QED BY <1>2, <2>2, <2>5, PackageKept, StillPackaged DEF Healthy, Writing
<1> QED BY <1>3, <1>4

LEMMA HealthyFailing ==
  ASSUME Inv, Healthy, Running, task.tool = "stage",
         \/ unwind \/ staging_io_error \/ staging_interrupt \/ rollback_unpublished
         \/ rollback_take \/ rollback_check \/ rollback_restore \/ rollback_discard
         \/ rollback_io_error
  PROVE  Healthy'
PROOF
<1>1. /\ task.i \in Items /\ DOMAIN task = TaskFields /\ DOMAIN It = ItemFields
      /\ Last = Len(task.items)
  BY ItFacts DEF ItemOK, Last
<1>2. task.result # "committed"
  BY NotCommitted
<1>3. CASE unwind
  <2>1. task' = With([It EXCEPT !.temp = 0], "rollback")
    BY <1>3 DEF unwind
  <2>2. /\ task'.items = [task.items EXCEPT ![task.i] = [It EXCEPT !.temp = 0]]
        /\ task'.pc = "rollback" /\ task'.result = task.result
    BY <1>1, <2>1 DEF With, TaskFields
  <2>3. SamePackage
    BY <1>1, <2>2, PackageKept DEF ItemFields
  <2> QED BY <1>2, <2>2, <2>3, NoClaim DEF Writing
<1>4. CASE staging_interrupt
  <2>1. /\ task'.items = task.items /\ task'.result = task.result
        /\ task'.pc \in {"rollback", "unwind"}
    BY <1>1, <1>4 DEF staging_interrupt, TaskFields
  <2> QED BY <1>2, <2>1, PackageKept, NoClaim DEF Writing
<1>5. CASE \/ rollback_unpublished \/ rollback_take \/ rollback_check \/ rollback_restore
           \/ rollback_discard \/ rollback_io_error
  <2>1. /\ task'.items = task.items /\ task'.result \in {task.result, "failed"}
        /\ task'.pc \in {"rollback", "taken", "restore", "discard", "done"}
    BY <1>1, <1>5 DEF rollback_unpublished, rollback_take, rollback_check, rollback_restore,
      rollback_discard, rollback_io_error, Conflict, Backward, To, TaskFields
  <2> QED BY <1>2, <2>1, PackageKept, NoClaim DEF Writing
<1>6. CASE staging_io_error
  <2>1. CASE task.pc = "cleanup"
    <3>1. /\ task'.items = task.items /\ task'.tool = "stage" /\ task'.touched = task.touched
          /\ fs' = fs
          /\ \/ task'.pc = "cleanup" /\ task'.result = task.result
             \/ task'.pc = "done"
      BY <1>1, <1>6, <2>1 DEF staging_io_error, Forward, TaskFields
    <3>2. AllSound'
      BY <2>1, <3>1 DEF Healthy, AllSound, Items, Last, Sound, Has
    <3> QED BY <1>2, <3>1, <3>2, PackageKept, StillPackaged DEF Healthy, Writing
  <2>2. CASE task.pc = "record"
    <3>1. /\ task'.items = [task.items EXCEPT ![task.i] = Recorded]
          /\ task'.pc = "unwind" /\ task'.result = task.result
      BY <1>1, <1>6, <2>2 DEF staging_io_error, With, TaskFields
    <3>2. Recorded.name = It.name /\ Recorded.payload = It.payload
      BY <1>1 DEF Recorded, ItemFields
    <3>3. SamePackage
      BY <1>1, <3>1, <3>2, PackageKept
    <3> QED BY <1>2, <3>1, <3>3, NoClaim DEF Writing
  <2>3. CASE task.pc \notin {"cleanup", "record"}
    <3>1. /\ task'.items = task.items /\ task'.result \in {task.result, "failed"}
          /\ task'.pc \in {"done", "unwind", "rollback"}
      BY <1>1, <1>6, <2>3 DEF staging_io_error, To, TaskFields
    <3> QED BY <1>2, <3>1, PackageKept, NoClaim DEF Writing
  <2> QED BY <2>1, <2>2, <2>3
<1> QED BY <1>3, <1>4, <1>5, <1>6

LEMMA HealthyStart ==
  ASSUME NEW r, plan_staging(r)
  PROVE  Healthy'
PROOF
<1>1. PICK items : items = [k \in 1 .. Len(Managed) |-> Item(Managed[k], Release(r))]
  OBVIOUS
<1>2. task'.items = items /\ task'.pc = "snapshot" /\ task'.result = "none"
  BY <1>1 DEF plan_staging, Starts, Idle
<1>3. Last' = Len(Managed)
  <2>1. PICK n : n = Len(Managed) /\ n \in Nat
    BY PackageFiles
  <2>2. DOMAIN items = 1 .. n /\ items = [k \in 1 .. n |-> items[k]]
    BY <1>1, <2>1
  <2> QED BY <1>2, <2>1, <2>2, LengthOf DEF Last
<1>4. \A k \in 1 .. Len(Managed) :
        items[k].name = Managed[k] /\ items[k].payload.by = "release"
  BY <1>1 DEF Item, Release, Data
<1> QED BY <1>2, <1>3, <1>4 DEF Healthy, Packaged, Items, Writing

(* What the owner does shows in what it has touched. *)
LEMMA HealthyOwner ==
  ASSUME Inv, Healthy, NEW n, ForeignSave(n) \/ ForeignEdit(n) \/ ForeignDelete(n)
  PROVE  Healthy'
PROOF
<1>1. Running /\ DOMAIN task = TaskFields
  BY DEF ForeignSave, ForeignEdit, ForeignDelete, MayTouch, Running, Inv, TaskInv, Shape
<1>2. \E file : Touch(n, file)
  BY DEF ForeignSave, ForeignEdit, ForeignDelete
<1>3. /\ task'.tool = task.tool /\ task'.pc = task.pc /\ task'.i = task.i
      /\ task'.items = task.items /\ task'.result = task.result
      /\ task'.touched = task.touched \cup {n}
  BY <1>1, <1>2 DEF Touch, TaskFields
<1>4. \A m : m # n => (Has(Pub(m))' <=> Has(Pub(m))) /\ (Has(Pub(m)) => fs'[Pub(m)] = fs[Pub(m)])
  <2>1. (\E file : fs' = Put(fs, Pub(n), file)) \/ fs' = Drop(fs, Pub(n))
    BY DEF ForeignSave, ForeignEdit, ForeignDelete
  <2> QED BY <2>1 DEF Put, Drop, Has, Pub
<1>5. \A m : Sound(m) => Sound(m)'
  BY <1>3, <1>4 DEF Sound, Pub
<1>6. Last' = Last /\ Items' = Items /\ It' = It
  BY <1>3 DEF Last, Items, It
<1> QED BY <1>1, <1>3, <1>5, <1>6 DEF Healthy, Packaged, AllSound, Running

LEMMA HealthyStep ==
  ASSUME Inv, Healthy, [Next]_cardVars
  PROVE  Healthy'
PROOF
<1>1. CASE UNCHANGED cardVars
  BY <1>1 DEF cardVars, Healthy, Packaged, AllSound, Sound, Last, Items, It, Has
<1>2. CASE PresetNext \/ MigrationNext \/ DoctorNext
  BY <1>2, OthersAreOthers DEF Healthy
<1>3. CASE Owner
  BY <1>3, HealthyOwner DEF Owner
<1>4. CASE Crash \/ Finish
  BY <1>4 DEF Crash, Finish, Idle, Healthy
<1>5. CASE StagingNext
  <2>1. ASSUME NEW r, plan_staging(r)
        PROVE  Healthy'
    BY <2>1, HealthyStart
  <2>2. ASSUME \/ snapshot_original \/ skip_unchanged \/ create_temporary \/ fill_temporary
               \/ park_original \/ check_parked \/ publish \/ record_publication
        PROVE  Healthy'
    <3>1. task.tool = "stage" /\ Running
      BY <2>2 DEF snapshot_original, skip_unchanged, create_temporary, fill_temporary,
        park_original, check_parked, publish, record_publication, Stage, At, Running
    <3> QED BY <2>2, <3>1, HealthyWriting
  <2>3. ASSUME verify_installed \/ cleanup_original
        PROVE  Healthy'
    BY <2>3, HealthyVerifying DEF verify_installed, cleanup_original, Stage, At, Running
  <2>4. ASSUME \/ unwind \/ staging_io_error \/ staging_interrupt \/ rollback_unpublished
               \/ rollback_take \/ rollback_check \/ rollback_restore \/ rollback_discard
               \/ rollback_io_error
        PROVE  Healthy'
    <3>1. task.tool = "stage" /\ Running
      BY <2>4 DEF unwind, staging_io_error, staging_interrupt, rollback_unpublished,
        rollback_take, rollback_check, rollback_restore, rollback_discard, rollback_io_error,
        Stage, At, Running
    <3> QED BY <2>4, <3>1, HealthyFailing
  <2> QED BY <1>5, <2>1, <2>2, <2>3, <2>4 DEF StagingNext
<1> QED BY <1>1, <1>2, <1>3, <1>4, <1>5 DEF Next

(* InstalledCardIsHealthy: on a card that apply_staging reports as         *)
(* installed the Doctor finds both definitions in order, also when files   *)
(* were left alone as unchanged, and no generated preset invalid; unless   *)
(* games share a stem its presets can be planned.  The package carries the *)
(* definitions.                                                            *)
THEOREM InstalledIsHealthy ==
  ASSUME \A k \in 1 .. 2 : Definitions[k] \in Members(Managed)
  PROVE  Spec => []InstalledCardIsHealthy
PROOF
<1>1. Inv /\ Healthy => InstalledCardIsHealthy
  <2> SUFFICES ASSUME Inv, Healthy, task.pc = "done", task.tool = "stage",
                      task.result = "committed", task.touched = {}
               PROVE  InstalledCardIsHealthy
    BY DEF InstalledCardIsHealthy
  <2>1. \A k \in 1 .. Len(Managed) : Has(Pub(Managed[k])) /\ fs[Pub(Managed[k])].by = "release"
    BY DEF Healthy, Packaged, AllSound, Sound, Items
  <2>2. \A k \in 1 .. 2 : ValidDefinition(k)
    BY <2>1 DEF Members, ValidDefinition
  <2>3. validate_definitions = {}
    BY <2>2 DEF validate_definitions, ValidDefinition
  <2>4. (\A g \in Stems : ~Ambiguous(g)) => Plannable
    BY <2>2 DEF Plannable
  <2>5. ASSUME NEW kind, NEW f \in inspect_preset_kind(kind), f.code = "preset-invalid"
        PROVE  fs[Pub(f.path)].by # "preset"
    <3>1. \A g \in PresetsOf(kind) : fs[Pub(preset_relative_path(kind, g))].form # "partial"
      BY DEF PresetsOf, Has, Pub, Inv, CardInv, OthersWhole
    <3>2. PICK g \in PresetsOf(kind) :
            /\ f.path = preset_relative_path(kind, g)
            /\ ~MeetsContract(fs[Pub(preset_relative_path(kind, g))])
      BY <2>5 DEF inspect_preset_kind, Finding
    <3> QED BY <3>1, <3>2 DEF MeetsContract
  <2> QED BY <2>3, <2>4, <2>5 DEF InstalledCardIsHealthy
<1>2. Init => Healthy
  BY DEF Init, Idle, Healthy
<1>3. Inv /\ Healthy /\ [Next]_cardVars => Healthy'
  BY HealthyStep
<1> QED BY <1>1, <1>2, <1>3, CardInvariant, PTL DEF Spec

-----------------------------------------------------------------------------
(* What a rollback will find.  `Course` is about the order of the work     *)
(* alone: what a tool has not come to, it has not installed, and what it   *)
(* parks or compares, it has read.                                         *)

Course ==
  /\ task.pc \in {"park", "check"} => It.orig # NoFile
  /\ task.pc \in {"parkpair", "compare"} => It.orig # NoFile /\ It.backup
  /\ Migrating => \A k \in Items : task.items[k].orig = NoFile
  /\ task.tool = "convert" => Last = 1
  /\ task.pc \in {"snapshot", "replan", "prepare", "forced", "allocate", "fillpair"} =>
       \A k \in Items : task.items[k].installed = 0
  /\ task.pc \in {"write", "fill", "park", "check", "publish", "backup", "parkpair",
                  "compare", "install", "create", "sync", "link"} =>
       \A k \in task.i .. Last : task.items[k].installed = 0
  /\ task.pc \in {"record", "unwind", "own", "reread"} =>
       \A k \in task.i + 1 .. Last : task.items[k].installed = 0

(* Ctrl-C turns a transaction back for good.                               *)
HurtTurnsBack ==
  /\ task.hurt \in BOOLEAN
  /\ task.hurt => task.pc \in {"unwind", "rollback", "taken", "restore", "discard",
                               "undo", "undotaken", "undorestore", "done"}

(* The transactions that owe a restore: not the namespace migrator's, not   *)
(* one that Ctrl-C has hit, not one that has committed.                     *)
Owing == /\ task.tool # "namespace" /\ ~task.hurt
         /\ task.pc \notin {"cleanup", "purge", "doctor"}
         /\ task.pc = "done" => task.result = "failed"

(* What the owner knows of item k, unless a conflict is reported for it;    *)
(* what its public name shows now; whether the tool has put its own file    *)
(* there (`Mine`), known from the record or about to be recorded.           *)
Open(k) == {b \in task.before : b.name = task.items[k].name /\ b.name \notin task.report}
Now(k) == Look(Pub(task.items[k].name))
Unrecorded(k) == k = task.i /\ task.pc \in {"record", "own"}
Stands(k) == task.items[k].installed # 0 \/ Unrecorded(k)
Mine(k) == File(IF Unrecorded(k) THEN task.items[k].temp ELSE task.items[k].installed,
                task.items[k].payload)

(* Items the rollback is done with, the one it holds aside, and those whose *)
(* original may be parked without anything in its place.                    *)
Current == {"check", "publish", "taken", "restore", "undotaken", "undorestore", "inspect"}
Rolled(k) == task.pc = "done" \/ (task.pc \in Rolling \cup Taken /\ k > task.i)
OnHand(k) == task.pc \in Taken /\ k = task.i
MayBeAway(k) == (k = task.i /\ task.pc \in Current) \/ (task.tool = "preset" /\ ~Stands(k))

(* The name is as the owner left it; or its file is parked, with nothing or *)
(* with the tool's own file in its place; or what the rollback holds aside  *)
(* is not the tool's, so it will go back or be reported.                    *)
Kept(k, b) == Now(k) = b.file \/ (b.file = NoFile /\ Now(k) \in b.had)
Away(k, b) == Now(k) = NoFile /\ Has(OrigOf(k)) /\ fs[OrigOf(k)] = b.file
Displaced(k, b) == /\ Now(k) = Mine(k)
                   /\ b.file = NoFile \/ (Has(OrigOf(k)) /\ fs[OrigOf(k)] = b.file)
CanRestore(k, b) ==
  \/ Kept(k, b)
  \/ ~Rolled(k) /\ MayBeAway(k) /\ Away(k, b)
  \/ ~Rolled(k) /\ Stands(k) /\ ~OnHand(k) /\ Displaced(k, b)
  \/ OnHand(k) /\ task.pc # "discard" /\ fs[RollOf(k)] # Mine(k)

(* What the owner has known is a file made before and never the tool's own; *)
(* what is parked, under a name the tool has read or recorded, is one the   *)
(* owner has known.                                                         *)
Records ==
  \A b \in task.before : /\ DOMAIN b = {"name", "file", "had"} /\ b.file \in b.had
                         /\ \A f \in b.had : f \in Files /\ Made(f)
NotOurs(k) == \A b \in task.before :
  /\ task.items[k].temp # 0 => File(task.items[k].temp, task.items[k].payload) \notin b.had
  /\ task.items[k].installed # 0 => File(task.items[k].installed, task.items[k].payload) \notin b.had
ParkedWell(k) == Has(OrigOf(k)) =>
  /\ task.items[k].orig # NoFile
  /\ task.tool = "preset" => task.items[k].backup
  /\ \A b \in Open(k) : fs[OrigOf(k)] \in b.had
Within(k) == \A b \in Open(k) : CanRestore(k, b)
AllNamed == \A b \in task.before : \E k \in Items : task.items[k].name = b.name

Restoring ==
  /\ HurtTurnsBack
  /\ Owing => /\ Course /\ Records /\ AllNamed
              /\ \A k \in Items : NotOurs(k) /\ ParkedWell(k) /\ Within(k)

-----------------------------------------------------------------------------
(* A step of the tool on one item: the others stay as they are.             *)

OwnNames == {Pub(It.name), TempOf(task.i), OrigOf(task.i), RollOf(task.i)}
Frame ==
  /\ task'.before = task.before /\ task.report \subseteq task'.report
  /\ task'.tool = task.tool /\ task'.hurt = task.hurt
  /\ spent'.runs = spent.runs /\ spent'.ids \in Nat /\ spent'.ids >= spent.ids
  /\ Last' = Last /\ Items' = Items /\ NamesKept
  /\ \A k \in Items : k # task.i => task'.items[k] = task.items[k]
  /\ task'.items[task.i].payload = It.payload
  /\ task'.items[task.i].temp \in {It.temp, 0, NewId}
  /\ task'.items[task.i].installed \in {It.installed, It.temp}
  /\ OnlyAt(OwnNames)

(* Control that goes to another item goes to its beginning; an item that    *)
(* the rollback skips was not begun.                                        *)
Steady ==
  /\ task'.i # task.i => task'.pc \notin Current \cup Taken \cup {"record", "own"}
  /\ \A k \in Items : k # task.i /\ Rolled(k)' /\ ~Rolled(k) =>
       task.items[k].installed = 0 /\ (task.tool = "preset" => ~Has(OrigOf(k)))

LEMMA FrameNames ==
  ASSUME Inv, Running, Frame, NEW k \in Items, k # task.i
  PROVE  /\ Now(k)' = Now(k)
         /\ Has(OrigOf(k))' = Has(OrigOf(k))
         /\ Has(OrigOf(k)) => fs[OrigOf(k)]' = fs[OrigOf(k)]
         /\ task'.items[k] = task.items[k]
PROOF
<1>1. task'.items[k] = task.items[k] /\ OrigOf(k)' = OrigOf(k) /\ Pub(task.items[k].name)' = Pub(task.items[k].name)
  BY DEF Frame, OrigOf, Hidden, Pub
<1>2. task.items[k].name # It.name
  BY ItFacts DEF Inv, TaskInv, Shape
<1>3. OrigOf(k) \notin OwnNames /\ Pub(task.items[k].name) \notin OwnNames
  BY <1>2, ItFacts DEF OwnNames, OrigOf, Hidden, Pub
<1> QED BY <1>1, <1>3 DEF Frame, OnlyAt, Now, Look, Has, NoFile

LEMMA OthersWithin ==
  ASSUME Inv, Running, Frame, Steady, NEW k \in Items, k # task.i, Within(k)
  PROVE  Within(k)'
PROOF
<1>1. /\ Now(k)' = Now(k) /\ Has(OrigOf(k))' = Has(OrigOf(k))
      /\ Has(OrigOf(k)) => fs[OrigOf(k)]' = fs[OrigOf(k)]
      /\ task'.items[k] = task.items[k]
  BY FrameNames
<1>2. NoFile' = NoFile
  BY DEF NoFile
<1>3. ~OnHand(k) /\ ~OnHand(k)' /\ ~Unrecorded(k) /\ ~Unrecorded(k)'
  BY DEF OnHand, Unrecorded, Steady
<1>4. Stands(k)' = Stands(k) /\ Mine(k)' = Mine(k)
  BY <1>1, <1>3 DEF Stands, Mine, File
<1>5. MayBeAway(k) <=> task.tool = "preset" /\ ~Stands(k)
  BY DEF MayBeAway
<1>6. task.tool = "preset" /\ ~Stands(k) => MayBeAway(k)'
  BY <1>4 DEF MayBeAway, Frame
<1>7. Stands(k) <=> task.items[k].installed # 0
  BY <1>3 DEF Stands
<1> SUFFICES ASSUME NEW b \in Open(k)'
             PROVE  CanRestore(k, b)'
  BY DEF Within
<1>8. b \in Open(k)
  BY <1>1 DEF Open, Frame
<1>9. CanRestore(k, b)
  BY <1>8 DEF Within
<1>10. Kept(k, b)' = Kept(k, b) /\ Away(k, b)' = Away(k, b) /\ Displaced(k, b)' = Displaced(k, b)
  BY <1>1, <1>2, <1>4 DEF Kept, Away, Displaced
<1>11. CASE Kept(k, b)
  BY <1>10, <1>11 DEF CanRestore
<1>12. CASE ~Rolled(k) /\ MayBeAway(k) /\ Away(k, b)
  <2>1. Has(OrigOf(k)) /\ task.tool = "preset"
    BY <1>5, <1>12 DEF Away
  <2>2. ~Rolled(k)'
    BY <2>1, <1>12 DEF Steady
  <2> QED BY <1>5, <1>6, <1>10, <1>12, <2>2 DEF CanRestore
<1>13. CASE ~Rolled(k) /\ Stands(k) /\ ~OnHand(k) /\ Displaced(k, b)
  <2>1. ~Rolled(k)'
    BY <1>7, <1>13 DEF Steady
  <2> QED BY <1>3, <1>4, <1>10, <1>13, <2>1 DEF CanRestore
<1> QED BY <1>3, <1>9, <1>11, <1>12, <1>13 DEF CanRestore

LEMMA NotOursKept ==
  ASSUME Inv, Running, Frame, Records, NEW k \in Items, NotOurs(k), NotOurs(task.i)
  PROVE  NotOurs(k)'
PROOF
<1>1. CASE k # task.i
  BY <1>1 DEF Frame, NotOurs, File
<1>2. CASE k = task.i
  <2>1. It = task.items[task.i] /\ spent.ids \in Nat /\ ItemOK(It)
    BY ItFacts DEF Inv, CardInv
  <2>2. PICK it : it = task'.items[k]
    OBVIOUS
  <2>3. /\ it.payload = It.payload /\ it.temp \in {It.temp, 0, NewId}
        /\ it.installed \in {It.installed, It.temp}
    BY <1>2, <2>2 DEF Frame
  <2>4. \A b \in task.before : File(NewId, It.payload) \notin b.had
    <3>1. File(NewId, It.payload).id = spent.ids + 1
      BY DEF File, NewId
    <3> QED BY <2>1, <3>1 DEF Records, Made, Files
  <2>5. \A b \in task.before : /\ it.temp # 0 => File(it.temp, it.payload) \notin b.had
                               /\ it.installed # 0 => File(it.installed, it.payload) \notin b.had
    BY <1>2, <2>1, <2>3, <2>4 DEF NotOurs
  <2> QED BY <2>2, <2>5 DEF Frame, NotOurs, File
<1> QED BY <1>1, <1>2

LEMMA Follows ==
  ASSUME Inv, Running, Owing, Restoring, Frame, Steady, NEW j, j = task.i,
         Course', ParkedWell(j)', Within(j)'
  PROVE  Restoring'
PROOF
<1>1. /\ Records /\ AllNamed /\ HurtTurnsBack
      /\ \A k \in Items : NotOurs(k) /\ ParkedWell(k) /\ Within(k)
  BY DEF Restoring
<1>2. Records'
  BY <1>1 DEF Inv, CardInv, Records, Frame, Made, Dated, Files
<1>3. AllNamed'
  BY <1>1 DEF AllNamed, Frame, NamesKept
<1>4. \A k \in Items : NotOurs(k)'
  BY <1>1, NotOursKept, ItFacts
<1>5. ASSUME NEW k \in Items, k # task.i
      PROVE  ParkedWell(k)'
  <2>1. /\ Has(OrigOf(k))' = Has(OrigOf(k)) /\ task'.items[k] = task.items[k]
        /\ Has(OrigOf(k)) => fs[OrigOf(k)]' = fs[OrigOf(k)]
    BY <1>5, FrameNames
  <2>2. Open(k)' \subseteq Open(k) /\ NoFile' = NoFile /\ task'.tool = task.tool
    BY <2>1 DEF Open, Frame, NoFile
  <2> QED BY <1>1, <2>1, <2>2 DEF ParkedWell
<1>6. \A k \in Items : k # task.i => Within(k)'
  BY <1>1, OthersWithin
<1>7. Items' = Items /\ HurtTurnsBack'
  BY <1>1 DEF Frame, HurtTurnsBack, Owing
<1> QED BY <1>2, <1>3, <1>4, <1>5, <1>6, <1>7 DEF Restoring

-----------------------------------------------------------------------------
(* What a step may do to its own item, j.                                   *)

CalmAt(j) == /\ Now(j)' = Now(j) /\ Has(OrigOf(j))' = Has(OrigOf(j))
             /\ Has(OrigOf(j)) => fs[OrigOf(j)]' = fs[OrigOf(j)]
SameOriginal(j) == /\ task'.items[j].orig = task.items[j].orig
                   /\ task.items[j].backup => task'.items[j].backup
OriginalStays(j) == Has(OrigOf(j))' => /\ Has(OrigOf(j)) /\ SameOriginal(j)
                                       /\ fs[OrigOf(j)]' = fs[OrigOf(j)]

LEMMA CalmNames ==
  ASSUME Inv, Running, Frame, OnlyAt({TempOf(task.i), RollOf(task.i)}), NEW j, j = task.i
  PROVE  CalmAt(j)
PROOF
<1>1. j \in Items
  BY ItFacts
<1>2. OrigOf(j)' = OrigOf(j) /\ Pub(task.items[j].name)' = Pub(task.items[j].name)
  BY <1>1 DEF Frame, NamesKept, OrigOf, Hidden, Pub
<1>3. /\ OrigOf(j) \notin {TempOf(task.i), RollOf(task.i)}
      /\ Pub(task.items[j].name) \notin {TempOf(task.i), RollOf(task.i)}
  BY DEF TempOf, RollOf, OrigOf, Hidden, Pub
<1> QED BY <1>2, <1>3 DEF OnlyAt, CalmAt, Now, Look, Has, NoFile

LEMMA OpenShrinks ==
  ASSUME Frame, NEW j \in Items
  PROVE  Open(j)' \subseteq Open(j) /\ NoFile' = NoFile
PROOF BY DEF Open, Frame, NamesKept, NoFile

LEMMA StaysParkedWell ==
  ASSUME Frame, NEW j \in Items, OriginalStays(j), ParkedWell(j)
  PROVE  ParkedWell(j)'
PROOF BY OpenShrinks DEF OriginalStays, SameOriginal, ParkedWell, Frame

(* Nothing happens to the item's public name or its original.               *)
LEMMA QuietTool ==
  ASSUME Inv, Running, Owing, Restoring, Frame, Steady, Course', NEW j, j = task.i,
         OnlyAt({TempOf(task.i), RollOf(task.i)}), Has(OrigOf(j)) => SameOriginal(j),
         MayBeAway(j) /\ Has(OrigOf(j)) /\ ~Rolled(j) => MayBeAway(j)' /\ ~Rolled(j)',
         Stands(j) /\ ~OnHand(j) /\ ~Rolled(j) =>
           Stands(j)' /\ Mine(j)' = Mine(j) /\ ~OnHand(j)' /\ ~Rolled(j)',
         OnHand(j) /\ task.pc # "discard" => fs[RollOf(j)] = Mine(j)
  PROVE  Restoring'
PROOF
<1>1. j \in Items /\ ParkedWell(j) /\ Within(j)
  BY ItFacts DEF Restoring
<1>2. CalmAt(j)
  BY CalmNames
<1>3. ParkedWell(j)'
  BY <1>1, <1>2, StaysParkedWell DEF CalmAt, OriginalStays
<1>4. Within(j)'
  <2> SUFFICES ASSUME NEW b \in Open(j)'
               PROVE  CanRestore(j, b)'
    BY DEF Within
  <2>1. b \in Open(j) /\ NoFile' = NoFile
    BY <1>1, OpenShrinks
  <2>2. CanRestore(j, b)
    BY <1>1, <2>1 DEF Within
  <2>3. Kept(j, b) => Kept(j, b)'
    BY <1>2, <2>1 DEF Kept, CalmAt
  <2>4. Away(j, b) => Away(j, b)' /\ Has(OrigOf(j))
    BY <1>2, <2>1 DEF Away, CalmAt
  <2>5. Displaced(j, b) /\ Mine(j)' = Mine(j) => Displaced(j, b)'
    BY <1>2, <2>1 DEF Displaced, CalmAt
  <2> QED BY <2>2, <2>3, <2>4, <2>5 DEF CanRestore
<1> QED BY <1>3, <1>4, Follows

(* A conflict is reported for the item.                                     *)
LEMMA ReportTool ==
  ASSUME Inv, Running, Owing, Restoring, Frame, Steady, Course', NEW j, j = task.i,
         task'.report = Report(It.name), OriginalStays(j)
  PROVE  Restoring'
PROOF
<1>1. j \in Items /\ ParkedWell(j)
  BY ItFacts DEF Restoring
<1>2. ParkedWell(j)'
  BY <1>1, StaysParkedWell
<1>3. Open(j)' = {}
  BY <1>1, ItFacts DEF Open, Report, Frame, NamesKept
<1>4. Within(j)'
  BY <1>3 DEF Within
<1> QED BY <1>2, <1>4, Follows

(* The file under the public name is parked, whatever it is.                *)
LEMMA ParkTool ==
  ASSUME Inv, Running, Owing, Restoring, Frame, Steady, Course', NEW j, j = task.i,
         task.pc \in {"park", "parkpair"}, task'.pc \in {"check", "compare"}, task'.i = task.i,
         task'.items = task.items, It.installed = 0,
         It.orig # NoFile, task.tool = "preset" => It.backup,
         task'.pc = "compare" => task.tool = "preset",
         NEW from, NEW to, from = Pub(It.name), to = OrigOf(j),
         Has(from), Renamed(from, to)
  PROVE  Restoring'
PROOF
<1>1. j \in Items /\ ParkedWell(j) /\ Within(j) /\ It = task.items[j] /\ Records
  BY ItFacts DEF Restoring
<1>2. OrigOf(j)' = OrigOf(j) /\ Pub(It.name)' = Pub(It.name) /\ task'.items[j] = It
      /\ from # to /\ Pub(task.items[j].name)' = from
  BY <1>1 DEF Frame, NamesKept, OrigOf, Hidden, Pub, It
<1>3. /\ DOMAIN fs' = (DOMAIN fs \ {from}) \cup {to} /\ fs'[to] = fs[from]
  BY DEF Renamed, Move
<1>4. Now(j) = fs[from] /\ Now(j)' = NoFile /\ Has(OrigOf(j))' /\ fs[OrigOf(j)]' = Now(j)
  BY <1>1, <1>2, <1>3 DEF Now, Look, Has, NoFile
<1>5. ~Has(OrigOf(j)) /\ ~Stands(j) /\ ~OnHand(j)
  BY <1>1 DEF Inv, TaskInv, Shape, Running, Ahead, Items, Stands, Unrecorded, OnHand, Taken
<1>6. ASSUME NEW b \in Open(j)
      PROVE  Kept(j, b) /\ Now(j) \in b.had
  <2>1. b.file \in b.had
    BY DEF Open, Records, Restoring
  <2>2. Kept(j, b)
    BY <1>1, <1>5 DEF Within, CanRestore, Away
  <2> QED BY <2>1, <2>2 DEF Kept
<1>7. Open(j)' \subseteq Open(j) /\ NoFile' = NoFile
  BY <1>1, OpenShrinks
<1>8. ParkedWell(j)'
  BY <1>1, <1>2, <1>4, <1>6, <1>7 DEF ParkedWell, Frame
<1>9. Within(j)'
  <2> SUFFICES ASSUME NEW b \in Open(j)'
               PROVE  CanRestore(j, b)'
    BY DEF Within
  <2>1. Kept(j, b)
    BY <1>6, <1>7
  <2>2. CASE b.file = NoFile
    BY <1>4, <1>7, <2>2 DEF CanRestore, Kept
  <2>3. CASE b.file # NoFile
    <3>1. Away(j, b)'
      BY <1>4, <1>7, <2>1, <2>3 DEF Kept, Away
    <3>2. ~Rolled(j)' /\ MayBeAway(j)'
      BY <1>1, <1>2 DEF Rolled, MayBeAway, Current, Rolling, Taken, Stands, Unrecorded, Frame
    <3> QED BY <3>1, <3>2 DEF CanRestore
  <2> QED BY <2>2, <2>3
<1> QED BY <1>8, <1>9, Follows

(* The parked file returns to its free name.                                *)
LEMMA ReturnTool ==
  ASSUME Inv, Running, Owing, Restoring, Frame, Steady, Course', NEW j, j = task.i,
         NEW to, to = Pub(It.name), Has(OrigOf(j)), ~Has(to), ~Has(OrigOf(j))',
         to \in DOMAIN fs', fs'[to] = fs[OrigOf(j)],
         Stands(j) => OnHand(j),
         OnHand(j) /\ task.pc # "discard" => fs[RollOf(j)] = Mine(j)
  PROVE  Restoring'
PROOF
<1>1. j \in Items /\ ParkedWell(j) /\ Within(j) /\ It = task.items[j]
  BY ItFacts DEF Restoring
<1>2. Pub(task.items[j].name)' = to
  BY <1>1, ItFacts DEF Frame, NamesKept, Pub, It
<1>3. Now(j) = NoFile /\ Now(j)' = fs[OrigOf(j)]
  BY <1>1, <1>2 DEF Now, Look, Has
<1>4. Open(j)' \subseteq Open(j) /\ NoFile' = NoFile
  BY <1>1, OpenShrinks
<1>5. ParkedWell(j)'
  BY DEF ParkedWell
<1>6. Within(j)'
  <2> SUFFICES ASSUME NEW b \in Open(j)
               PROVE  Kept(j, b)'
    BY <1>4 DEF Within, CanRestore
  <2>1. fs[OrigOf(j)] \in b.had
    BY <1>1 DEF ParkedWell
  <2>2. Kept(j, b) \/ Away(j, b)
    BY <1>1 DEF Within, CanRestore
  <2> QED BY <1>3, <1>4, <2>1, <2>2 DEF Kept, Away
<1> QED BY <1>5, <1>6, Follows

(* The tool's file takes the free name.                                     *)
LEMMA PublishTool ==
  ASSUME Inv, Running, Owing, Restoring, Frame, Steady, Course', NEW j, j = task.i,
         NEW from, NEW to, from = TempOf(j), to = Pub(It.name), Ready(j), ~Has(to), Renamed(from, to),
         OrigOf(j) # from, SameOriginal(j), ~Stands(j), ~OnHand(j),
         Stands(j)', ~OnHand(j)', ~Rolled(j)', NEW mine, mine = File(It.temp, It.payload),
         Mine(j)' = mine
  PROVE  Restoring'
PROOF
<1>1. j \in Items /\ ParkedWell(j) /\ Within(j) /\ It = task.items[j]
  BY ItFacts DEF Restoring
<1>2. Pub(task.items[j].name)' = to /\ OrigOf(j)' = OrigOf(j) /\ OrigOf(j) # to
  BY <1>1, ItFacts DEF Frame, NamesKept, Pub, It, OrigOf, Hidden
<1>3. Has(from) /\ fs[from] = mine
  BY <1>1 DEF Ready
<1>4. /\ DOMAIN fs' = (DOMAIN fs \ {from}) \cup {to} /\ fs'[to] = fs[from]
      /\ \A m \in DOMAIN fs \ {from, to} : fs'[m] = fs[m]
  BY DEF Renamed, Move
<1>5. Now(j) = NoFile /\ Now(j)' = mine
  BY <1>1, <1>2, <1>3, <1>4 DEF Now, Look, Has
<1>6. /\ Has(OrigOf(j))' = Has(OrigOf(j))
      /\ Has(OrigOf(j)) => fs[OrigOf(j)]' = fs[OrigOf(j)]
  BY <1>2, <1>4 DEF Has
<1>7. Open(j)' \subseteq Open(j) /\ NoFile' = NoFile
  BY <1>1, OpenShrinks
<1>8. ParkedWell(j)'
  BY <1>1, <1>6, StaysParkedWell DEF OriginalStays
<1>9. Within(j)'
  <2> SUFFICES ASSUME NEW b \in Open(j)
               PROVE  Displaced(j, b)'
    BY <1>7 DEF Within, CanRestore
  <2>1. Kept(j, b) \/ Away(j, b)
    BY <1>1 DEF Within, CanRestore
  <2>2. b.file = NoFile \/ (Has(OrigOf(j)) /\ fs[OrigOf(j)] = b.file)
    BY <1>5, <2>1 DEF Kept, Away
  <2> QED BY <1>5, <1>6, <1>7, <2>2 DEF Displaced
<1> QED BY <1>8, <1>9, Follows

(* The rollback takes aside what stands under the name.                     *)
LEMMA TakeTool ==
  ASSUME Inv, Running, Owing, Restoring, Frame, Steady, Course', NEW j, j = task.i,
         task.pc \in Rolling, task'.pc \in {"taken", "undotaken", "inspect"}, task'.i = task.i,
         task'.items = task.items, It.installed # 0,
         NEW from, NEW to, from = Pub(It.name), to = RollOf(j), Has(from), Renamed(from, to)
  PROVE  Restoring'
PROOF
<1>1. j \in Items /\ ParkedWell(j) /\ Within(j) /\ It = task.items[j] /\ Records /\ NotOurs(j)
  BY ItFacts DEF Restoring
<1>2. /\ Pub(task.items[j].name)' = from /\ OrigOf(j)' = OrigOf(j) /\ RollOf(j)' = RollOf(j)
      /\ OrigOf(j) # from /\ OrigOf(j) # to /\ from # to
  BY <1>1, ItFacts DEF Frame, NamesKept, Pub, It, OrigOf, RollOf, Hidden
<1>3. /\ DOMAIN fs' = (DOMAIN fs \ {from}) \cup {to} /\ fs'[to] = fs[from]
      /\ \A m \in DOMAIN fs \ {from, to} : fs'[m] = fs[m]
  BY DEF Renamed, Move
<1>4. Now(j) = fs[from] /\ Now(j)' = NoFile /\ fs[RollOf(j)]' = Now(j)
  BY <1>1, <1>2, <1>3 DEF Now, Look, Has, NoFile
<1>5. /\ Has(OrigOf(j))' = Has(OrigOf(j))
      /\ Has(OrigOf(j)) => fs[OrigOf(j)]' = fs[OrigOf(j)]
  BY <1>2, <1>3 DEF Has
<1>6. Open(j)' \subseteq Open(j) /\ NoFile' = NoFile
  BY <1>1, OpenShrinks
<1>7. ParkedWell(j)'
  BY <1>1, <1>5, StaysParkedWell DEF OriginalStays, SameOriginal
<1>8. ~Unrecorded(j) /\ Mine(j)' = Mine(j) /\ Mine(j) = File(It.installed, It.payload)
  BY <1>1 DEF Unrecorded, Rolling, Mine, File
<1>9. OnHand(j)' /\ ~Rolled(j)' /\ MayBeAway(j)' /\ task'.pc # "discard"
  BY ItFacts DEF OnHand, Rolled, Taken, Rolling, MayBeAway, Current
<1>10. Within(j)'
  <2> SUFFICES ASSUME NEW b \in Open(j)
               PROVE  CanRestore(j, b)'
    BY <1>6 DEF Within
  <2>1. CASE Now(j) # Mine(j)
    BY <1>4, <1>8, <1>9, <2>1 DEF CanRestore
  <2>2. CASE Now(j) = Mine(j)
    <3>1. Now(j) \notin b.had /\ b.file \in b.had
      BY <1>1, <1>8, <2>2 DEF Open, NotOurs, Records
    <3>2. ~Kept(j, b) /\ ~Away(j, b) /\ ~OnHand(j)
      <4>1. Now(j) # NoFile
        BY <1>4 DEF Inv, CardInv, FilesKnown, Has, NoFile
      <4> QED BY <3>1, <4>1 DEF Kept, Away, OnHand, Taken, Rolling
    <3>3. Displaced(j, b)
      BY <1>1, <3>2 DEF Within, CanRestore
    <3>4. b.file = NoFile \/ (Has(OrigOf(j)) /\ fs[OrigOf(j)] = b.file)
      BY <3>3 DEF Displaced
    <3>5. Kept(j, b)' \/ Away(j, b)'
      BY <1>4, <1>5, <1>6, <3>4 DEF Kept, Away
    <3> QED BY <1>9, <3>5 DEF CanRestore
  <2> QED BY <2>1, <2>2
<1> QED BY <1>7, <1>10, Follows

-----------------------------------------------------------------------------
(* The facts about a step that all of this needs.                           *)

SameTask == /\ task'.before = task.before /\ task.report \subseteq task'.report
            /\ task'.tool = task.tool /\ task'.hurt = task.hurt
            /\ spent'.runs = spent.runs /\ spent'.ids \in Nat /\ spent'.ids >= spent.ids

LEMMA FrameKept ==
  ASSUME Inv, Running, SameTask, KeepsItems, NEW S, S \subseteq OwnNames, OnlyAt(S)
  PROVE  Frame
PROOF
<1>1. Last' = Last /\ Items' = Items /\ NamesKept
  BY DEF KeepsItems, Last, Items, NamesKept
<1>2. OnlyAt(OwnNames)
  BY DEF OnlyAt
<1>3. task'.items[task.i] = It
  BY DEF KeepsItems, It
<1> QED BY <1>1, <1>2, <1>3 DEF SameTask, KeepsItems, Frame

LEMMA FrameSet ==
  ASSUME Inv, Running, SameTask, NEW it, SetsItem(it), NEW S, S \subseteq OwnNames, OnlyAt(S),
         it.name = It.name, it.payload = It.payload, it.temp \in {It.temp, 0, NewId},
         it.installed \in {It.installed, It.temp}
  PROVE  Frame /\ task'.items[task.i] = it
PROOF
<1>1. Last \in Nat /\ DOMAIN task.items = 1 .. Last /\ Last = Len(task.items) /\ task.i \in 1 .. Last
  BY ItFacts DEF Last
<1>2. /\ DOMAIN task'.items = 1 .. Last /\ task'.items[task.i] = it
      /\ \A k \in Items : k # task.i => task'.items[k] = task.items[k]
  BY <1>1 DEF SetsItem, Items
<1>3. Last' = Last
  <2>1. PICK n : n = Last
    OBVIOUS
  <2>2. PICK s : s = task'.items
    OBVIOUS
  <2>3. n \in Nat /\ DOMAIN s = 1 .. n /\ s = [k \in 1 .. n |-> s[k]]
    BY <1>1, <1>2, <2>1, <2>2 DEF SetsItem
  <2> QED BY <2>1, <2>2, <2>3, LengthOf DEF Last
<1>4. Items' = Items
  BY <1>3 DEF Items
<1>5. NamesKept
  BY <1>1, <1>2 DEF NamesKept, It, Items
<1>6. OnlyAt(OwnNames)
  BY DEF OnlyAt
<1> QED BY <1>2, <1>3, <1>4, <1>5, <1>6 DEF SameTask, Frame

Untouched == {"snapshot", "replan", "prepare", "forced", "allocate", "fillpair"}
Coming == {"write", "fill", "park", "check", "publish", "backup", "parkpair", "compare",
           "install", "create", "sync", "link"}
Going == {"record", "unwind", "own", "reread"}
Turning == Rolling \cup Taken \cup {"done", "verify", "confirm", "complete"}

LEMMA CourseTurns ==
  ASSUME Inv, Running, Course, Frame, task'.pc \in Turning,
         Migrating => task'.items[task.i].orig = It.orig
  PROVE  Course'
PROOF
<1>1. NoFile' = NoFile /\ Migrating' = Migrating
  BY DEF NoFile, Migrating, Frame
<1>2. Migrating => \A k \in Items : task'.items[k].orig = NoFile
  BY ItFacts DEF Course, Frame
<1>3. task'.pc \notin Untouched \cup Coming \cup Going
  BY DEF Turning, Rolling, Taken, Untouched, Coming, Going
<1> QED BY <1>1, <1>2, <1>3 DEF Course, Frame, Untouched, Coming, Going

LEMMA CourseGoes ==
  ASSUME Inv, Running, Course, Frame, task'.i \in Items,
         Migrating => task'.items[task.i].orig = It.orig,
         NEW it, it = task'.items[task.i],
         task'.pc \in {"park", "check"} => task'.i = task.i /\ it.orig # NoFile,
         task'.pc \in {"parkpair", "compare"} => task'.i = task.i /\ it.orig # NoFile /\ it.backup,
         task'.pc \in Untouched => task.pc \in Untouched /\ it.installed = It.installed,
         task'.pc \in Coming =>
           \/ task.pc \in Untouched /\ it.installed = It.installed
           \/ task.pc \in Coming /\ task'.i = task.i /\ it.installed = It.installed
           \/ task.pc \in Coming \cup Going /\ task'.i = task.i + 1,
         task'.pc \in Going => task.pc \in Coming \cup Going /\ task'.i = task.i
  PROVE  Course'
PROOF
<1>1. NoFile' = NoFile /\ Migrating' = Migrating
  BY DEF NoFile, Migrating, Frame
<1>2. /\ Last \in Nat /\ Items = 1 .. Last /\ task.i \in Items /\ It = task.items[task.i]
      /\ Last' = Last /\ Items' = Items
      /\ \A k \in Items : k # task.i => task'.items[k] = task.items[k]
  BY ItFacts DEF Frame
<1>3. Migrating => \A k \in Items : task'.items[k].orig = NoFile
  BY <1>2 DEF Course
<1>4. task'.i = task.i => It' = it
  BY DEF It
<1>5. task'.pc \in Untouched => \A k \in Items : task'.items[k].installed = 0
  BY <1>2 DEF Course, Untouched
<1>6. task'.pc \in Coming => \A k \in task'.i .. Last : task'.items[k].installed = 0
  <2> SUFFICES ASSUME task'.pc \in Coming, NEW k \in task'.i .. Last
               PROVE  task'.items[k].installed = 0
    OBVIOUS
  <2>1. CASE task.pc \in Untouched /\ it.installed = It.installed
    <3>1. \A n \in Items : task.items[n].installed = 0
      BY <2>1 DEF Course, Untouched
    <3> QED BY <1>2, <2>1, <3>1
  <2>2. CASE task.pc \in Coming /\ task'.i = task.i /\ it.installed = It.installed
    <3>1. \A n \in task.i .. Last : task.items[n].installed = 0
      BY <2>2 DEF Course, Coming
    <3> QED BY <1>2, <2>2, <3>1
  <2>3. CASE task.pc \in Coming \cup Going /\ task'.i = task.i + 1
    <3>1. \A n \in task.i + 1 .. Last : task.items[n].installed = 0
      BY <1>2, <2>3 DEF Course, Coming, Going
    <3> QED BY <1>2, <2>3, <3>1
  <2> QED BY <2>1, <2>2, <2>3
<1>7. task'.pc \in Going => \A k \in task'.i + 1 .. Last : task'.items[k].installed = 0
  <2> SUFFICES ASSUME task'.pc \in Going, NEW k \in task.i + 1 .. Last
               PROVE  task.items[k].installed = 0
    BY <1>2
  <2> QED BY <1>2 DEF Course, Coming, Going
<1> QED BY <1>1, <1>2, <1>3, <1>4, <1>5, <1>6, <1>7 DEF Course, Frame, Untouched, Coming, Going

LEMMA SteadyOn ==
  ASSUME task'.pc \notin Rolling \cup Taken \cup {"done"},
         task'.i # task.i => task'.pc \notin Current \cup {"record", "own"}
  PROVE  Steady
PROOF BY DEF Steady, Rolled

LEMMA SteadyFromLast ==
  ASSUME Inv, Running, task'.pc \in Rolling, task'.i = Last
  PROVE  Steady
PROOF
<1>1. Last \in Nat /\ Items = 1 .. Last
  BY ItFacts
<1> QED BY <1>1 DEF Steady, Rolled, Rolling, Taken, Current

LEMMA SteadyBack ==
  ASSUME Inv, Running, task.pc \in Rolling \cup Taken,
         \/ task'.pc \in Rolling /\ task'.i = task.i - 1
         \/ task'.pc \in Rolling \cup Taken /\ task'.i = task.i
         \/ task'.pc = "done" /\ task.i = 1 /\ task'.i = task.i
  PROVE  Steady
PROOF
<1>1. Last \in Nat /\ Items = 1 .. Last /\ task.i \in Items
  BY ItFacts
<1> QED BY <1>1 DEF Steady, Rolled, Rolling, Taken, Current

LEMMA SteadyTurn ==
  ASSUME Inv, Running, Course, task.tool # "preset", task.pc \in Coming \cup Going,
         task'.pc \in Rolling, task'.i = task.i
  PROVE  Steady
PROOF
<1>1. Last \in Nat /\ Items = 1 .. Last /\ task.i \in Items
  BY ItFacts
<1>2. \A k \in task.i + 1 .. Last : task.items[k].installed = 0
  BY <1>1 DEF Course, Coming, Going
<1> QED BY <1>1, <1>2 DEF Steady, Rolled, Rolling, Taken

LEMMA SteadyUntouched ==
  ASSUME Inv, Running, Course, task.pc \in Untouched, task'.pc = "done", task'.i = task.i,
         task.pc = "replan" => task.tool # "preset"
  PROVE  Steady
PROOF
<1>1. \A k \in Items : task.items[k].installed = 0
  BY DEF Course, Untouched
<1>2. task.tool = "preset" => \A k \in Items : ~Has(OrigOf(k))
  BY UnusedNames DEF Inv, TaskInv, Ahead, Untouched
<1> QED BY <1>1, <1>2 DEF Steady, Rolling, Taken

(* Nothing happens to the item at all.                                      *)
Special == Current \cup Taken \cup {"record", "own"}
LEMMA PlainTool ==
  ASSUME Inv, Running, Owing, Restoring, Frame, Steady, Course', NEW j, j = task.i,
         OnlyAt({TempOf(task.i), RollOf(task.i)}), Has(OrigOf(j)) => SameOriginal(j),
         task.pc \notin Special, task'.pc \notin Taken \cup {"record", "own"},
         task'.items[j].installed = It.installed,
         ~Rolled(j)' \/ (It.installed = 0 /\ (task.tool = "preset" => ~Has(OrigOf(j))))
  PROVE  Restoring'
PROOF
<1>1. It = task.items[j] /\ task'.items[j].payload = It.payload /\ task'.tool = task.tool
  BY ItFacts DEF Frame
<1>2. ~Unrecorded(j) /\ ~Unrecorded(j)' /\ ~OnHand(j) /\ ~OnHand(j)'
  BY DEF Unrecorded, OnHand, Special
<1>3. Stands(j)' = Stands(j) /\ Mine(j)' = Mine(j) /\ (Stands(j) <=> It.installed # 0)
  BY <1>1, <1>2 DEF Stands, Mine, File
<1>4. /\ MayBeAway(j) <=> (task.tool = "preset" /\ ~Stands(j))
      /\ task.tool = "preset" /\ ~Stands(j) => MayBeAway(j)'
  BY <1>1, <1>3 DEF MayBeAway, Special
<1> QED BY <1>2, <1>3, <1>4, QuietTool

-----------------------------------------------------------------------------
(* How control can move while nothing happens to the item's names.          *)

GoesOn(it) ==
  /\ task'.i \in Items
  /\ task'.pc \in Untouched \cup Coming \cup Going \cup {"verify", "confirm", "complete"}
  /\ task'.pc \in {"park", "check"} => task'.i = task.i /\ it.orig # NoFile
  /\ task'.pc = "publish" => task'.i = task.i
  /\ task'.pc \in {"parkpair", "compare"} => task'.i = task.i /\ it.orig # NoFile /\ it.backup
  /\ task'.pc \in Untouched => task.pc \in Untouched
  /\ task'.pc \in Coming =>
       \/ task.pc \in Untouched
       \/ task.pc \in Coming /\ task'.i = task.i
       \/ task.pc \in Coming \cup Going /\ task'.i = task.i + 1
  /\ task'.pc \in Going => task.pc \in Coming \cup Going /\ task'.i = task.i
TurnsToLast == task'.pc \in Rolling /\ task'.i = Last
TurnsHere == /\ task.tool # "preset" /\ task.pc \in Coming \cup Going
             /\ task'.pc \in Rolling /\ task'.i = task.i
StepsBack(pc) == /\ task.pc \in Rolling
                /\ \/ task'.pc = pc /\ task'.i = task.i - 1
                   \/ task'.pc = "done" /\ task.i = 1 /\ task'.i = task.i
NothingDone == /\ task.pc \in Untouched /\ task'.pc = "done" /\ task'.i = task.i
               /\ task.pc = "replan" => task.tool # "preset"

Updates(it) ==
  /\ (KeepsItems /\ it = It) \/ SetsItem(it)
  /\ it.name = It.name /\ it.payload = It.payload /\ it.temp \in {It.temp, 0, NewId}
  /\ it.installed \in {It.installed, It.temp}

LEMMA FrameOf ==
  ASSUME Inv, Running, SameTask, NEW it, Updates(it), NEW S, S \subseteq OwnNames, OnlyAt(S)
  PROVE  Frame /\ task'.items[task.i] = it
PROOF
<1>1. CASE KeepsItems /\ it = It
  BY <1>1, FrameKept DEF KeepsItems, It
<1>2. CASE SetsItem(it)
  BY <1>2, FrameSet DEF Updates
<1> QED BY <1>1, <1>2 DEF Updates

LEMMA PlainStep ==
  ASSUME Inv, Running, Owing, Restoring, SameTask, NEW it, Updates(it),
         OnlyAt({TempOf(task.i), RollOf(task.i)}),
         it.orig = It.orig, It.backup => it.backup, it.installed = It.installed,
         task.pc \notin Special, task'.pc \notin {"record", "own"},
         \/ GoesOn(it) \/ TurnsToLast \/ TurnsHere \/ NothingDone
         \/ StepsBack("rollback") /\ It.installed = 0 /\ task.tool # "preset"
         \/ StepsBack("undo") /\ It.installed = 0 /\ ~Has(OrigOf(task.i))
         \/ StepsBack("remove") /\ It.installed = 0 /\ task.tool # "preset"
  PROVE  Restoring'
PROOF
<1>1. /\ task.i \in Items /\ It = task.items[task.i] /\ Course /\ Last \in Nat /\ Items = 1 .. Last
  BY ItFacts DEF Restoring
<1>2. Frame /\ task'.items[task.i] = it
  <2>1. {TempOf(task.i), RollOf(task.i)} \subseteq OwnNames
    BY DEF OwnNames
  <2> QED BY <2>1, FrameOf
<1>3. CASE GoesOn(it)
  <2>1. Steady /\ task'.pc \notin Taken
    BY <1>3, SteadyOn DEF GoesOn, Current, Untouched, Coming, Going, Rolling, Taken
  <2>2. Course'
    <3>1. CASE task'.pc \in {"verify", "confirm", "complete"}
      BY <1>1, <1>2, <3>1, CourseTurns DEF Turning
    <3>2. CASE task'.pc \notin {"verify", "confirm", "complete"}
      BY <1>1, <1>2, <1>3, CourseGoes DEF GoesOn
    <3> QED BY <3>1, <3>2
  <2>3. \A j : j = task.i => ~Rolled(j)'
    BY <1>3 DEF GoesOn, Rolled, Untouched, Coming, Going, Rolling, Taken
  <2> QED BY <1>1, <1>2, <2>1, <2>2, <2>3, PlainTool DEF SameOriginal
<1>4. CASE ~GoesOn(it)
  <2>1. Steady
    BY <1>1, <1>4, SteadyFromLast, SteadyTurn, SteadyUntouched, SteadyBack
      DEF TurnsToLast, TurnsHere, NothingDone, StepsBack, Rolling
  <2>2. task'.pc \in Turning /\ task'.pc \notin Taken
    BY <1>4 DEF Taken, TurnsToLast, TurnsHere, NothingDone, StepsBack, Turning, Rolling
  <2>3. Course'
    BY <1>1, <1>2, <2>2, CourseTurns
  <2>4. CASE TurnsToLast \/ TurnsHere
    <3>1. \A j : j = task.i => ~Rolled(j)'
      BY <1>1, <2>4 DEF TurnsToLast, TurnsHere, Rolled, Rolling
    <3> QED BY <1>1, <1>2, <2>1, <2>2, <2>3, <3>1, PlainTool DEF SameOriginal
  <2>5. CASE ~(TurnsToLast \/ TurnsHere)
    <3>1. It.installed = 0 /\ (task.tool = "preset" => ~Has(OrigOf(task.i)))
      <4>1. CASE NothingDone
        <5>1. It.installed = 0
          BY <1>1, <4>1 DEF Course, NothingDone, Untouched
        <5>2. task.tool = "preset" => NoneParked
          BY <4>1 DEF Inv, TaskInv, Ahead, NothingDone, Untouched
        <5> QED BY <1>1, <5>1, <5>2, UnusedNames
      <4> QED BY <1>4, <2>5, <4>1
    <3> QED BY <1>1, <1>2, <2>1, <2>2, <2>3, <3>1, PlainTool DEF SameOriginal
  <2> QED BY <2>4, <2>5
<1> QED BY <1>3, <1>4

-----------------------------------------------------------------------------
(* The staging tool.                                                        *)

LEMMA SameSpent ==
  ASSUME Inv, spent' = spent \/ Fault \/ Count("ids")
  PROVE  spent'.runs = spent.runs /\ spent'.ids \in Nat /\ spent'.ids >= spent.ids
PROOF BY NoneSpent, FaultSpent, IdsSpent DEF Inv

LEMMA RestoringSnapshot ==
  ASSUME Inv, Running, Owing, Restoring, snapshot_original
  PROVE  Restoring'
PROOF
<1>1. /\ task.i \in Items /\ DOMAIN task = TaskFields /\ DOMAIN It = ItemFields
      /\ It = task.items[task.i] /\ Course /\ task.pc = "snapshot" /\ task.tool = "stage"
  BY ItFacts DEF ItemOK, Restoring, snapshot_original, Stage, At
<1>2. PICK it : it = [It EXCEPT !.orig = Look(Pub(It.name))]
  OBVIOUS
<1>3. PICK t : t = [task EXCEPT !.items[task.i].orig = Look(Pub(It.name)), !.touched = Settled(It.name)]
  OBVIOUS
<1>4. /\ DOMAIN t = TaskFields /\ t.tool = task.tool /\ t.left = task.left /\ t.i = task.i
      /\ t.items = [task.items EXCEPT ![task.i] = it]
      /\ t.before = task.before /\ t.report = task.report /\ t.hurt = task.hurt
  BY <1>1, <1>2, <1>3 DEF It, TaskFields
<1>5. task' = Forward(t, "snapshot", "write") /\ fs' = fs /\ spent' = spent
  BY <1>3 DEF snapshot_original
<1>6. SetsItem(it) /\ task'.i \in Items /\ task'.pc \in {"snapshot", "write"}
  BY <1>4, <1>5, NextItem DEF Goes
<1>7. SameTask
  BY <1>4, <1>5, SameSpent DEF SameTask, Forward, TaskFields
<1>8. /\ it.name = It.name /\ it.payload = It.payload /\ it.temp = It.temp
      /\ it.installed = It.installed /\ it.backup = It.backup
  BY <1>1, <1>2 DEF ItemFields
<1>9. Frame /\ task'.items[task.i] = it
  BY <1>5, <1>6, <1>7, <1>8, FrameSet DEF OnlyAt
<1>10. Steady
  BY <1>6, SteadyOn DEF Rolling, Taken, Current
<1>11. Course'
  BY <1>1, <1>6, <1>8, <1>9, CourseGoes DEF Untouched, Coming, Going, Migrating
<1>12. ~Has(OrigOf(task.i))
  BY <1>1, UnusedNames DEF Inv, TaskInv, Ahead
<1>13. \A j : j = task.i => ~Rolled(j)'
  BY <1>6 DEF Rolled, Rolling, Taken
<1>14. OnlyAt({TempOf(task.i), RollOf(task.i)})
  BY <1>5 DEF OnlyAt
<1>15. task.pc \notin Special /\ task'.pc \notin Taken \cup {"record", "own"}
  BY <1>1, <1>6 DEF Special, Current, Taken
<1> QED BY <1>8, <1>9, <1>10, <1>11, <1>12, <1>13, <1>14, <1>15, PlainTool

(* The conflict is reported and the item before it is next.                 *)
LEMMA Reported ==
  ASSUME Inv, Running, Owing, Restoring, task.pc \in Rolling \cup Taken, NEW pc \in Rolling,
         task' = Backward([task EXCEPT !.report = Report(It.name)], pc),
         spent' = spent \/ Fault, NEW S, S \subseteq OwnNames, OnlyAt(S),
         OrigOf(task.i) \in S => OrigOf(task.i) \notin DOMAIN fs'
  PROVE  Restoring'
PROOF
<1>1. /\ task.i \in Items /\ DOMAIN task = TaskFields /\ It = task.items[task.i] /\ Course
      /\ Items = 1 .. Last /\ Last \in Nat
  BY ItFacts DEF Restoring
<1>2. PICK t : t = [task EXCEPT !.report = Report(It.name)]
  OBVIOUS
<1>3. /\ DOMAIN t = TaskFields /\ t.tool = task.tool /\ t.left = task.left /\ t.i = task.i
      /\ t.items = task.items /\ t.before = task.before /\ t.report = Report(It.name)
      /\ t.hurt = task.hurt
  BY <1>1, <1>2 DEF TaskFields
<1>4. task' = Backward(t, pc)
  BY <1>2
<1>5. /\ task'.before = task.before /\ task'.report = Report(It.name) /\ task'.hurt = task.hurt
      /\ task'.items = task.items /\ task'.tool = task.tool
      /\ \/ task'.pc = pc /\ task'.i = task.i - 1
         \/ task'.pc = "done" /\ task.i = 1 /\ task'.i = task.i
  BY <1>1, <1>3, <1>4 DEF Backward, TaskFields
<1>6. SameTask
  BY <1>5, SameSpent DEF SameTask, Report
<1>7. KeepsItems
  BY <1>5 DEF KeepsItems
<1>8. Frame
  BY <1>6, <1>7, FrameKept
<1>9. Steady
  BY <1>5, SteadyBack
<1>10. Course'
  <2>1. task'.pc \in Turning
    BY <1>5 DEF Turning
  <2> QED BY <1>1, <1>8, <1>5, <2>1, CourseTurns
<1>11. PICK j : j = task.i
  OBVIOUS
<1>12. OriginalStays(j)
  <2>1. OrigOf(j)' = OrigOf(j)
    BY <1>5, <1>6 DEF OrigOf, Hidden, SameTask
  <2>2. OrigOf(j) \in DOMAIN fs' => OrigOf(j) \notin S
    BY <1>11
  <2> QED BY <1>5, <2>1, <2>2 DEF OriginalStays, SameOriginal, OnlyAt, Has
<1> QED BY <1>5, <1>8, <1>9, <1>10, <1>11, <1>12, ReportTool

LEMMA RestoringWrites ==
  ASSUME Inv, Running, Owing, Restoring,
         skip_unchanged \/ create_temporary \/ fill_temporary
  PROVE  Restoring'
PROOF
<1>1. /\ task.i \in Items /\ DOMAIN task = TaskFields /\ DOMAIN It = ItemFields
      /\ It = task.items[task.i] /\ task.tool = "stage" /\ task.pc \in {"write", "fill"}
      /\ Items = 1 .. Last /\ Last \in Nat /\ TempOf(task.i) = Hidden(It.name, "temporary")
      /\ Last = Len(task.items)
  BY ItFacts DEF ItemOK, skip_unchanged, create_temporary, fill_temporary, Stage, At, Last
<1>2. task.pc \notin Special
  BY <1>1 DEF Special, Current, Taken
<1>3. CASE skip_unchanged
  <2>1. /\ task'.before = task.before /\ task'.report = task.report /\ task'.hurt = task.hurt
        /\ task'.tool = task.tool /\ task'.items = task.items /\ fs' = fs /\ spent' = spent
        /\ task.pc = "write"
        /\ \/ task'.pc = "write" /\ task'.i = task.i + 1 /\ task.i < Last
           \/ task'.pc = "verify" /\ task'.i = 1
    BY <1>1, <1>3 DEF skip_unchanged, Stage, At, Forward, TaskFields
  <2>2. SameTask
    BY <2>1, SameSpent DEF SameTask
  <2>3. Updates(It)
    BY <2>1 DEF Updates, KeepsItems
  <2>4. GoesOn(It)
    <3>1. task'.i \in Items
      BY <1>1, <2>1
    <3> QED BY <2>1, <3>1 DEF GoesOn, Coming, Untouched, Going
  <2>5. OnlyAt({TempOf(task.i), RollOf(task.i)}) /\ task'.pc \notin {"record", "own"}
    BY <2>1 DEF OnlyAt
  <2> QED BY <1>2, <2>2, <2>3, <2>4, <2>5, PlainStep
<1>4. CASE create_temporary
  <2>1. PICK it : it = [It EXCEPT !.temp = NewId]
    OBVIOUS
  <2>2. /\ task'.before = task.before /\ task'.report = task.report /\ task'.hurt = task.hurt
        /\ task'.tool = task.tool /\ task'.items = [task.items EXCEPT ![task.i] = it]
        /\ task.pc = "write" /\ task'.pc = "fill" /\ task'.i = task.i
    BY <1>1, <1>4, <2>1 DEF create_temporary, With, Stage, At, TaskFields
  <2>3. /\ it.name = It.name /\ it.payload = It.payload /\ it.temp = NewId
        /\ it.installed = It.installed /\ it.backup = It.backup /\ it.orig = It.orig
    BY <1>1, <2>1 DEF ItemFields
  <2>4. SameTask
    BY <1>4, <2>2, SameSpent DEF SameTask, create_temporary
  <2>5. Updates(it)
    BY <2>2, <2>3 DEF Updates, SetsItem
  <2>6. GoesOn(it) /\ task'.pc \notin {"record", "own"}
    BY <1>1, <2>2 DEF GoesOn, Coming, Untouched, Going, Special, Current, Taken
  <2>7. OnlyAt({TempOf(task.i), RollOf(task.i)})
    BY <1>1, <1>4 DEF create_temporary, OnlyAt, Put
  <2> QED BY <1>2, <2>3, <2>4, <2>5, <2>6, <2>7, PlainStep
<1>5. CASE fill_temporary
  <2>1. /\ task'.before = task.before /\ task'.report = task.report /\ task'.hurt = task.hurt
        /\ task'.tool = task.tool /\ task'.items = task.items /\ spent' = spent
        /\ task.pc = "fill" /\ task'.i = task.i
        /\ task'.pc = IF It.orig = NoFile THEN "publish" ELSE "park"
    BY <1>1, <1>5 DEF fill_temporary, Stage, At, To, TaskFields
  <2>2. SameTask
    BY <2>1, SameSpent DEF SameTask
  <2>3. Updates(It)
    BY <2>1 DEF Updates, KeepsItems
  <2>4. GoesOn(It)
    BY <1>1, <2>1 DEF GoesOn, Coming, Untouched, Going
  <2>5. OnlyAt({TempOf(task.i), RollOf(task.i)})
    BY <1>1, <1>5 DEF fill_temporary, OnlyAt, Put
  <2> QED BY <1>2, <2>1, <2>2, <2>3, <2>4, <2>5, PlainStep
<1> QED BY <1>3, <1>4, <1>5

LEMMA RestoringPark ==
  ASSUME Inv, Running, Owing, Restoring, park_original
  PROVE  Restoring'
PROOF
<1>1. /\ task.i \in Items /\ DOMAIN task = TaskFields /\ It = task.items[task.i]
      /\ Items = 1 .. Last /\ Last \in Nat /\ OrigOf(task.i) = Hidden(It.name, "original")
      /\ Course /\ task.tool = "stage" /\ task.pc = "park"
  BY ItFacts DEF park_original, Stage, At, Restoring
<1>2. /\ task'.before = task.before /\ task'.report = task.report /\ task'.hurt = task.hurt
      /\ task'.tool = task.tool /\ task'.items = task.items /\ spent' = spent /\ task'.i = task.i
  BY <1>1 DEF park_original, To, TaskFields
<1>3. SameTask /\ KeepsItems
  BY <1>2, SameSpent DEF SameTask, KeepsItems
<1>4. CASE Has(Pub(It.name))
  <2>1. Renamed(Pub(It.name), OrigOf(task.i)) /\ task'.pc = "check"
    BY <1>1, <1>4 DEF park_original, To, TaskFields
  <2>2. OnlyAt({Pub(It.name), OrigOf(task.i)})
    BY <1>4, <2>1 DEF OnlyAt, Renamed, Move, Has
  <2>3. Frame
    BY <1>3, <2>2, FrameKept DEF OwnNames
  <2>4. Steady
    BY <1>2, <2>1, SteadyOn DEF Rolling, Taken
  <2>5. It.installed = 0 /\ It.orig # NoFile
    BY <1>1 DEF Course
  <2>6. Course'
    BY <1>1, <1>2, <2>1, <2>3, <2>5, CourseGoes DEF Untouched, Coming, Going, Migrating
  <2> QED BY <1>1, <1>2, <1>4, <2>1, <2>3, <2>4, <2>5, <2>6, ParkTool
<1>5. CASE ~Has(Pub(It.name))
  <2>1. fs' = fs /\ task'.pc = "unwind"
    BY <1>1, <1>5 DEF park_original, To, TaskFields
  <2>2. GoesOn(It)
    BY <1>1, <1>2, <2>1 DEF GoesOn, Coming, Untouched, Going
  <2>3. OnlyAt({TempOf(task.i), RollOf(task.i)}) /\ Updates(It) /\ task.pc \notin Special
    BY <1>1, <1>3, <2>1 DEF OnlyAt, Updates, Special, Current, Taken
  <2> QED BY <1>3, <2>1, <2>2, <2>3, PlainStep
<1> QED BY <1>4, <1>5

(* The name was found taken, or parking went wrong: the parked file goes    *)
(* back if the name is free.                                                *)
LEMMA RestoringReturn ==
  ASSUME Inv, Running, Owing, Restoring, task.tool = "stage", task.pc \in {"check", "publish"},
         SameTask, KeepsItems, task'.pc = "unwind", task'.i = task.i, RestoredOr("original")
  PROVE  Restoring'
PROOF
<1>1. /\ task.i \in Items /\ It = task.items[task.i]
      /\ Items = 1 .. Last /\ Last \in Nat /\ OrigOf(task.i) = Hidden(It.name, "original") /\ Course
  BY ItFacts DEF Restoring
<1>2. PICK S : S = {Pub(It.name), OrigOf(task.i)}
  OBVIOUS
<1>3. OnlyAt(S) /\ S \subseteq OwnNames
  <2>1. S \subseteq OwnNames
    BY <1>2 DEF OwnNames
  <2>2. OnlyAt({Pub(It.name), OrigOf(task.i)})
    BY <1>1 DEF RestoredOr, CanRename, Renamed, Move, Has, OnlyAt
  <2> QED BY <1>2, <2>1, <2>2
<1>4. Frame /\ task'.items[task.i] = It
  BY <1>1, <1>3, FrameKept DEF KeepsItems
<1>5. Steady
  BY SteadyOn DEF Rolling, Taken
<1>6. It.installed = 0
  BY <1>1 DEF Course
<1>7. Course'
  BY <1>1, <1>4, CourseGoes DEF Untouched, Coming, Going, Migrating
<1>8. \A j : j = task.i => ~Stands(j) /\ ~OnHand(j)
  BY <1>1, <1>6 DEF Stands, Unrecorded, OnHand, Taken
<1>9. CASE CanRename(OrigOf(task.i), Pub(It.name))
  <2>1. fs' = Move(fs, OrigOf(task.i), Pub(It.name)) /\ Has(OrigOf(task.i)) /\ ~Has(Pub(It.name))
    BY <1>1, <1>9 DEF RestoredOr, CanRename, Renamed
  <2>2. OrigOf(task.i) # Pub(It.name)
    BY DEF OrigOf, Hidden, Pub
  <2>3. /\ OrigOf(task.i) \notin DOMAIN fs' /\ Pub(It.name) \in DOMAIN fs'
        /\ fs'[Pub(It.name)] = fs[OrigOf(task.i)]
    BY <2>1, <2>2 DEF Move
  <2>4. \A j : j = task.i => OrigOf(j)' = OrigOf(j)
    BY <1>1, <1>4 DEF OrigOf, Hidden, Frame, NamesKept
  <2>5. \A j : j = task.i => ~Has(OrigOf(j))'
    BY <2>3, <2>4 DEF Has
  <2> QED BY <1>4, <1>5, <1>7, <1>8, <2>1, <2>3, <2>5, ReturnTool
<1>10. CASE ~CanRename(OrigOf(task.i), Pub(It.name))
  <2>1. fs' = fs
    BY <1>1, <1>10 DEF RestoredOr
  <2>2. OnlyAt({TempOf(task.i), RollOf(task.i)})
    BY <2>1 DEF OnlyAt
  <2>3. \A j : j = task.i => ~Rolled(j)
    BY DEF Rolled, Rolling, Taken
  <2> QED
    <3>1. PICK j : j = task.i
      OBVIOUS
    <3>2. ParkedWell(j) /\ Within(j) /\ j \in Items
      BY <1>1, <3>1 DEF Restoring
    <3>3. CalmAt(j)
      BY <1>4, <2>2, <3>1, CalmNames
    <3>4. ParkedWell(j)'
      BY <1>1, <1>4, <3>1, <3>2, <3>3, StaysParkedWell DEF CalmAt, OriginalStays, SameOriginal
    <3>5. Within(j)'
      <4> SUFFICES ASSUME NEW b \in Open(j)'
                   PROVE  Kept(j, b)'
        BY DEF Within, CanRestore
      <4>1. b \in Open(j) /\ NoFile' = NoFile
        BY <1>4, <3>2, OpenShrinks
      <4>2. Kept(j, b) \/ Away(j, b)
        BY <1>8, <3>1, <3>2, <4>1 DEF Within, CanRestore
      <4>3. ~Away(j, b)
        <5>1. Has(OrigOf(j)) => Has(Pub(It.name)) /\ Now(j) = fs[Pub(It.name)]
          BY <1>1, <1>10, <3>1 DEF CanRename, Now, Look
        <5>2. Has(OrigOf(j)) => Now(j) # NoFile
          BY <5>1 DEF Inv, CardInv, FilesKnown, Has, NoFile
        <5> QED BY <5>2 DEF Away
      <4> QED BY <3>3, <4>1, <4>2, <4>3 DEF Kept, CalmAt
    <3> QED BY <1>4, <1>5, <1>7, <3>1, <3>4, <3>5, Follows
<1> QED BY <1>9, <1>10

LEMMA RestoringCheck ==
  ASSUME Inv, Running, Owing, Restoring, check_parked
  PROVE  Restoring'
PROOF
<1>1. /\ task.i \in Items /\ DOMAIN task = TaskFields /\ It = task.items[task.i]
      /\ Items = 1 .. Last /\ Last \in Nat
      /\ Course /\ task.tool = "stage" /\ task.pc = "check"
  BY ItFacts DEF check_parked, Stage, At, Restoring
<1>2. /\ task'.before = task.before /\ task'.report = task.report /\ task'.hurt = task.hurt
      /\ task'.tool = task.tool /\ task'.items = task.items /\ spent' = spent /\ task'.i = task.i
      /\ \/ task'.pc = "publish" /\ fs' = fs
         \/ task'.pc = "unwind" /\ RestoredOr("original")
  BY <1>1 DEF check_parked, To, TaskFields
<1>3. SameTask /\ KeepsItems
  BY <1>2, SameSpent DEF SameTask, KeepsItems
<1>4. CASE task'.pc = "publish" /\ fs' = fs
  <2>1. OnlyAt({}) /\ OnlyAt({TempOf(task.i), RollOf(task.i)})
    BY <1>4 DEF OnlyAt
  <2>2. Frame /\ task'.items[task.i] = It
    BY <1>1, <1>3, <2>1, FrameKept DEF KeepsItems
  <2>3. Steady
    BY <1>2, <1>4, SteadyOn DEF Rolling, Taken
  <2>4. Course'
    BY <1>1, <1>2, <1>4, <2>2, CourseGoes DEF Untouched, Coming, Going, Migrating
  <2>5. It.installed = 0
    BY <1>1 DEF Course
  <2>6. \A j : j = task.i => /\ ~Stands(j) /\ ~OnHand(j) /\ MayBeAway(j)' /\ ~Rolled(j)'
                             /\ SameOriginal(j)
    BY <1>1, <1>2, <1>4, <2>5 DEF Stands, Unrecorded, OnHand, Taken, MayBeAway, Current, Rolled,
      Rolling, SameOriginal
  <2> QED BY <2>1, <2>2, <2>3, <2>4, <2>6, QuietTool
<1>5. CASE task'.pc = "unwind" /\ RestoredOr("original")
  BY <1>1, <1>2, <1>3, <1>5, RestoringReturn
<1> QED BY <1>2, <1>4, <1>5

LEMMA RestoringPublish ==
  ASSUME Inv, Running, Owing, Restoring, publish
  PROVE  Restoring'
PROOF
<1>1. /\ task.i \in Items /\ DOMAIN task = TaskFields /\ It = task.items[task.i]
      /\ Items = 1 .. Last /\ Last \in Nat /\ TempOf(task.i) = Hidden(It.name, "temporary")
      /\ Course /\ task.tool = "stage" /\ task.pc = "publish"
  BY ItFacts DEF publish, Stage, At, Restoring
<1>2. /\ task'.before = task.before /\ task'.report = task.report /\ task'.hurt = task.hurt
      /\ task'.tool = task.tool /\ task'.items = task.items /\ spent' = spent /\ task'.i = task.i
  BY <1>1 DEF publish, To, TaskFields
<1>3. SameTask /\ KeepsItems
  BY <1>2, SameSpent DEF SameTask, KeepsItems
<1>4. CASE Has(Pub(It.name))
  <2>1. task'.pc = "unwind" /\ RestoredOr("original")
    BY <1>1, <1>4 DEF publish, To, TaskFields
  <2> QED BY <1>1, <1>2, <1>3, <2>1, RestoringReturn
<1>5. CASE ~Has(Pub(It.name))
  <2>1. Renamed(TempOf(task.i), Pub(It.name)) /\ task'.pc = "record"
    BY <1>1, <1>5 DEF publish, To, TaskFields
  <2>2. Ready(task.i)
    BY <1>1 DEF Inv, TaskInv, Temporaries
  <2>3. OnlyAt({TempOf(task.i), Pub(It.name)}) /\ OrigOf(task.i) # TempOf(task.i)
    BY <2>1, <2>2 DEF OnlyAt, Renamed, Move, OrigOf, TempOf, Hidden, Ready, Has
  <2>4. Frame /\ task'.items[task.i] = It
    BY <1>1, <1>3, <2>3, FrameKept DEF KeepsItems, OwnNames
  <2>5. Steady
    BY <1>2, <2>1, SteadyOn DEF Rolling, Taken
  <2>6. It.installed = 0
    BY <1>1 DEF Course
  <2>7. Course'
    BY <1>1, <1>2, <2>1, <2>4, CourseGoes DEF Untouched, Coming, Going, Migrating
  <2>8. PICK mine : mine = File(It.temp, It.payload)
    OBVIOUS
  <2>9. \A j : j = task.i => /\ ~Stands(j) /\ ~OnHand(j) /\ Stands(j)' /\ ~OnHand(j)' /\ ~Rolled(j)'
                             /\ SameOriginal(j)
    BY <1>1, <1>2, <2>1, <2>6 DEF Stands, Unrecorded, OnHand, Taken, Rolled, Rolling, SameOriginal
  <2>10. \A j : j = task.i => Mine(j)' = mine
    BY <1>1, <1>2, <2>1, <2>8 DEF Mine, Unrecorded, File
  <2> QED BY <1>1, <1>5, <2>1, <2>2, <2>3, <2>4, <2>5, <2>7, <2>8, <2>9, <2>10, PublishTool
<1> QED BY <1>4, <1>5

(* What stands under the name is recorded as the tool's.                    *)
LEMMA RecordsItsFile ==
  ASSUME Inv, Running, Owing, Restoring, task.pc \in {"record", "own"}, SameTask,
         NEW it, SetsItem(it), it.name = It.name, it.payload = It.payload, it.orig = It.orig,
         It.backup => it.backup, it.installed = It.temp, it.temp = 0, fs' = fs,
         \/ GoesOn(it) /\ task'.pc \notin {"record", "own"}
         \/ TurnsToLast
  PROVE  Restoring'
PROOF
<1>1. /\ task.i \in Items /\ It = task.items[task.i] /\ Course /\ Last \in Nat /\ Items = 1 .. Last
      /\ It.temp # 0
  BY ItFacts DEF Restoring, Inv, TaskInv, Temporaries
<1>2. OnlyAt({}) /\ OnlyAt({TempOf(task.i), RollOf(task.i)})
  BY DEF OnlyAt
<1>3. Frame /\ task'.items[task.i] = it
  BY <1>2, FrameSet
<1>4. Steady
  BY <1>1, SteadyOn, SteadyFromLast DEF GoesOn, TurnsToLast, Current, Untouched, Coming, Going,
    Rolling, Taken
<1>5. Course'
  <2>1. CASE task'.pc \in Turning
    BY <1>1, <1>3, <2>1, CourseTurns
  <2>2. CASE task'.pc \notin Turning
    <3>1. GoesOn(it)
      BY <2>2 DEF TurnsToLast, Turning
    <3>2. task.pc \notin Untouched /\ task.pc \notin Coming
      BY DEF Untouched, Coming
    <3>3. task'.pc \in Coming => task.pc \in Coming \cup Going /\ task'.i = task.i + 1
      BY <3>1, <3>2 DEF GoesOn
    <3> QED BY <1>1, <1>3, <3>1, <3>2, <3>3, CourseGoes DEF GoesOn
  <2> QED BY <2>1, <2>2
<1>6. PICK j : j = task.i
  OBVIOUS
<1>7. ~MayBeAway(j)
  BY <1>6 DEF MayBeAway, Current, Stands, Unrecorded
<1>8. Stands(j)' /\ Mine(j)' = Mine(j)
  <2>1. ~Unrecorded(j)'
    BY DEF Unrecorded, GoesOn, TurnsToLast, Rolling
  <2>2. Unrecorded(j)
    BY <1>6 DEF Unrecorded
  <2> QED BY <1>1, <1>3, <1>6, <2>1, <2>2 DEF Stands, Mine, File
<1>9. ~OnHand(j)' /\ ~Rolled(j)' /\ ~OnHand(j)
  BY <1>1, <1>6 DEF OnHand, Rolled, Rolling, Taken, GoesOn, TurnsToLast, Untouched, Coming, Going
<1>10. SameOriginal(j)
  BY <1>1, <1>3, <1>6 DEF SameOriginal
<1> QED BY <1>2, <1>3, <1>4, <1>5, <1>6, <1>7, <1>8, <1>9, <1>10, QuietTool

LEMMA RestoringRecord ==
  ASSUME Inv, Running, Owing, Restoring, record_publication
  PROVE  Restoring'
PROOF
<1>1. /\ task.i \in Items /\ DOMAIN task = TaskFields /\ DOMAIN It = ItemFields
      /\ It = task.items[task.i] /\ task.tool = "stage" /\ task.pc = "record"
      /\ Items = 1 .. Last /\ Last \in Nat
  BY ItFacts DEF ItemOK, record_publication, Stage, At
<1>2. PICK it : it = Recorded
  OBVIOUS
<1>3. /\ it.name = It.name /\ it.payload = It.payload /\ it.temp = 0 /\ it.installed = It.temp
      /\ it.orig = It.orig /\ (It.backup => it.backup)
  <2>1. It.backup => It.orig # NoFile
    <3>1. It.backup => Has(OrigOf(task.i))
      BY <1>1 DEF Inv, TaskInv, Behind, ParkedIfRecorded, Parked
    <3> QED BY <1>1, <3>1 DEF Restoring, ParkedWell
  <2> QED BY <1>1, <1>2, <2>1 DEF Recorded, ItemFields
<1>4. PICK t : t = With(it, "write")
  OBVIOUS
<1>5. /\ DOMAIN t = TaskFields /\ t.tool = task.tool /\ t.left = task.left /\ t.i = task.i
      /\ t.items = [task.items EXCEPT ![task.i] = it]
      /\ t.before = task.before /\ t.report = task.report /\ t.hurt = task.hurt
  BY <1>1, <1>4 DEF With, TaskFields
<1>6. task' = Forward(t, "write", "verify") /\ fs' = fs /\ spent' = spent
  BY <1>2, <1>4 DEF record_publication
<1>7. /\ SetsItem(it) /\ task'.i \in Items
      /\ \/ task'.pc = "write" /\ task'.i = task.i + 1
         \/ task'.pc = "verify"
  BY <1>5, <1>6, NextItem DEF Goes
<1>8. SameTask
  BY <1>5, <1>6, SameSpent DEF SameTask, Forward, TaskFields
<1>9. GoesOn(it)
  BY <1>1, <1>7 DEF GoesOn, Coming, Untouched, Going
<1> QED BY <1>1, <1>3, <1>6, <1>7, <1>8, <1>9, RecordsItsFile

LEMMA RestoringVerify ==
  ASSUME Inv, Running, Owing, Restoring, verify_installed
  PROVE  Restoring'
PROOF
<1>1. /\ task.i \in Items /\ DOMAIN task = TaskFields /\ It = task.items[task.i]
      /\ Items = 1 .. Last /\ Last \in Nat /\ Last = Len(task.items)
      /\ task.tool = "stage" /\ task.pc = "verify" /\ task.pc \notin Special
  BY ItFacts DEF verify_installed, Stage, At, Last, Special, Current, Taken
<1>2. PICK t : t = [task EXCEPT !.touched = Settled(It.name)]
  OBVIOUS
<1>3. /\ DOMAIN t = TaskFields /\ t.tool = task.tool /\ t.i = task.i /\ t.items = task.items
      /\ t.before = task.before /\ t.report = task.report /\ t.hurt = task.hurt
  BY <1>1, <1>2 DEF TaskFields
<1>4. /\ fs' = fs /\ spent' = spent
      /\ task' = Forward(t, "verify", "cleanup") \/ task' = [t EXCEPT !.pc = "rollback", !.i = Last]
  BY <1>2 DEF verify_installed
<1>5. /\ task'.before = task.before /\ task'.report = task.report /\ task'.hurt = task.hurt
      /\ task'.tool = task.tool /\ task'.items = task.items
      /\ \/ task'.pc = "verify" /\ task'.i = task.i + 1 /\ task.i < Last
         \/ task'.pc = "cleanup"
         \/ task'.pc = "rollback" /\ task'.i = Last
  <2>1. CASE task' = Forward(t, "verify", "cleanup")
    BY <1>1, <1>3, <2>1 DEF Forward, TaskFields
  <2>2. CASE task' = [t EXCEPT !.pc = "rollback", !.i = Last]
    BY <1>1, <1>3, <2>2 DEF TaskFields
  <2> QED BY <1>4, <2>1, <2>2
<1>6. CASE task'.pc = "cleanup"
  BY <1>5, <1>6 DEF Restoring, HurtTurnsBack, Owing
<1>7. CASE task'.pc # "cleanup"
  <2>1. SameTask /\ Updates(It)
    BY <1>4, <1>5, SameSpent DEF SameTask, Updates, KeepsItems
  <2>2. GoesOn(It) \/ TurnsToLast
    <3>1. task'.pc = "verify" => task'.i \in Items
      BY <1>1, <1>5
    <3> QED BY <1>5, <1>7, <3>1 DEF GoesOn, TurnsToLast, Rolling, Untouched, Coming, Going
  <2>3. OnlyAt({TempOf(task.i), RollOf(task.i)})
    BY <1>4 DEF OnlyAt
  <2> QED BY <1>1, <1>5, <1>7, <2>1, <2>2, <2>3, PlainStep
<1> QED BY <1>6, <1>7

LEMMA RestoringUnwind ==
  ASSUME Inv, Running, Owing, Restoring, unwind
  PROVE  Restoring'
PROOF
<1>1. /\ task.i \in Items /\ DOMAIN task = TaskFields /\ DOMAIN It = ItemFields
      /\ It = task.items[task.i] /\ task.tool = "stage" /\ task.pc = "unwind"
      /\ TempOf(task.i) = Hidden(It.name, "temporary") /\ task.pc \notin Special
  BY ItFacts DEF ItemOK, unwind, Stage, At, Special, Current, Taken
<1>2. PICK it : it = [It EXCEPT !.temp = 0]
  OBVIOUS
<1>3. /\ it.name = It.name /\ it.payload = It.payload /\ it.temp = 0
      /\ it.installed = It.installed /\ it.backup = It.backup /\ it.orig = It.orig
  BY <1>1, <1>2 DEF ItemFields
<1>4. /\ task'.before = task.before /\ task'.report = task.report /\ task'.hurt = task.hurt
      /\ task'.tool = task.tool /\ task'.items = [task.items EXCEPT ![task.i] = it]
      /\ task'.pc = "rollback" /\ task'.i = task.i /\ spent' = spent
  BY <1>1, <1>2 DEF unwind, With, TaskFields
<1>5. SameTask /\ Updates(it)
  BY <1>3, <1>4, SameSpent DEF SameTask, Updates, SetsItem
<1>6. TurnsHere
  BY <1>1, <1>4 DEF TurnsHere, Going, Rolling
<1>7. OnlyAt({TempOf(task.i), RollOf(task.i)})
  BY <1>1 DEF unwind, OnlyAt, Drop
<1> QED BY <1>1, <1>3, <1>4, <1>5, <1>6, <1>7, PlainStep

LEMMA RestoringStagingError ==
  ASSUME Inv, Running, Owing, Restoring, staging_io_error
  PROVE  Restoring'
PROOF
<1>1. /\ task.i \in Items /\ DOMAIN task = TaskFields /\ DOMAIN It = ItemFields
      /\ It = task.items[task.i] /\ task.tool = "stage" /\ Fault
      /\ Items = 1 .. Last /\ Last \in Nat /\ task.pc # "cleanup"
  BY ItFacts DEF ItemOK, staging_io_error, Owing
<1>2. CASE task.pc \in {"check", "publish"}
  <2>1. /\ task'.before = task.before /\ task'.report = task.report /\ task'.hurt = task.hurt
        /\ task'.tool = task.tool /\ task'.items = task.items
        /\ task'.pc = "unwind" /\ task'.i = task.i /\ RestoredOr("original")
    BY <1>1, <1>2 DEF staging_io_error, To, TaskFields
  <2>2. SameTask /\ KeepsItems
    BY <1>1, <2>1, SameSpent DEF SameTask, KeepsItems
  <2> QED BY <1>1, <1>2, <2>1, <2>2, RestoringReturn
<1>3. CASE task.pc = "record"
  <2>1. PICK it : it = Recorded
    OBVIOUS
  <2>2. /\ it.name = It.name /\ it.payload = It.payload /\ it.temp = 0 /\ it.installed = It.temp
        /\ it.orig = It.orig /\ (It.backup => it.backup)
    <3>1. It.backup => It.orig # NoFile
      <4>1. It.backup => Has(OrigOf(task.i))
        BY <1>1, <1>3 DEF Inv, TaskInv, Behind, ParkedIfRecorded, Parked
      <4> QED BY <1>1, <4>1 DEF Restoring, ParkedWell
    <3> QED BY <1>1, <2>1, <3>1 DEF Recorded, ItemFields
  <2>3. /\ task'.before = task.before /\ task'.report = task.report /\ task'.hurt = task.hurt
        /\ task'.tool = task.tool /\ task'.items = [task.items EXCEPT ![task.i] = it]
        /\ task'.pc = "unwind" /\ task'.i = task.i /\ fs' = fs
    BY <1>1, <1>3, <2>1 DEF staging_io_error, With, TaskFields
  <2>4. SameTask /\ SetsItem(it)
    BY <1>1, <2>3, SameSpent DEF SameTask, SetsItem
  <2>5. GoesOn(it)
    BY <1>1, <1>3, <2>3 DEF GoesOn, Coming, Untouched, Going
  <2> QED BY <1>3, <2>2, <2>3, <2>4, <2>5, RecordsItsFile
<1>4. CASE task.pc \notin {"check", "publish", "record"}
  <2>1. /\ task'.before = task.before /\ task'.report = task.report /\ task'.hurt = task.hurt
        /\ task'.tool = task.tool /\ task'.items = task.items /\ fs' = fs
        /\ \/ task.pc = "snapshot" /\ task'.pc = "done" /\ task'.i = task.i
           \/ task.pc \in {"write", "fill", "park"} /\ task'.pc = "unwind" /\ task'.i = task.i
           \/ task.pc = "verify" /\ task'.pc = "rollback" /\ task'.i = Last
    BY <1>1, <1>4 DEF staging_io_error, To, TaskFields
  <2>2. SameTask /\ Updates(It)
    BY <1>1, <2>1, SameSpent DEF SameTask, Updates, KeepsItems
  <2>3. NothingDone \/ GoesOn(It) \/ TurnsToLast
    BY <1>1, <2>1 DEF NothingDone, GoesOn, TurnsToLast, Untouched, Coming, Going, Rolling
  <2>4. OnlyAt({TempOf(task.i), RollOf(task.i)}) /\ task.pc \notin Special
    BY <2>1 DEF OnlyAt, Special, Current, Taken
  <2> QED BY <2>1, <2>2, <2>3, <2>4, PlainStep
<1> QED BY <1>2, <1>3, <1>4

(* Going back over an item whose name is as the owner left it.              *)
LEMMA BackOver ==
  ASSUME Inv, Running, Owing, Restoring, NEW pc \in Rolling, task.pc \in Rolling \cup Taken,
         SameTask, KeepsItems,
         \/ task'.pc = pc /\ task'.i = task.i - 1
         \/ task'.pc = "done" /\ task.i = 1 /\ task'.i = task.i,
         NEW S, S \subseteq OwnNames, OnlyAt(S), NEW j, j = task.i,
         OrigOf(j) \in S => ~Has(OrigOf(j))',
         \A b \in Open(j) : Kept(j, b)'
  PROVE  Restoring'
PROOF
<1>1. /\ j \in Items /\ It = task.items[j] /\ Course /\ ParkedWell(j)
      /\ Items = 1 .. Last /\ Last \in Nat
  BY ItFacts DEF Restoring
<1>2. Frame /\ task'.items[j] = It
  BY <1>1, FrameKept DEF KeepsItems
<1>3. Steady
  BY SteadyBack
<1>4. Course'
  BY <1>1, <1>2, CourseTurns DEF Turning
<1>5. OriginalStays(j)
  <2>1. OrigOf(j)' = OrigOf(j)
    BY <1>1, <1>2 DEF OrigOf, Hidden, Frame, NamesKept
  <2> QED BY <1>1, <1>2, <2>1 DEF OriginalStays, SameOriginal, OnlyAt, Has
<1>6. ParkedWell(j)'
  BY <1>1, <1>2, <1>5, StaysParkedWell
<1>7. Within(j)'
  BY <1>1, <1>2, OpenShrinks DEF Within, CanRestore
<1> QED BY <1>2, <1>3, <1>4, <1>6, <1>7, Follows

(* Behind the comparison of what it took with what it installed, nothing    *)
(* under the name is the tool's.                                            *)
LEMMA InHandIsOurs ==
  ASSUME Inv, Running, task.pc \in {"restore", "discard", "undorestore"}, NEW j, j = task.i
  PROVE  OnHand(j) /\ fs[RollOf(j)] = Mine(j)
PROOF
<1>1. fs[RollOf(task.i)] = File(It.installed, It.payload) /\ It = task.items[task.i]
  BY ItFacts DEF Inv, TaskInv, Rollbacks
<1> QED BY <1>1 DEF OnHand, Taken, Mine, Unrecorded

LEMMA RestoringUnpublished ==
  ASSUME Inv, Running, Owing, Restoring, rollback_unpublished
  PROVE  Restoring'
PROOF
<1>1. /\ task.i \in Items /\ DOMAIN task = TaskFields /\ task.tool = "stage"
      /\ task.pc = "rollback" /\ task.pc \notin Special /\ It.installed = 0
      /\ fs' = fs /\ spent' = spent /\ Items = 1 .. Last /\ Last \in Nat
  BY ItFacts DEF rollback_unpublished, Stage, At, Special, Current, Taken
<1>2. CASE task' = Conflict
  <2>1. OnlyAt({})
    BY <1>1 DEF OnlyAt
  <2> QED BY <1>1, <1>2, <2>1, Reported DEF Conflict, Rolling
<1>3. CASE task' # Conflict
  <2>1. /\ task'.before = task.before /\ task'.report = task.report /\ task'.hurt = task.hurt
        /\ task'.tool = task.tool /\ task'.items = task.items
        /\ \/ task'.pc = "rollback" /\ task'.i = task.i - 1
           \/ task'.pc = "done" /\ task.i = 1 /\ task'.i = task.i
    BY <1>1, <1>3 DEF rollback_unpublished, Backward, TaskFields
  <2>2. SameTask /\ Updates(It)
    BY <1>1, <2>1, SameSpent DEF SameTask, Updates, KeepsItems
  <2>3. StepsBack("rollback")
    BY <1>1, <2>1 DEF StepsBack, Rolling
  <2>4. OnlyAt({TempOf(task.i), RollOf(task.i)})
    BY <1>1 DEF OnlyAt
  <2> QED BY <1>1, <2>1, <2>2, <2>3, <2>4, PlainStep
<1> QED BY <1>2, <1>3

(* rollback_take, undo_take and remove_created take the file aside alike.   *)
LEMMA TakesItAside ==
  ASSUME Inv, Running, Owing, Restoring, task.pc \in Rolling, It.installed # 0, SameTask, KeepsItems,
         task'.pc \in {"taken", "undotaken", "inspect"}, task'.i = task.i,
         Has(Pub(It.name)), Renamed(Pub(It.name), Hidden(It.name, "rollback"))
  PROVE  Restoring'
PROOF
<1>1. /\ task.i \in Items /\ RollOf(task.i) = Hidden(It.name, "rollback") /\ Course
      /\ Items = 1 .. Last /\ Last \in Nat /\ It = task.items[task.i]
  BY ItFacts DEF Restoring
<1>2. OnlyAt({Pub(It.name), RollOf(task.i)})
  BY <1>1 DEF OnlyAt, Renamed, Move, Has
<1>3. Frame /\ task'.items[task.i] = It
  BY <1>1, <1>2, FrameKept DEF OwnNames, KeepsItems
<1>4. Steady
  BY SteadyBack DEF Taken
<1>5. Course'
  BY <1>1, <1>3, CourseTurns DEF Turning, Taken
<1> QED BY <1>1, <1>3, <1>4, <1>5, TakeTool DEF KeepsItems

LEMMA RestoringTake ==
  ASSUME Inv, Running, Owing, Restoring, rollback_take
  PROVE  Restoring'
PROOF
<1>1. /\ DOMAIN task = TaskFields /\ task.tool = "stage" /\ task.pc = "rollback"
      /\ It.installed # 0 /\ spent' = spent
  BY ItFacts DEF rollback_take, Stage, At
<1>2. CASE Has(Pub(It.name))
  <2>1. /\ task' = To("taken") /\ Renamed(Pub(It.name), Hidden(It.name, "rollback"))
    BY <1>2 DEF rollback_take
  <2>2. SameTask /\ KeepsItems /\ task'.pc = "taken" /\ task'.i = task.i
    BY <1>1, <2>1, SameSpent DEF SameTask, KeepsItems, To, TaskFields
  <2> QED BY <1>1, <1>2, <2>1, <2>2, TakesItAside DEF Rolling
<1>3. CASE ~Has(Pub(It.name))
  <2>1. task' = Conflict /\ OnlyAt({})
    BY <1>3 DEF rollback_take, OnlyAt
  <2> QED BY <1>1, <2>1, Reported DEF Conflict, Rolling
<1> QED BY <1>2, <1>3

(* It is the tool's own: the rollback goes on with it in hand.              *)
LEMMA HoldsOurs ==
  ASSUME Inv, Running, Owing, Restoring, task.pc \in {"taken", "undotaken"},
         SameTask, KeepsItems, fs' = fs, task'.i = task.i,
         task'.pc \in {"restore", "undorestore"},
         fs[RollOf(task.i)] = File(It.installed, It.payload)
  PROVE  Restoring'
PROOF
<1>1. It = task.items[task.i] /\ Course /\ task.i \in Items /\ Items = 1 .. Last /\ Last \in Nat
  BY ItFacts DEF Restoring
<1>2. OnlyAt({}) /\ OnlyAt({TempOf(task.i), RollOf(task.i)})
  BY DEF OnlyAt
<1>3. Frame /\ task'.items[task.i] = It
  BY <1>1, <1>2, FrameKept DEF KeepsItems
<1>4. Steady
  BY SteadyBack DEF Taken
<1>5. Course'
  BY <1>1, <1>3, CourseTurns DEF Turning, Taken
<1>6. \A j : j = task.i => /\ OnHand(j) /\ fs[RollOf(j)] = Mine(j) /\ SameOriginal(j)
                           /\ MayBeAway(j)' /\ ~Rolled(j)'
  BY <1>1 DEF OnHand, Taken, Mine, Unrecorded, SameOriginal, KeepsItems, MayBeAway, Current,
    Rolled, Rolling
<1> QED BY <1>2, <1>3, <1>4, <1>5, <1>6, QuietTool

LEMMA RestoringRollbackCheck ==
  ASSUME Inv, Running, Owing, Restoring, rollback_check
  PROVE  Restoring'
PROOF
<1>1. /\ DOMAIN task = TaskFields /\ task.tool = "stage" /\ task.pc = "taken" /\ spent' = spent
      /\ RollOf(task.i) = Hidden(It.name, "rollback") /\ OrigOf(task.i) = Hidden(It.name, "original")
  BY ItFacts DEF rollback_check, Stage, At
<1>2. CASE fs[RollOf(task.i)] = File(It.installed, It.payload)
  <2>1. task' = To("restore") /\ fs' = fs
    BY <1>1, <1>2 DEF rollback_check
  <2>2. SameTask /\ KeepsItems /\ task'.pc = "restore" /\ task'.i = task.i
    BY <1>1, <2>1, SameSpent DEF SameTask, KeepsItems, To, TaskFields
  <2> QED BY <1>1, <1>2, <2>1, <2>2, HoldsOurs
<1>3. CASE fs[RollOf(task.i)] # File(It.installed, It.payload)
  <2>1. task' = Conflict /\ RestoredOr("rollback")
    BY <1>1, <1>3 DEF rollback_check
  <2>2. OnlyAt({RollOf(task.i), Pub(It.name)})
    BY <1>1, <2>1 DEF RestoredOr, CanRename, Renamed, Move, Has, OnlyAt
  <2>3. OrigOf(task.i) \notin {RollOf(task.i), Pub(It.name)}
    BY DEF OrigOf, RollOf, Pub, Hidden
  <2>4. {RollOf(task.i), Pub(It.name)} \subseteq OwnNames
    BY DEF OwnNames
  <2> QED BY <1>1, <2>1, <2>2, <2>3, <2>4, Reported DEF Conflict, Rolling, Taken
<1> QED BY <1>2, <1>3

LEMMA RestoringRestore ==
  ASSUME Inv, Running, Owing, Restoring, rollback_restore
  PROVE  Restoring'
PROOF
<1>1. /\ task.i \in Items /\ DOMAIN task = TaskFields /\ task.tool = "stage"
      /\ task.pc = "restore" /\ spent' = spent /\ It = task.items[task.i] /\ Course
      /\ OrigOf(task.i) = Hidden(It.name, "original")
  BY ItFacts DEF rollback_restore, Stage, At, Restoring
<1>2. PICK j : j = task.i
  OBVIOUS
<1>3. OnHand(j) /\ fs[RollOf(j)] = Mine(j) /\ ParkedWell(j)
  BY <1>1, <1>2, InHandIsOurs DEF Restoring
<1>4. CASE task' = To("discard")
  <2>1. SameTask /\ KeepsItems /\ task'.pc = "discard" /\ task'.i = task.i
    BY <1>1, <1>4, SameSpent DEF SameTask, KeepsItems, To, TaskFields
  <2>2. Steady
    BY <1>1, <2>1, SteadyBack DEF Taken
  <2>3. CASE It.orig = NoFile
    <3>1. fs' = fs
      BY <1>1, <2>3 DEF rollback_restore
    <3>2. OnlyAt({}) /\ OnlyAt({TempOf(task.i), RollOf(task.i)})
      BY <3>1 DEF OnlyAt
    <3>3. Frame /\ task'.items[task.i] = It
      BY <1>1, <2>1, <3>2, FrameKept DEF KeepsItems
    <3>4. Course'
      BY <1>1, <2>1, <3>3, CourseTurns DEF Turning, Taken
    <3>5. ~Has(OrigOf(j))
      BY <1>1, <1>2, <1>3, <2>3 DEF ParkedWell
    <3> QED BY <1>2, <1>3, <2>2, <3>2, <3>3, <3>4, <3>5, QuietTool
  <2>4. CASE It.orig # NoFile
    <3>1. /\ CanRename(OrigOf(j), Pub(It.name)) /\ fs' = Move(fs, OrigOf(j), Pub(It.name))
      <4>1. Conflict.pc # "discard"
        BY <1>1 DEF Conflict, Backward, TaskFields
      <4>2. task' # Conflict
        BY <2>1, <4>1
      <4> QED BY <1>1, <1>2, <2>4, <4>2 DEF rollback_restore, Renamed
    <3>2. OnlyAt({OrigOf(j), Pub(It.name)})
      BY <3>1 DEF CanRename, Has, Move, OnlyAt
    <3>3. Frame /\ task'.items[task.i] = It
      BY <1>1, <1>2, <2>1, <3>2, FrameKept DEF KeepsItems, OwnNames
    <3>4. Course'
      BY <1>1, <2>1, <3>3, CourseTurns DEF Turning, Taken
    <3>5. OrigOf(j)' = OrigOf(j) /\ OrigOf(j) # Pub(It.name)
      BY <1>1, <1>2, <3>3 DEF OrigOf, Hidden, Pub, Frame, NamesKept
    <3>6. /\ Has(OrigOf(j)) /\ ~Has(Pub(It.name)) /\ ~Has(OrigOf(j))'
          /\ Pub(It.name) \in DOMAIN fs' /\ fs'[Pub(It.name)] = fs[OrigOf(j)]
      BY <3>1, <3>5 DEF CanRename, Move, Has
    <3> QED BY <1>2, <1>3, <2>2, <3>3, <3>4, <3>6, ReturnTool
  <2> QED BY <2>3, <2>4
<1>5. CASE task' # To("discard")
  <2>1. task' = Conflict /\ OnlyAt({})
    BY <1>5 DEF rollback_restore, OnlyAt
  <2> QED BY <1>1, <2>1, Reported DEF Conflict, Rolling, Taken
<1> QED BY <1>4, <1>5

LEMMA RestoringDiscard ==
  ASSUME Inv, Running, Owing, Restoring, rollback_discard
  PROVE  Restoring'
PROOF
<1>1. /\ task.i \in Items /\ DOMAIN task = TaskFields /\ task.tool = "stage"
      /\ task.pc = "discard" /\ spent' = spent /\ Items = 1 .. Last /\ Last \in Nat
      /\ RollOf(task.i) = Hidden(It.name, "rollback")
  BY ItFacts DEF rollback_discard, Stage, At
<1>2. OnlyAt({RollOf(task.i)}) /\ OnlyAt({TempOf(task.i), RollOf(task.i)})
  BY <1>1 DEF rollback_discard, Drop, OnlyAt
<1>3. OrigOf(task.i) # RollOf(task.i) /\ {RollOf(task.i)} \subseteq OwnNames
  BY DEF OrigOf, RollOf, Hidden, OwnNames
<1>4. CASE task' = Conflict
  BY <1>1, <1>2, <1>3, <1>4, Reported DEF Conflict, Rolling, Taken
<1>5. CASE task' # Conflict
  <2>1. /\ task'.before = task.before /\ task'.report = task.report /\ task'.hurt = task.hurt
        /\ task'.tool = task.tool /\ task'.items = task.items
        /\ \/ task'.pc = "rollback" /\ task'.i = task.i - 1
           \/ task'.pc = "done" /\ task.i = 1 /\ task'.i = task.i
    BY <1>1, <1>5 DEF rollback_discard, Backward, TaskFields
  <2>2. SameTask /\ KeepsItems
    BY <1>1, <2>1, SameSpent DEF SameTask, KeepsItems
  <2>3. PICK j : j = task.i
    OBVIOUS
  <2>4. Frame
    BY <1>2, <1>3, <2>2, FrameKept
  <2>5. CalmAt(j)
    BY <1>2, <2>3, <2>4, CalmNames
  <2>6. ASSUME NEW b \in Open(j)
        PROVE  Kept(j, b)'
    <3>1. OnHand(j) /\ ~MayBeAway(j)
      BY <1>1, <2>3 DEF OnHand, Taken, MayBeAway, Current
    <3>2. Kept(j, b)
      BY <1>1, <2>3, <3>1 DEF Restoring, Within, CanRestore
    <3> QED BY <2>5, <3>2 DEF Kept, CalmAt, NoFile
  <2> QED BY <1>1, <1>2, <1>3, <2>1, <2>2, <2>3, <2>6, BackOver DEF Rolling, Taken
<1> QED BY <1>4, <1>5

LEMMA RestoringStagingForward ==
  ASSUME Inv, Running, Owing, Restoring,
         \/ snapshot_original \/ skip_unchanged \/ create_temporary \/ fill_temporary
         \/ park_original \/ check_parked \/ publish \/ record_publication
         \/ verify_installed \/ unwind \/ staging_io_error
  PROVE  Restoring'
PROOF BY RestoringSnapshot, RestoringWrites, RestoringPark, RestoringCheck, RestoringPublish,
  RestoringRecord, RestoringVerify, RestoringUnwind, RestoringStagingError

LEMMA RestoringStagingBack ==
  ASSUME Inv, Running, Owing, Restoring,
         \/ rollback_unpublished \/ rollback_take \/ rollback_check
         \/ rollback_restore \/ rollback_discard \/ rollback_io_error
  PROVE  Restoring'
PROOF
<1>1. CASE rollback_io_error
  <2>1. task' = Conflict /\ OnlyAt({}) /\ Fault /\ task.pc \in Rolling \cup Taken
    BY <1>1 DEF rollback_io_error, OnlyAt, Rolling, Taken
  <2> QED BY <2>1, Reported DEF Conflict, Rolling
<1> QED BY <1>1, RestoringUnpublished, RestoringTake, RestoringRollbackCheck, RestoringRestore,
  RestoringDiscard

-----------------------------------------------------------------------------
(* The presets.                                                             *)

LEMMA RestoringPrepare ==
  ASSUME Inv, Running, Owing, Restoring, prepare_output
  PROVE  Restoring'
PROOF
<1>1. /\ task.i \in Items /\ DOMAIN task = TaskFields /\ DOMAIN It = ItemFields
      /\ It = task.items[task.i] /\ Course /\ task.pc \in {"prepare", "forced"} /\ task.tool = "preset"
      /\ Items = 1 .. Last /\ Last \in Nat /\ task.pc \notin Special
      /\ fs' = fs /\ spent' = spent
  BY ItFacts DEF ItemOK, Restoring, prepare_output, Special, Current, Taken
<1>2. OnlyAt({}) /\ OnlyAt({TempOf(task.i), RollOf(task.i)})
  BY <1>1 DEF OnlyAt
<1>3. CASE task' = [task EXCEPT !.pc = "done", !.result = "failed"]
  <2>1. SameTask /\ Updates(It) /\ task'.pc = "done" /\ task'.i = task.i
    BY <1>1, <1>3, SameSpent DEF SameTask, Updates, KeepsItems, TaskFields
  <2>2. NothingDone
    BY <1>1, <2>1 DEF NothingDone, Untouched
  <2> QED BY <1>1, <1>2, <2>1, <2>2, PlainStep
<1>4. CASE task' # [task EXCEPT !.pc = "done", !.result = "failed"]
  <2>1. PICK now : now = Look(Pub(It.name))
    OBVIOUS
  <2>2. PICK it : it = [It EXCEPT !.orig = now]
    OBVIOUS
  <2>3. PICK t : t = [task EXCEPT !.items[task.i].orig = now, !.touched = Settled(It.name)]
    OBVIOUS
  <2>4. /\ DOMAIN t = TaskFields /\ t.tool = task.tool /\ t.left = task.left /\ t.i = task.i
        /\ t.items = [task.items EXCEPT ![task.i] = it]
        /\ t.before = task.before /\ t.report = task.report /\ t.hurt = task.hurt
    BY <1>1, <2>2, <2>3 DEF It, TaskFields
  <2>5. task' = Forward(t, task.pc, "allocate")
    BY <1>4, <2>1, <2>3 DEF prepare_output
  <2>6. SetsItem(it) /\ task'.i \in Items /\ task'.pc \in {task.pc, "allocate"}
    BY <2>4, <2>5, NextItem DEF Goes
  <2>7. SameTask
    BY <1>1, <2>4, <2>5, SameSpent DEF SameTask, Forward, TaskFields
  <2>8. /\ it.name = It.name /\ it.payload = It.payload /\ it.temp = It.temp
        /\ it.installed = It.installed /\ it.backup = It.backup
    BY <1>1, <2>2 DEF ItemFields
  <2>9. Frame /\ task'.items[task.i] = it
    BY <1>2, <2>6, <2>7, <2>8, FrameSet
  <2>10. Steady
    BY <1>1, <2>6, SteadyOn DEF Rolling, Taken, Current
  <2>11. Course'
    BY <1>1, <2>6, <2>8, <2>9, CourseGoes DEF Untouched, Coming, Going, Migrating
  <2>12. ~Has(OrigOf(task.i))
    BY <1>1, UnusedNames DEF Inv, TaskInv, Ahead
  <2>13. \A j : j = task.i => ~Rolled(j)'
    BY <1>1, <2>6 DEF Rolled, Rolling, Taken
  <2>14. task'.pc \notin Taken \cup {"record", "own"}
    BY <1>1, <2>6 DEF Taken
  <2> QED BY <1>1, <1>2, <2>8, <2>9, <2>10, <2>11, <2>12, <2>13, <2>14, PlainTool
<1> QED BY <1>3, <1>4

LEMMA RestoringAllocate ==
  ASSUME Inv, Running, Owing, Restoring, allocate_temporary \/ fill_preset
  PROVE  Restoring'
PROOF
<1>1. /\ task.i \in Items /\ DOMAIN task = TaskFields /\ DOMAIN It = ItemFields
      /\ It = task.items[task.i] /\ task.tool = "preset" /\ task.pc \in {"allocate", "fillpair"}
      /\ Items = 1 .. Last /\ Last \in Nat /\ TempOf(task.i) = Hidden(It.name, "temporary")
      /\ Last = Len(task.items) /\ task.pc \notin Special
  BY ItFacts DEF ItemOK, allocate_temporary, fill_preset, Preset, At, Last, Special, Current, Taken
<1>2. CASE allocate_temporary
  <2>1. PICK it : it = [It EXCEPT !.temp = NewId]
    OBVIOUS
  <2>2. /\ task'.before = task.before /\ task'.report = task.report /\ task'.hurt = task.hurt
        /\ task'.tool = task.tool /\ task'.items = [task.items EXCEPT ![task.i] = it]
        /\ task'.pc = "fillpair" /\ task'.i = task.i
    BY <1>1, <1>2, <2>1 DEF allocate_temporary, With, TaskFields
  <2>3. /\ it.name = It.name /\ it.payload = It.payload /\ it.temp = NewId
        /\ it.installed = It.installed /\ it.backup = It.backup /\ it.orig = It.orig
    BY <1>1, <2>1 DEF ItemFields
  <2>4. SameTask
    BY <1>2, <2>2, SameSpent DEF SameTask, allocate_temporary
  <2>5. Updates(it)
    BY <2>2, <2>3 DEF Updates, SetsItem
  <2>6. GoesOn(it)
    BY <1>1, <2>2 DEF GoesOn, Coming, Untouched, Going
  <2>7. OnlyAt({TempOf(task.i), RollOf(task.i)})
    BY <1>1, <1>2 DEF allocate_temporary, OnlyAt, Put
  <2> QED BY <1>1, <2>2, <2>3, <2>4, <2>5, <2>6, <2>7, PlainStep
<1>3. CASE fill_preset
  <2>1. /\ task'.before = task.before /\ task'.report = task.report /\ task'.hurt = task.hurt
        /\ task'.tool = task.tool /\ task'.items = task.items /\ spent' = spent
        /\ \/ task'.pc = "allocate" /\ task'.i = task.i + 1 /\ task.i < Last
           \/ task'.pc = "backup" /\ task'.i = 1
    BY <1>1, <1>3 DEF fill_preset, Forward, TaskFields
  <2>2. SameTask /\ Updates(It)
    BY <2>1, SameSpent DEF SameTask, Updates, KeepsItems
  <2>3. GoesOn(It)
    <3>1. task'.i \in Items
      BY <1>1, <2>1
    <3> QED BY <1>1, <2>1, <3>1 DEF GoesOn, Coming, Untouched, Going
  <2>4. OnlyAt({TempOf(task.i), RollOf(task.i)})
    BY <1>1, <1>3 DEF fill_preset, OnlyAt, Put
  <2> QED BY <1>1, <2>1, <2>2, <2>3, <2>4, PlainStep
<1> QED BY <1>2, <1>3

LEMMA RestoringBackUp ==
  ASSUME Inv, Running, Owing, Restoring, back_up
  PROVE  Restoring'
PROOF
<1>1. /\ task.i \in Items /\ DOMAIN task = TaskFields /\ DOMAIN It = ItemFields
      /\ It = task.items[task.i] /\ task.tool = "preset" /\ task.pc = "backup"
      /\ task.pc \notin Special /\ fs' = fs /\ spent' = spent
  BY ItFacts DEF ItemOK, back_up, Preset, At, Special, Current, Taken
<1>2. OnlyAt({TempOf(task.i), RollOf(task.i)})
  BY <1>1 DEF OnlyAt
<1>3. CASE It.orig = NoFile
  <2>1. /\ task'.before = task.before /\ task'.report = task.report /\ task'.hurt = task.hurt
        /\ task'.tool = task.tool /\ task'.items = task.items
        /\ task'.pc = "install" /\ task'.i = task.i
    BY <1>1, <1>3 DEF back_up, To, TaskFields
  <2>2. SameTask /\ Updates(It)
    BY <1>1, <2>1, SameSpent DEF SameTask, Updates, KeepsItems
  <2>3. GoesOn(It)
    BY <1>1, <2>1 DEF GoesOn, Coming, Untouched, Going
  <2> QED BY <1>1, <1>2, <2>1, <2>2, <2>3, PlainStep
<1>4. CASE It.orig # NoFile
  <2>1. PICK it : it = [It EXCEPT !.backup = TRUE]
    OBVIOUS
  <2>2. /\ task'.before = task.before /\ task'.report = task.report /\ task'.hurt = task.hurt
        /\ task'.tool = task.tool /\ task'.items = [task.items EXCEPT ![task.i] = it]
        /\ task'.pc = "parkpair" /\ task'.i = task.i
    BY <1>1, <1>4, <2>1 DEF back_up, With, TaskFields
  <2>3. /\ it.name = It.name /\ it.payload = It.payload /\ it.temp = It.temp
        /\ it.installed = It.installed /\ it.backup /\ it.orig = It.orig
    BY <1>1, <2>1 DEF ItemFields
  <2>4. SameTask /\ Updates(it)
    BY <1>1, <2>2, <2>3, SameSpent DEF SameTask, Updates, SetsItem
  <2>5. GoesOn(it)
    BY <1>1, <1>4, <2>2, <2>3 DEF GoesOn, Coming, Untouched, Going
  <2> QED BY <1>1, <1>2, <2>2, <2>3, <2>4, <2>5, PlainStep
<1> QED BY <1>3, <1>4

LEMMA RestoringParkPreset ==
  ASSUME Inv, Running, Owing, Restoring, park_preset
  PROVE  Restoring'
PROOF
<1>1. /\ task.i \in Items /\ DOMAIN task = TaskFields /\ It = task.items[task.i]
      /\ Items = 1 .. Last /\ Last \in Nat /\ OrigOf(task.i) = Hidden(It.name, "original")
      /\ Course /\ task.tool = "preset" /\ task.pc = "parkpair" /\ task.pc \notin Special
  BY ItFacts DEF park_preset, Preset, At, Restoring, Special, Current, Taken
<1>2. /\ task'.before = task.before /\ task'.report = task.report /\ task'.hurt = task.hurt
      /\ task'.tool = task.tool /\ task'.items = task.items /\ spent' = spent
  BY <1>1 DEF park_preset, To, TaskFields
<1>3. SameTask /\ KeepsItems /\ Updates(It)
  BY <1>2, SameSpent DEF SameTask, KeepsItems, Updates
<1>4. CASE Has(Pub(It.name))
  <2>1. Renamed(Pub(It.name), OrigOf(task.i)) /\ task'.pc = "compare" /\ task'.i = task.i
    BY <1>1, <1>4 DEF park_preset, To, TaskFields
  <2>2. OnlyAt({Pub(It.name), OrigOf(task.i)})
    BY <1>4, <2>1 DEF OnlyAt, Renamed, Move, Has
  <2>3. Frame
    BY <1>3, <2>2, FrameKept DEF OwnNames
  <2>4. Steady
    BY <2>1, SteadyOn DEF Rolling, Taken
  <2>5. It.installed = 0 /\ It.orig # NoFile /\ It.backup
    BY <1>1 DEF Course
  <2>6. Course'
    BY <1>1, <1>2, <2>1, <2>3, <2>5, CourseGoes DEF Untouched, Coming, Going, Migrating
  <2> QED BY <1>1, <1>2, <1>4, <2>1, <2>3, <2>4, <2>5, <2>6, ParkTool
<1>5. CASE ~Has(Pub(It.name))
  <2>1. fs' = fs /\ task'.pc = "undo" /\ task'.i = Last
    BY <1>1, <1>5 DEF park_preset, TaskFields
  <2>2. TurnsToLast /\ OnlyAt({TempOf(task.i), RollOf(task.i)})
    BY <2>1 DEF TurnsToLast, Rolling, OnlyAt
  <2> QED BY <1>1, <1>3, <2>1, <2>2, PlainStep
<1> QED BY <1>4, <1>5

LEMMA RestoringCompare ==
  ASSUME Inv, Running, Owing, Restoring, compare_backup
  PROVE  Restoring'
PROOF
<1>1. /\ task.i \in Items /\ DOMAIN task = TaskFields /\ DOMAIN It = ItemFields
      /\ It = task.items[task.i] /\ Items = 1 .. Last /\ Last \in Nat
      /\ OrigOf(task.i) = Hidden(It.name, "original") /\ spent' = spent
      /\ Course /\ task.tool = "preset" /\ task.pc = "compare" /\ task.pc \notin Special
  BY ItFacts DEF ItemOK, compare_backup, Preset, At, Restoring, Special, Current, Taken
<1>2. CASE fs' = fs /\ (task' = To("install") \/ task' = [task EXCEPT !.pc = "undo", !.i = Last])
  <2>1. /\ task'.before = task.before /\ task'.report = task.report /\ task'.hurt = task.hurt
        /\ task'.tool = task.tool /\ task'.items = task.items
        /\ \/ task'.pc = "install" /\ task'.i = task.i
           \/ task'.pc = "undo" /\ task'.i = Last
    BY <1>1, <1>2 DEF To, TaskFields
  <2>2. SameTask /\ Updates(It)
    BY <1>1, <2>1, SameSpent DEF SameTask, KeepsItems, Updates
  <2>3. GoesOn(It) \/ TurnsToLast
    BY <1>1, <2>1 DEF GoesOn, TurnsToLast, Rolling, Untouched, Coming, Going
  <2>4. OnlyAt({TempOf(task.i), RollOf(task.i)})
    BY <1>2 DEF OnlyAt
  <2> QED BY <1>1, <2>1, <2>2, <2>3, <2>4, PlainStep
<1>3. CASE ~(fs' = fs /\ (task' = To("install") \/ task' = [task EXCEPT !.pc = "undo", !.i = Last]))
  <2>1. PICK it : it = [It EXCEPT !.backup = FALSE]
    OBVIOUS
  <2>2. PICK to : to = Pub(It.name)
    OBVIOUS
  <2>3. /\ Restorable(It) /\ Renamed(OrigOf(task.i), to)
        /\ task' = [With(it, "undo") EXCEPT !.i = Last]
    BY <1>1, <1>3, <2>1, <2>2 DEF compare_backup
  <2>4. /\ task'.before = task.before /\ task'.report = task.report /\ task'.hurt = task.hurt
        /\ task'.tool = task.tool /\ task'.items = [task.items EXCEPT ![task.i] = it]
        /\ task'.pc = "undo" /\ task'.i = Last
    BY <1>1, <2>3 DEF With, TaskFields
  <2>5. /\ it.name = It.name /\ it.payload = It.payload /\ it.temp = It.temp
        /\ it.installed = It.installed /\ it.orig = It.orig
    BY <1>1, <2>1 DEF ItemFields
  <2>6. SameTask /\ Updates(it)
    BY <1>1, <2>4, <2>5, SameSpent DEF SameTask, SetsItem, Updates
  <2>7. Has(OrigOf(task.i)) /\ ~Has(to) /\ OrigOf(task.i) # to
    BY <1>1, <2>2, <2>3 DEF Restorable, CanRename, OrigOf, Hidden, Pub
  <2>8. /\ OrigOf(task.i) \notin DOMAIN fs' /\ to \in DOMAIN fs' /\ fs'[to] = fs[OrigOf(task.i)]
        /\ OnlyAt({OrigOf(task.i), to})
    BY <2>3, <2>7 DEF Renamed, Move, OnlyAt, Has
  <2>9. Frame /\ task'.items[task.i] = it
    BY <2>2, <2>6, <2>8, FrameOf DEF OwnNames
  <2>10. Steady
    BY <2>4, SteadyFromLast DEF Rolling
  <2>11. Course'
    BY <1>1, <2>4, <2>5, <2>9, CourseTurns DEF Turning, Rolling
  <2>12. PICK j : j = task.i
    OBVIOUS
  <2>13. ~Has(OrigOf(j))'
    <3>1. OrigOf(j)' = OrigOf(j)
      BY <1>1, <2>9, <2>12 DEF OrigOf, Hidden, Frame, NamesKept
    <3> QED BY <2>8, <2>12, <3>1 DEF Has
  <2>14. ~Stands(j) /\ ~OnHand(j)
    BY <1>1, <2>12 DEF Course, Stands, Unrecorded, OnHand, Taken
  <2> QED BY <1>1, <2>2, <2>7, <2>8, <2>9, <2>10, <2>11, <2>12, <2>13, <2>14, ReturnTool
<1> QED BY <1>2, <1>3

LEMMA RestoringInstall ==
  ASSUME Inv, Running, Owing, Restoring, install_preset
  PROVE  Restoring'
PROOF
<1>1. /\ task.i \in Items /\ DOMAIN task = TaskFields /\ It = task.items[task.i]
      /\ Items = 1 .. Last /\ Last \in Nat /\ TempOf(task.i) = Hidden(It.name, "temporary")
      /\ Course /\ task.tool = "preset" /\ task.pc = "install" /\ task.pc \notin Special
  BY ItFacts DEF install_preset, Preset, At, Restoring, Special, Current, Taken
<1>2. /\ task'.before = task.before /\ task'.report = task.report /\ task'.hurt = task.hurt
      /\ task'.tool = task.tool /\ task'.items = task.items /\ spent' = spent
  BY <1>1 DEF install_preset, To, TaskFields
<1>3. SameTask /\ KeepsItems /\ Updates(It)
  BY <1>2, SameSpent DEF SameTask, KeepsItems, Updates
<1>4. CASE Has(Pub(It.name))
  <2>1. fs' = fs /\ task'.pc = "undo" /\ task'.i = Last
    BY <1>1, <1>4 DEF install_preset, TaskFields
  <2>2. TurnsToLast /\ OnlyAt({TempOf(task.i), RollOf(task.i)})
    BY <2>1 DEF TurnsToLast, Rolling, OnlyAt
  <2> QED BY <1>1, <1>3, <2>1, <2>2, PlainStep
<1>5. CASE ~Has(Pub(It.name))
  <2>1. Renamed(TempOf(task.i), Pub(It.name)) /\ task'.pc = "own" /\ task'.i = task.i
    BY <1>1, <1>5 DEF install_preset, To, TaskFields
  <2>2. Ready(task.i)
    BY <1>1 DEF Inv, TaskInv, Temporaries
  <2>3. OnlyAt({TempOf(task.i), Pub(It.name)}) /\ OrigOf(task.i) # TempOf(task.i)
    BY <2>1, <2>2 DEF OnlyAt, Renamed, Move, OrigOf, TempOf, Hidden, Ready, Has
  <2>4. Frame /\ task'.items[task.i] = It
    BY <1>1, <1>3, <2>3, FrameKept DEF KeepsItems, OwnNames
  <2>5. Steady
    BY <2>1, SteadyOn DEF Rolling, Taken
  <2>6. It.installed = 0
    BY <1>1 DEF Course
  <2>7. Course'
    BY <1>1, <1>2, <2>1, <2>4, CourseGoes DEF Untouched, Coming, Going, Migrating
  <2>8. PICK mine : mine = File(It.temp, It.payload)
    OBVIOUS
  <2>9. \A j : j = task.i => /\ ~Stands(j) /\ ~OnHand(j) /\ Stands(j)' /\ ~OnHand(j)' /\ ~Rolled(j)'
                             /\ SameOriginal(j)
    BY <1>1, <1>2, <2>1, <2>6 DEF Stands, Unrecorded, OnHand, Taken, Rolled, Rolling, SameOriginal
  <2>10. \A j : j = task.i => Mine(j)' = mine
    BY <1>1, <1>2, <2>1, <2>8 DEF Mine, Unrecorded, File
  <2> QED BY <1>1, <1>5, <2>1, <2>2, <2>3, <2>4, <2>5, <2>7, <2>8, <2>9, <2>10, PublishTool
<1> QED BY <1>4, <1>5

LEMMA RestoringOwn ==
  ASSUME Inv, Running, Owing, Restoring, own_preset
  PROVE  Restoring'
PROOF
<1>1. /\ task.i \in Items /\ DOMAIN task = TaskFields /\ DOMAIN It = ItemFields
      /\ It = task.items[task.i] /\ task.tool = "preset" /\ task.pc = "own"
      /\ Items = 1 .. Last /\ Last \in Nat
  BY ItFacts DEF ItemOK, own_preset, Preset, At
<1>2. PICK it : it = Owned
  OBVIOUS
<1>3. /\ it.name = It.name /\ it.payload = It.payload /\ it.temp = 0 /\ it.installed = It.temp
      /\ it.orig = It.orig /\ (It.backup => it.backup)
  BY <1>1, <1>2 DEF Owned, ItemFields
<1>4. PICK t : t = With(it, "backup")
  OBVIOUS
<1>5. /\ DOMAIN t = TaskFields /\ t.tool = task.tool /\ t.left = task.left /\ t.i = task.i
      /\ t.items = [task.items EXCEPT ![task.i] = it]
      /\ t.before = task.before /\ t.report = task.report /\ t.hurt = task.hurt
  BY <1>1, <1>4 DEF With, TaskFields
<1>6. task' = Forward(t, "backup", "confirm") /\ fs' = fs /\ spent' = spent
  BY <1>2, <1>4 DEF own_preset
<1>7. /\ SetsItem(it) /\ task'.i \in Items
      /\ \/ task'.pc = "backup" /\ task'.i = task.i + 1
         \/ task'.pc = "confirm"
  BY <1>5, <1>6, NextItem DEF Goes
<1>8. SameTask
  BY <1>5, <1>6, SameSpent DEF SameTask, Forward, TaskFields
<1>9. GoesOn(it)
  BY <1>1, <1>7 DEF GoesOn, Coming, Untouched, Going
<1> QED BY <1>1, <1>3, <1>6, <1>7, <1>8, <1>9, RecordsItsFile

LEMMA RestoringConfirm ==
  ASSUME Inv, Running, Owing, Restoring, confirm_preset
  PROVE  Restoring'
PROOF
<1>1. /\ task.i \in Items /\ DOMAIN task = TaskFields /\ It = task.items[task.i]
      /\ Items = 1 .. Last /\ Last \in Nat /\ Last = Len(task.items)
      /\ task.tool = "preset" /\ task.pc = "confirm" /\ task.pc \notin Special
  BY ItFacts DEF confirm_preset, Preset, At, Last, Special, Current, Taken
<1>2. PICK t : t = [task EXCEPT !.touched = Settled(It.name)]
  OBVIOUS
<1>3. /\ DOMAIN t = TaskFields /\ t.tool = task.tool /\ t.i = task.i /\ t.items = task.items
      /\ t.before = task.before /\ t.report = task.report /\ t.hurt = task.hurt
  BY <1>1, <1>2 DEF TaskFields
<1>4. /\ fs' = fs /\ spent' = spent
      /\ task' = Forward(t, "confirm", "purge") \/ task' = [t EXCEPT !.pc = "undo", !.i = Last]
  BY <1>2 DEF confirm_preset
<1>5. /\ task'.before = task.before /\ task'.report = task.report /\ task'.hurt = task.hurt
      /\ task'.tool = task.tool /\ task'.items = task.items
      /\ \/ task'.pc = "confirm" /\ task'.i = task.i + 1 /\ task.i < Last
         \/ task'.pc = "purge"
         \/ task'.pc = "undo" /\ task'.i = Last
  <2>1. CASE task' = Forward(t, "confirm", "purge")
    BY <1>1, <1>3, <2>1 DEF Forward, TaskFields
  <2>2. CASE task' = [t EXCEPT !.pc = "undo", !.i = Last]
    BY <1>1, <1>3, <2>2 DEF TaskFields
  <2> QED BY <1>4, <2>1, <2>2
<1>6. CASE task'.pc = "purge"
  BY <1>5, <1>6 DEF Restoring, HurtTurnsBack, Owing
<1>7. CASE task'.pc # "purge"
  <2>1. SameTask /\ Updates(It)
    BY <1>4, <1>5, SameSpent DEF SameTask, Updates, KeepsItems
  <2>2. GoesOn(It) \/ TurnsToLast
    <3>1. task'.pc = "confirm" => task'.i \in Items
      BY <1>1, <1>5
    <3> QED BY <1>5, <1>7, <3>1 DEF GoesOn, TurnsToLast, Rolling, Untouched, Coming, Going
  <2>3. OnlyAt({TempOf(task.i), RollOf(task.i)})
    BY <1>4 DEF OnlyAt
  <2> QED BY <1>1, <1>5, <1>7, <2>1, <2>2, <2>3, PlainStep
<1> QED BY <1>6, <1>7

LEMMA RestoringPresetFault ==
  ASSUME Inv, Running, Owing, Restoring, preset_fault
  PROVE  Restoring'
PROOF
<1>1. /\ task.i \in Items /\ DOMAIN task = TaskFields /\ DOMAIN It = ItemFields
      /\ It = task.items[task.i] /\ task.tool = "preset" /\ Fault /\ fs' = fs
      /\ Items = 1 .. Last /\ Last \in Nat
      /\ task.pc \in {"prepare", "forced", "allocate", "fillpair", "backup", "parkpair",
                      "compare", "install", "own", "confirm"}
  BY ItFacts DEF ItemOK, preset_fault, Owing
<1>2. PICK interrupted \in BOOLEAN :
        task' = Undone(IF task.pc = "own" /\ ~interrupted THEN With(Owned, "own") ELSE task,
                       interrupted)
  BY <1>1 DEF preset_fault
<1>3. PICK it : it = IF task.pc = "own" /\ ~interrupted THEN Owned ELSE It
  OBVIOUS
<1>4. /\ it.name = It.name /\ it.payload = It.payload /\ it.orig = It.orig
      /\ (It.backup => it.backup)
      /\ IF task.pc = "own" /\ ~interrupted THEN it.installed = It.temp /\ it.temp = 0
                                            ELSE it = It
  BY <1>1, <1>3 DEF Owned, ItemFields
<1>5. /\ task'.before = task.before /\ task'.report = task.report /\ task'.hurt = interrupted
      /\ task'.tool = task.tool /\ task'.pc = "undo" /\ task'.i = Last
  BY <1>1, <1>2 DEF Undone, With, TaskFields
<1>6. CASE interrupted
  BY <1>5, <1>6 DEF Restoring, HurtTurnsBack, Owing
<1>7. CASE ~interrupted /\ task.pc = "own"
  <2>1. task'.items = [task.items EXCEPT ![task.i] = it]
    BY <1>1, <1>2, <1>3, <1>7 DEF Undone, With, TaskFields
  <2>2. SameTask /\ SetsItem(it)
    BY <1>1, <1>5, <1>7, <2>1, SameSpent DEF SameTask, SetsItem, Owing, Restoring, HurtTurnsBack
  <2>3. TurnsToLast
    BY <1>5 DEF TurnsToLast, Rolling
  <2> QED BY <1>1, <1>4, <1>7, <2>2, <2>3, RecordsItsFile
<1>8. CASE ~interrupted /\ task.pc # "own"
  <2>1. task'.items = task.items
    BY <1>1, <1>2, <1>8 DEF Undone, TaskFields
  <2>2. SameTask /\ Updates(It)
    BY <1>1, <1>5, <1>8, <2>1, SameSpent DEF SameTask, KeepsItems, Updates, Owing, Restoring, HurtTurnsBack
  <2>3. TurnsToLast /\ OnlyAt({TempOf(task.i), RollOf(task.i)}) /\ task.pc \notin Special
    BY <1>1, <1>5, <1>8 DEF TurnsToLast, Rolling, OnlyAt, Special, Current, Taken
  <2> QED BY <1>5, <2>2, <2>3, PlainStep
<1> QED BY <1>6, <1>7, <1>8

LEMMA RestoringUndoTake ==
  ASSUME Inv, Running, Owing, Restoring, undo_take
  PROVE  Restoring'
PROOF
<1>1. /\ DOMAIN task = TaskFields /\ task.tool = "preset" /\ task.pc = "undo"
      /\ It.installed # 0 /\ spent' = spent
  BY ItFacts DEF undo_take, Preset, At
<1>2. CASE Has(Pub(It.name))
  <2>1. /\ task' = To("undotaken") /\ Renamed(Pub(It.name), Hidden(It.name, "rollback"))
    BY <1>2 DEF undo_take
  <2>2. SameTask /\ KeepsItems /\ task'.pc = "undotaken" /\ task'.i = task.i
    BY <1>1, <2>1, SameSpent DEF SameTask, KeepsItems, To, TaskFields
  <2> QED BY <1>1, <1>2, <2>1, <2>2, TakesItAside DEF Rolling
<1>3. CASE ~Has(Pub(It.name))
  <2>1. task' = Failure /\ OnlyAt({})
    BY <1>3 DEF undo_take, OnlyAt
  <2> QED BY <1>1, <2>1, Reported DEF Failure, Rolling
<1> QED BY <1>2, <1>3

LEMMA RestoringUndoCheck ==
  ASSUME Inv, Running, Owing, Restoring, undo_check
  PROVE  Restoring'
PROOF
<1>1. /\ DOMAIN task = TaskFields /\ task.tool = "preset" /\ task.pc = "undotaken" /\ spent' = spent
      /\ RollOf(task.i) = Hidden(It.name, "rollback") /\ Has(RollOf(task.i))
  BY ItFacts DEF undo_check, Preset, At, Inv, TaskInv, Rollbacks, Taken
<1>2. CASE fs[RollOf(task.i)] = File(It.installed, It.payload)
  <2>1. task' = To("undorestore") /\ fs' = fs
    BY <1>1, <1>2 DEF undo_check
  <2>2. SameTask /\ KeepsItems /\ task'.pc = "undorestore" /\ task'.i = task.i
    BY <1>1, <2>1, SameSpent DEF SameTask, KeepsItems, To, TaskFields
  <2> QED BY <1>1, <1>2, <2>1, <2>2, HoldsOurs
<1>3. CASE fs[RollOf(task.i)] # File(It.installed, It.payload)
  <2>1. /\ task' = Failure
        /\ fs' = fs \/ Renamed(RollOf(task.i), Pub(It.name))
    BY <1>1, <1>3 DEF undo_check
  <2>2. OnlyAt({RollOf(task.i), Pub(It.name)})
    BY <1>1, <2>1 DEF Renamed, Move, Has, OnlyAt
  <2>3. OrigOf(task.i) \notin {RollOf(task.i), Pub(It.name)}
    BY DEF OrigOf, RollOf, Pub, Hidden
  <2>4. {RollOf(task.i), Pub(It.name)} \subseteq OwnNames
    BY DEF OwnNames
  <2> QED BY <1>1, <2>1, <2>2, <2>3, <2>4, Reported DEF Failure, Rolling, Taken
<1> QED BY <1>2, <1>3

(* The parked original is under its name again, with nothing of the tool's  *)
(* left to undo there.                                                      *)
LEMMA BackAgain ==
  ASSUME Inv, Running, Restoring, Owing, NEW j, j = task.i,
         ~Has(Pub(It.name)), Has(OrigOf(j)), Now(j)' = fs[OrigOf(j)],
         Stands(j) => OnHand(j), OnHand(j) => fs[RollOf(j)] = Mine(j)
  PROVE  \A b \in Open(j) : Kept(j, b)'
PROOF
<1>1. j \in Items /\ ParkedWell(j) /\ Within(j) /\ It = task.items[j] /\ NoFile' = NoFile
  BY ItFacts DEF Restoring, NoFile
<1>2. Now(j) = NoFile
  BY <1>1 DEF Now, Look
<1> SUFFICES ASSUME NEW b \in Open(j)
             PROVE  Kept(j, b)'
  OBVIOUS
<1>3. fs[OrigOf(j)] \in b.had
  BY <1>1 DEF ParkedWell
<1>4. Kept(j, b) \/ Away(j, b)
  BY <1>1 DEF Within, CanRestore
<1> QED BY <1>1, <1>2, <1>3, <1>4 DEF Kept, Away

LEMMA RestoringUndoRestore ==
  ASSUME Inv, Running, Owing, Restoring, undo_restore
  PROVE  Restoring'
PROOF
<1>1. /\ task.i \in Items /\ DOMAIN task = TaskFields /\ task.tool = "preset"
      /\ task.pc = "undorestore" /\ spent' = spent /\ It = task.items[task.i]
      /\ Items = 1 .. Last /\ Last \in Nat
      /\ OrigOf(task.i) = Hidden(It.name, "original") /\ RollOf(task.i) = Hidden(It.name, "rollback")
  BY ItFacts DEF undo_restore, Preset, At
<1>2. PICK j : j = task.i
  OBVIOUS
<1>3. OnHand(j) /\ fs[RollOf(j)] = Mine(j) /\ ParkedWell(j) /\ Within(j)
  BY <1>1, <1>2, InHandIsOurs DEF Restoring
<1>4. /\ OrigOf(task.i) # Pub(It.name) /\ OrigOf(task.i) # RollOf(task.i)
      /\ RollOf(task.i) # Pub(It.name)
  BY DEF OrigOf, RollOf, Pub, Hidden
<1>5. CASE task' = Failure /\ fs' = fs
  <2>1. OnlyAt({})
    BY <1>5 DEF OnlyAt
  <2> QED BY <1>1, <1>5, <2>1, Reported DEF Failure, Rolling, Taken
<1>6. CASE ~(task' = Failure /\ fs' = fs)
  <2>1. PICK u : task' = Backward([task EXCEPT !.touched = u], "undo")
    BY <1>6 DEF undo_restore
  <2>2. /\ task'.before = task.before /\ task'.report = task.report /\ task'.hurt = task.hurt
        /\ task'.tool = task.tool /\ task'.items = task.items
        /\ \/ task'.pc = "undo" /\ task'.i = task.i - 1
           \/ task'.pc = "done" /\ task.i = 1 /\ task'.i = task.i
    BY <1>1, <2>1 DEF Backward, TaskFields
  <2>3. SameTask /\ KeepsItems
    BY <1>1, <2>2, SameSpent DEF SameTask, KeepsItems
  <2>4. /\ Pub(task.items[j].name)' = Pub(It.name) /\ OrigOf(j)' = OrigOf(j)
    BY <1>1, <1>2, <2>2, <2>3 DEF Pub, OrigOf, Hidden, SameTask
  <2>5. CASE It.backup
    <3>1. /\ CanRename(OrigOf(j), Pub(It.name))
          /\ fs' = Drop(Move(fs, OrigOf(j), Pub(It.name)), RollOf(j))
      BY <1>1, <1>2, <1>6, <2>5 DEF undo_restore, Restorable
    <3>2. OnlyAt({OrigOf(j), Pub(It.name), RollOf(j)})
      BY <3>1 DEF CanRename, Has, Move, Drop, OnlyAt
    <3>3. OrigOf(j) \notin DOMAIN fs' /\ Pub(It.name) \in DOMAIN fs'
          /\ fs'[Pub(It.name)] = fs[OrigOf(j)]
      BY <1>2, <1>4, <3>1 DEF CanRename, Move, Drop
    <3>4. Now(j)' = fs[OrigOf(j)] /\ ~Has(OrigOf(j))'
      BY <2>4, <3>3 DEF Now, Look, Has
    <3>5. \A b \in Open(j) : Kept(j, b)'
      BY <1>2, <1>3, <3>1, <3>4, BackAgain DEF CanRename
    <3>6. {OrigOf(j), Pub(It.name), RollOf(j)} \subseteq OwnNames
      BY <1>2 DEF OwnNames
    <3> QED BY <1>1, <1>2, <2>2, <2>3, <3>2, <3>4, <3>5, <3>6, BackOver DEF Rolling, Taken
  <2>6. CASE ~It.backup
    <3>1. fs' = Drop(fs, RollOf(j))
      BY <1>1, <1>2, <2>6 DEF undo_restore
    <3>2. OnlyAt({RollOf(j)}) /\ Now(j)' = Now(j)
      BY <1>1, <1>2, <1>4, <2>4, <3>1 DEF Drop, OnlyAt, Now, Look, Has, NoFile
    <3>3. ~Has(OrigOf(j))
      BY <1>1, <1>2, <1>3, <2>6 DEF ParkedWell
    <3>4. ASSUME NEW b \in Open(j)
          PROVE  Kept(j, b)'
      <4>1. Kept(j, b)
        BY <1>3, <3>3 DEF Within, CanRestore, Away
      <4> QED BY <3>2, <4>1 DEF Kept, NoFile
    <3>5. {RollOf(j)} \subseteq OwnNames /\ OrigOf(j) \notin {RollOf(j)}
      BY <1>2, <1>4 DEF OwnNames
    <3> QED BY <1>1, <1>2, <2>2, <2>3, <3>2, <3>4, <3>5, BackOver DEF Rolling, Taken
  <2> QED BY <2>5, <2>6
<1> QED BY <1>5, <1>6

LEMMA RestoringUndoUnpublished ==
  ASSUME Inv, Running, Owing, Restoring, undo_unpublished
  PROVE  Restoring'
PROOF
<1>1. /\ task.i \in Items /\ DOMAIN task = TaskFields /\ task.tool = "preset"
      /\ task.pc = "undo" /\ spent' = spent /\ It = task.items[task.i] /\ It.installed = 0
      /\ Items = 1 .. Last /\ Last \in Nat /\ task.pc \notin Special
      /\ OrigOf(task.i) = Hidden(It.name, "original") /\ TempOf(task.i) = Hidden(It.name, "temporary")
  BY ItFacts DEF undo_unpublished, Preset, At, Special, Current, Taken
<1>2. PICK j : j = task.i
  OBVIOUS
<1>3. ~Stands(j) /\ ~OnHand(j) /\ ParkedWell(j)
  BY <1>1, <1>2 DEF Stands, Unrecorded, OnHand, Taken, Restoring
<1>4. /\ OrigOf(task.i) # Pub(It.name) /\ OrigOf(task.i) # TempOf(task.i)
      /\ TempOf(task.i) # Pub(It.name)
  BY DEF OrigOf, TempOf, Pub, Hidden
<1>5. PICK back : back = IF It.backup THEN Move(fs, OrigOf(task.i), Pub(It.name)) ELSE fs
  OBVIOUS
<1>7. CASE It.backup /\ ~Restorable(It)
  <2>1. task' = Failure /\ OnlyAt({})
    BY <1>7 DEF undo_unpublished, OnlyAt
  <2> QED BY <1>1, <2>1, Reported DEF Failure, Rolling
<1>8. CASE It.backup /\ Restorable(It)
  <2>1. CanRename(OrigOf(j), Pub(It.name)) /\ back = Move(fs, OrigOf(j), Pub(It.name))
    BY <1>1, <1>2, <1>5, <1>8 DEF Restorable
  <2>2. /\ OrigOf(j) \notin DOMAIN back /\ Pub(It.name) \in DOMAIN back
        /\ back[Pub(It.name)] = fs[OrigOf(j)]
        /\ \A m : m \notin {OrigOf(j), Pub(It.name)} =>
             (m \in DOMAIN back <=> m \in DOMAIN fs) /\ (m \in DOMAIN fs => back[m] = fs[m])
    BY <1>2, <1>4, <2>1 DEF CanRename, Move
  <2>3. fs' = back \/ fs' = Drop(back, TempOf(j))
    BY <1>1, <1>2, <1>5, <1>8 DEF undo_unpublished
  <2>4. /\ OrigOf(j) \notin DOMAIN fs' /\ Pub(It.name) \in DOMAIN fs'
        /\ fs'[Pub(It.name)] = fs[OrigOf(j)]
        /\ OnlyAt({OrigOf(j), Pub(It.name), TempOf(j)})
    BY <1>2, <1>4, <2>2, <2>3 DEF Drop, OnlyAt
  <2>5. {OrigOf(j), Pub(It.name), TempOf(j)} \subseteq OwnNames
    BY <1>2 DEF OwnNames
  <2>6. CASE task' = Failure
    BY <1>1, <1>2, <2>4, <2>5, <2>6, Reported DEF Failure, Rolling
  <2>7. CASE task' # Failure
    <3>1. PICK u : task' = Backward([task EXCEPT !.touched = u], "undo")
      BY <1>8, <2>7 DEF undo_unpublished
    <3>2. /\ task'.before = task.before /\ task'.report = task.report /\ task'.hurt = task.hurt
          /\ task'.tool = task.tool /\ task'.items = task.items
          /\ \/ task'.pc = "undo" /\ task'.i = task.i - 1
             \/ task'.pc = "done" /\ task.i = 1 /\ task'.i = task.i
      BY <1>1, <3>1 DEF Backward, TaskFields
    <3>3. SameTask /\ KeepsItems
      BY <1>1, <3>2, SameSpent DEF SameTask, KeepsItems
    <3>4. /\ Pub(task.items[j].name)' = Pub(It.name) /\ OrigOf(j)' = OrigOf(j)
      BY <1>1, <1>2, <3>2, <3>3 DEF Pub, OrigOf, Hidden, SameTask
    <3>5. Now(j)' = fs[OrigOf(j)] /\ ~Has(OrigOf(j))'
      BY <2>4, <3>4 DEF Now, Look, Has
    <3>6. \A b \in Open(j) : Kept(j, b)'
      BY <1>2, <1>3, <2>1, <3>5, BackAgain DEF CanRename
    <3> QED BY <1>1, <1>2, <2>4, <2>5, <3>2, <3>3, <3>5, <3>6, BackOver DEF Rolling
  <2> QED BY <2>6, <2>7
<1>9. CASE ~It.backup
  <2>1. fs' = fs \/ fs' = Drop(fs, TempOf(task.i))
    BY <1>1, <1>9 DEF undo_unpublished
  <2>2. OnlyAt({TempOf(task.i)}) /\ OnlyAt({TempOf(task.i), RollOf(task.i)})
    BY <2>1 DEF Drop, OnlyAt
  <2>3. CASE task' = Failure
    BY <1>1, <1>4, <2>2, <2>3, Reported DEF Failure, Rolling, OwnNames
  <2>4. CASE task' # Failure
    <3>1. PICK u : task' = Backward([task EXCEPT !.touched = u], "undo")
      BY <1>9, <2>4 DEF undo_unpublished
    <3>2. /\ task'.before = task.before /\ task'.report = task.report /\ task'.hurt = task.hurt
          /\ task'.tool = task.tool /\ task'.items = task.items
          /\ \/ task'.pc = "undo" /\ task'.i = task.i - 1
             \/ task'.pc = "done" /\ task.i = 1 /\ task'.i = task.i
      BY <1>1, <3>1 DEF Backward, TaskFields
    <3>3. SameTask /\ Updates(It)
      BY <1>1, <3>2, SameSpent DEF SameTask, KeepsItems, Updates
    <3>4. StepsBack("undo") /\ ~Has(OrigOf(task.i))
      BY <1>1, <1>2, <1>3, <1>9, <3>2 DEF StepsBack, Rolling, ParkedWell
    <3> QED BY <1>1, <2>2, <3>2, <3>3, <3>4, PlainStep
  <2> QED BY <2>3, <2>4
<1> QED BY <1>7, <1>8, <1>9

LEMMA RestoringUndoError ==
  ASSUME Inv, Running, Owing, Restoring, undo_io_error
  PROVE  Restoring'
PROOF
<1>1. task' = Failure /\ OnlyAt({}) /\ Fault /\ task.pc \in Rolling \cup Taken
  BY DEF undo_io_error, OnlyAt, Rolling, Taken
<1> QED BY <1>1, Reported DEF Failure, Rolling

LEMMA RestoringPresets ==
  ASSUME Inv, Running, Owing, Restoring,
         \/ prepare_output \/ allocate_temporary \/ fill_preset \/ back_up \/ park_preset
         \/ compare_backup \/ install_preset \/ own_preset \/ confirm_preset
         \/ preset_fault \/ undo_take \/ undo_check \/ undo_restore
         \/ undo_unpublished \/ undo_io_error
  PROVE  Restoring'
PROOF BY RestoringPrepare, RestoringAllocate, RestoringBackUp, RestoringParkPreset,
  RestoringCompare, RestoringInstall, RestoringOwn, RestoringConfirm, RestoringPresetFault,
  RestoringUndoTake, RestoringUndoCheck, RestoringUndoRestore, RestoringUndoUnpublished,
  RestoringUndoError

-----------------------------------------------------------------------------
(* The migrators.                                                           *)

LEMMA MigratorFacts ==
  ASSUME Inv, Running, Owing, Restoring, Migrating
  PROVE  /\ task.tool \in {"cartridge", "convert"} /\ task.tool # "preset" /\ Course
         /\ task.tool = "convert" => Last = 1
         /\ task.i \in Items /\ DOMAIN task = TaskFields /\ DOMAIN It = ItemFields
         /\ It = task.items[task.i] /\ Items = 1 .. Last /\ Last \in Nat /\ Last = Len(task.items)
         /\ It.orig = NoFile
         /\ \A j : j = task.i => ~Has(OrigOf(j))
         /\ TempOf(task.i) = Hidden(It.name, "temporary")
         /\ RollOf(task.i) = Hidden(It.name, "rollback")
PROOF
<1>1. /\ task.i \in Items /\ DOMAIN task = TaskFields /\ DOMAIN It = ItemFields
      /\ It = task.items[task.i] /\ Items = 1 .. Last /\ Last \in Nat
      /\ TempOf(task.i) = Hidden(It.name, "temporary")
      /\ RollOf(task.i) = Hidden(It.name, "rollback")
  BY ItFacts DEF ItemOK
<1>2. Course /\ task.tool \in {"cartridge", "convert"}
  BY DEF Restoring, Owing, Migrating
<1>3. It.orig = NoFile
  BY <1>1, <1>2 DEF Course
<1>4. ~Has(OrigOf(task.i))
  BY <1>1, <1>3 DEF Restoring, ParkedWell
<1> QED BY <1>1, <1>2, <1>3, <1>4 DEF Course, Last

(* A failed migrator: the cartridge migrator turns back here, the one that  *)
(* converts a single file has nothing to undo.                              *)
LEMMA MigratorGivesUp ==
  ASSUME Inv, Running, Owing, Restoring, Migrating, NEW t, t.tool = task.tool, DOMAIN t = TaskFields,
         t.i = task.i, t.before = task.before, t.report = task.report, t.hurt = task.hurt,
         NEW it, (t.items = task.items /\ it = It) \/ t.items = [task.items EXCEPT ![task.i] = it],
         it.name = It.name, it.payload = It.payload, it.temp \in {It.temp, 0},
         it.installed = It.installed, it.orig = It.orig, It.backup => it.backup,
         task.pc \in {"create", "sync", "link", "reread"},
         task.pc = "reread" => task.tool # "convert",
         task' = Failing(t), spent' = spent \/ Fault, OnlyAt({TempOf(task.i)})
  PROVE  Restoring'
PROOF
<1>1. /\ task.tool \in {"cartridge", "convert"} /\ task.tool # "preset" /\ Course
      /\ task.tool = "convert" => Last = 1
      /\ task.i \in Items /\ Items = 1 .. Last /\ Last \in Nat /\ It = task.items[task.i]
  BY MigratorFacts
<1>2. /\ task'.before = task.before /\ task'.report = task.report /\ task'.hurt = task.hurt
      /\ task'.tool = task.tool /\ task'.items = t.items
      /\ task'.i = task.i /\ task'.pc = IF task.tool = "cartridge" THEN "remove" ELSE "done"
  BY DEF Failing, TaskFields
<1>3. SameTask /\ Updates(it)
  BY <1>2, SameSpent DEF SameTask, KeepsItems, SetsItem, Updates
<1>4. OnlyAt({TempOf(task.i), RollOf(task.i)}) /\ task.pc \notin Special
  BY DEF OnlyAt, Special, Current, Taken
<1>5. CASE task.tool = "cartridge"
  <2>1. TurnsHere /\ task'.pc \notin {"record", "own"}
    BY <1>1, <1>2, <1>5 DEF TurnsHere, Coming, Going, Rolling
  <2> QED BY <1>3, <1>4, <2>1, PlainStep
<1>6. CASE task.tool = "convert"
  <2>1. Frame /\ task'.items[task.i] = it
    BY <1>3, FrameOf DEF OwnNames
  <2>2. Items = {task.i}
    BY <1>1, <1>6
  <2>3. Steady
    BY <1>2, <1>6, <2>2 DEF Steady
  <2>4. Course'
    BY <1>1, <1>2, <1>6, <2>1, CourseTurns DEF Turning
  <2>5. It.installed = 0
    BY <1>1, <1>6 DEF Course
  <2>6. task'.pc \notin Taken \cup {"record", "own"}
    BY <1>2, <1>6 DEF Taken
  <2> QED BY <1>1, <1>4, <2>1, <2>3, <2>4, <2>5, <2>6, PlainTool DEF SameOriginal
<1> QED BY <1>1, <1>5, <1>6

LEMMA RestoringApply ==
  ASSUME Inv, Running, Owing, Restoring, apply_migration
  PROVE  Restoring'
PROOF
<1>1. /\ task.tool # "preset" /\ task.i \in Items /\ DOMAIN task = TaskFields
      /\ task.pc = "replan" /\ fs' = fs /\ spent' = spent
  BY MigratorFacts DEF apply_migration, On
<1>2. /\ task'.before = task.before /\ task'.report = task.report /\ task'.hurt = task.hurt
      /\ task'.tool = task.tool /\ task'.items = task.items /\ task'.i = task.i
      /\ task'.pc \in {"create", "done"}
  <2>1. task' = To("create") \/ task' = [task EXCEPT !.pc = "done", !.result = "failed"]
    BY DEF apply_migration
  <2> QED BY <1>1, <2>1 DEF To, TaskFields
<1>3. SameTask /\ Updates(It)
  BY <1>1, <1>2, SameSpent DEF SameTask, KeepsItems, Updates
<1>4. GoesOn(It) \/ NothingDone
  BY <1>1, <1>2 DEF GoesOn, NothingDone, Untouched, Coming, Going
<1>5. OnlyAt({TempOf(task.i), RollOf(task.i)}) /\ task.pc \notin Special
  BY <1>1 DEF OnlyAt, Special, Current, Taken
<1> QED BY <1>2, <1>3, <1>4, <1>5, PlainStep

(* The destination is as it should be: the next one, or the end.            *)
LEMMA MigratorNext ==
  ASSUME Inv, Running, Owing, Restoring, Migrating, task.pc \in {"create", "reread"},
         NEW u, task' = Forward([task EXCEPT !.touched = u], "create", "complete"),
         fs' = fs, spent' = spent
  PROVE  Restoring'
PROOF
<1>1. /\ task.i \in Items /\ DOMAIN task = TaskFields /\ Items = 1 .. Last /\ Last \in Nat
      /\ Last = Len(task.items)
  BY MigratorFacts
<1>2. PICK t : t = [task EXCEPT !.touched = u]
  OBVIOUS
<1>3. /\ DOMAIN t = TaskFields /\ t.tool = task.tool /\ t.i = task.i /\ t.items = task.items
      /\ t.before = task.before /\ t.report = task.report /\ t.hurt = task.hurt
  BY <1>1, <1>2 DEF TaskFields
<1>4. /\ task'.before = task.before /\ task'.report = task.report /\ task'.hurt = task.hurt
      /\ task'.tool = task.tool /\ task'.items = task.items
      /\ \/ task'.pc = "create" /\ task'.i = task.i + 1 /\ task.i < Last
         \/ task'.pc = "complete" /\ task'.i = 1
  BY <1>1, <1>2, <1>3 DEF Forward, TaskFields
<1>5. SameTask /\ Updates(It)
  BY <1>4, SameSpent DEF SameTask, KeepsItems, Updates
<1>6. GoesOn(It)
  <2>1. task'.i \in Items
    BY <1>1, <1>4
  <2> QED BY <1>4, <2>1 DEF GoesOn, Untouched, Coming, Going
<1>7. OnlyAt({TempOf(task.i), RollOf(task.i)}) /\ task.pc \notin Special
  BY DEF OnlyAt, Special, Current, Taken
<1> QED BY <1>4, <1>5, <1>6, <1>7, PlainStep

LEMMA RestoringDestination ==
  ASSUME Inv, Running, Owing, Restoring, destination_state \/ verify_created
  PROVE  Restoring'
PROOF
<1>1. /\ Migrating /\ fs' = fs /\ spent' = spent /\ task.pc \in {"create", "reread"}
      /\ task.pc = "create" => destination_state
      /\ task.pc = "reread" => verify_created
  BY DEF destination_state, verify_created, On
<1>2. DOMAIN task = TaskFields /\ task.i \in Items /\ DOMAIN It = ItemFields
  BY <1>1, MigratorFacts
<1>3. CASE task' = Failing(task)
  <2>1. task.pc = "reread" => task.tool # "convert"
    <3> SUFFICES ASSUME task.pc = "reread", task.tool = "convert"
                 PROVE  FALSE
      OBVIOUS
    <3>1. PICK u : task' = Forward([task EXCEPT !.touched = u], "create", "complete")
      BY <1>1 DEF verify_created
    <3>2. task'.pc # "done"
      BY <1>2, <3>1 DEF Forward, TaskFields
    <3>3. Failing(task).pc = "done"
      BY <1>2 DEF Failing, TaskFields
    <3> QED BY <1>3, <3>2, <3>3
  <2>2. OnlyAt({TempOf(task.i)})
    BY <1>1 DEF OnlyAt
  <2> QED BY <1>1, <1>2, <1>3, <2>1, <2>2, MigratorGivesUp
<1>4. CASE task' # Failing(task)
  <2>1. PICK u : task' = Forward([task EXCEPT !.touched = u], "create", "complete")
    BY <1>1, <1>4 DEF destination_state, verify_created
  <2> QED BY <1>1, <2>1, MigratorNext
<1> QED BY <1>3, <1>4

LEMMA RestoringWriteNew ==
  ASSUME Inv, Running, Owing, Restoring, write_new \/ sync_new
  PROVE  Restoring'
PROOF
<1>1. Migrating /\ task.pc \in {"create", "sync"}
  BY DEF write_new, sync_new, On
<1>2. /\ task.i \in Items /\ DOMAIN task = TaskFields /\ DOMAIN It = ItemFields
      /\ It = task.items[task.i] /\ TempOf(task.i) = Hidden(It.name, "temporary")
      /\ task.pc \notin Special
  BY <1>1, MigratorFacts DEF Special, Current, Taken
<1>3. CASE write_new
  <2>1. PICK it : it = [It EXCEPT !.temp = NewId]
    OBVIOUS
  <2>2. /\ task'.before = task.before /\ task'.report = task.report /\ task'.hurt = task.hurt
        /\ task'.tool = task.tool /\ task'.items = [task.items EXCEPT ![task.i] = it]
        /\ task.pc = "create" /\ task'.pc = "sync" /\ task'.i = task.i
    BY <1>2, <1>3, <2>1 DEF write_new, With, On, TaskFields
  <2>3. /\ it.name = It.name /\ it.payload = It.payload /\ it.temp = NewId
        /\ it.installed = It.installed /\ it.backup = It.backup /\ it.orig = It.orig
    BY <1>2, <2>1 DEF ItemFields
  <2>4. SameTask /\ Updates(it)
    BY <1>3, <2>2, <2>3, SameSpent DEF SameTask, write_new, Updates, SetsItem
  <2>5. GoesOn(it)
    BY <1>2, <2>2 DEF GoesOn, Coming, Untouched, Going
  <2>6. OnlyAt({TempOf(task.i), RollOf(task.i)})
    BY <1>2, <1>3 DEF write_new, OnlyAt, Put
  <2> QED BY <1>2, <2>2, <2>3, <2>4, <2>5, <2>6, PlainStep
<1>4. CASE sync_new
  <2>1. /\ task'.before = task.before /\ task'.report = task.report /\ task'.hurt = task.hurt
        /\ task'.tool = task.tool /\ task'.items = task.items /\ spent' = spent
        /\ task.pc = "sync" /\ task'.pc = "link" /\ task'.i = task.i
    BY <1>2, <1>4 DEF sync_new, On, To, TaskFields
  <2>2. SameTask /\ Updates(It)
    BY <2>1, SameSpent DEF SameTask, Updates, KeepsItems
  <2>3. GoesOn(It)
    BY <1>2, <2>1 DEF GoesOn, Coming, Untouched, Going
  <2>4. OnlyAt({TempOf(task.i), RollOf(task.i)})
    BY <1>2, <1>4 DEF sync_new, OnlyAt, Put
  <2> QED BY <1>2, <2>1, <2>2, <2>3, <2>4, PlainStep
<1> QED BY <1>3, <1>4

LEMMA RestoringLink ==
  ASSUME Inv, Running, Owing, Restoring, install_no_replace
  PROVE  Restoring'
PROOF
<1>1. Migrating /\ task.pc = "link" /\ spent' = spent
  BY DEF install_no_replace, On
<1>2. /\ task.i \in Items /\ DOMAIN task = TaskFields /\ DOMAIN It = ItemFields
      /\ It = task.items[task.i] /\ TempOf(task.i) = Hidden(It.name, "temporary") /\ Course
      /\ Items = 1 .. Last /\ Last \in Nat /\ task.tool # "preset"
  BY <1>1, MigratorFacts
<1>3. It.installed = 0 /\ Ready(task.i)
  BY <1>1, <1>2 DEF Course, Inv, TaskInv, Temporaries
<1>4. CASE Has(Pub(It.name))
  <2>1. PICK it : it = [It EXCEPT !.temp = 0]
    OBVIOUS
  <2>2. PICK t : t = With(it, "link")
    OBVIOUS
  <2>3. /\ DOMAIN t = TaskFields /\ t.tool = task.tool /\ t.i = task.i
        /\ t.items = [task.items EXCEPT ![task.i] = it]
        /\ t.before = task.before /\ t.report = task.report /\ t.hurt = task.hurt
    BY <1>2, <2>2 DEF With, TaskFields
  <2>4. /\ it.name = It.name /\ it.payload = It.payload /\ it.temp = 0
        /\ it.installed = It.installed /\ it.backup = It.backup /\ it.orig = It.orig
    BY <1>2, <2>1 DEF ItemFields
  <2>5. task' = Failing(t) /\ OnlyAt({TempOf(task.i)})
    BY <1>2, <1>4, <2>1, <2>2 DEF install_no_replace, OnlyAt, Drop
  <2> QED BY <1>1, <2>3, <2>4, <2>5, MigratorGivesUp
<1>5. CASE ~Has(Pub(It.name))
  <2>1. PICK it : it = [It EXCEPT !.installed = It.temp, !.temp = 0]
    OBVIOUS
  <2>2. Renamed(TempOf(task.i), Pub(It.name)) /\ task' = With(it, "reread")
    BY <1>2, <1>5, <2>1 DEF install_no_replace
  <2>3. /\ task'.before = task.before /\ task'.report = task.report /\ task'.hurt = task.hurt
        /\ task'.tool = task.tool /\ task'.items = [task.items EXCEPT ![task.i] = it]
        /\ task'.pc = "reread" /\ task'.i = task.i
    BY <1>2, <2>2 DEF With, TaskFields
  <2>4. /\ it.name = It.name /\ it.payload = It.payload /\ it.temp = 0
        /\ it.installed = It.temp /\ it.backup = It.backup /\ it.orig = It.orig
    BY <1>2, <2>1 DEF ItemFields
  <2>5. SameTask /\ Updates(it)
    BY <1>1, <2>3, <2>4, SameSpent DEF SameTask, SetsItem, Updates
  <2>6. OnlyAt({TempOf(task.i), Pub(It.name)}) /\ OrigOf(task.i) # TempOf(task.i)
    BY <1>3, <2>2 DEF OnlyAt, Renamed, Move, OrigOf, TempOf, Hidden, Ready, Has
  <2>7. Frame /\ task'.items[task.i] = it
    BY <2>5, <2>6, FrameOf DEF OwnNames
  <2>8. Steady
    BY <2>3, SteadyOn DEF Rolling, Taken
  <2>9. Course'
    BY <1>1, <1>2, <2>3, <2>4, <2>7, CourseGoes DEF Untouched, Coming, Going
  <2>10. PICK mine : mine = File(It.temp, It.payload)
    OBVIOUS
  <2>11. PICK j : j = task.i
    OBVIOUS
  <2>12. ~Stands(j) /\ ~OnHand(j) /\ SameOriginal(j) /\ Ready(j)
    BY <1>1, <1>2, <1>3, <2>4, <2>7, <2>11 DEF Stands, Unrecorded, OnHand, Taken, SameOriginal
  <2>13. it.installed # 0
    BY <1>2, <1>3, <2>4 DEF Ready
  <2>14. Stands(j)' /\ ~OnHand(j)' /\ ~Rolled(j)' /\ Mine(j)' = mine
    BY <2>3, <2>4, <2>7, <2>10, <2>11, <2>13 DEF Stands, Unrecorded, OnHand, Taken, Rolled, Rolling,
      Mine, File
  <2> QED BY <1>2, <1>5, <2>2, <2>6, <2>7, <2>8, <2>9, <2>10, <2>11, <2>12, <2>14, PublishTool
<1> QED BY <1>4, <1>5

LEMMA RestoringComplete ==
  ASSUME Inv, Running, Owing, Restoring, migration_complete
  PROVE  Restoring'
PROOF
<1>1. /\ DOMAIN task = TaskFields
  BY ItFacts
<1>2. task'.pc = "done" /\ task'.result = "committed" /\ task'.hurt = task.hurt
  BY <1>1 DEF migration_complete, TaskFields
<1> QED BY <1>2 DEF Restoring, HurtTurnsBack, Owing

LEMMA RestoringMigrationFault ==
  ASSUME Inv, Running, Owing, Restoring, migration_fault
  PROVE  Restoring'
PROOF
<1>1. /\ Migrating /\ Fault /\ task.pc \in {"create", "sync", "link", "reread"}
      /\ task.pc = "reread" => task.tool # "convert"
  BY DEF migration_fault
<1>2. /\ task.i \in Items /\ DOMAIN task = TaskFields /\ DOMAIN It = ItemFields
      /\ TempOf(task.i) = Hidden(It.name, "temporary")
  BY <1>1, MigratorFacts
<1>3. PICK it : it = [It EXCEPT !.temp = 0]
  OBVIOUS
<1>4. PICK t : t = With(it, task.pc)
  OBVIOUS
<1>5. /\ DOMAIN t = TaskFields /\ t.tool = task.tool /\ t.i = task.i
      /\ t.items = [task.items EXCEPT ![task.i] = it]
      /\ t.before = task.before /\ t.report = task.report /\ t.hurt = task.hurt
  BY <1>2, <1>4 DEF With, TaskFields
<1>6. /\ it.name = It.name /\ it.payload = It.payload /\ it.temp = 0
      /\ it.installed = It.installed /\ it.backup = It.backup /\ it.orig = It.orig
  BY <1>2, <1>3 DEF ItemFields
<1>7. OnlyAt({TempOf(task.i)})
  BY <1>2 DEF migration_fault, OnlyAt, Drop
<1>8. \/ task' = Failing(t)
      \/ task' = [t EXCEPT !.pc = "done", !.result = "failed", !.hurt = TRUE]
  BY <1>3, <1>4 DEF migration_fault
<1>9. CASE task' = Failing(t)
  BY <1>1, <1>5, <1>6, <1>7, <1>9, MigratorGivesUp
<1>10. CASE task' = [t EXCEPT !.pc = "done", !.result = "failed", !.hurt = TRUE]
  <2>1. task'.pc = "done" /\ task'.hurt = TRUE
    BY <1>5, <1>10 DEF TaskFields
  <2> QED BY <2>1 DEF Restoring, HurtTurnsBack, Owing
<1> QED BY <1>8, <1>9, <1>10

LEMMA RestoringRemove ==
  ASSUME Inv, Running, Owing, Restoring, remove_created
  PROVE  Restoring'
PROOF
<1>1. Migrating /\ task.pc = "remove" /\ spent' = spent /\ task.pc \notin Special
  BY DEF remove_created, On, Special, Current, Taken
<1>2. /\ task.i \in Items /\ DOMAIN task = TaskFields /\ It = task.items[task.i]
      /\ Items = 1 .. Last /\ Last \in Nat /\ task.tool # "preset"
  BY <1>1, MigratorFacts
<1>3. CASE It.installed # 0 /\ Has(Pub(It.name))
  <2>1. /\ task' = To("inspect") /\ Renamed(Pub(It.name), Hidden(It.name, "rollback"))
    BY <1>3 DEF remove_created
  <2>2. SameTask /\ KeepsItems /\ task'.pc = "inspect" /\ task'.i = task.i
    BY <1>1, <1>2, <2>1, SameSpent DEF SameTask, KeepsItems, To, TaskFields
  <2> QED BY <1>1, <1>3, <2>1, <2>2, TakesItAside DEF Rolling
<1>4. CASE ~(It.installed # 0 /\ Has(Pub(It.name)))
  <2>1. task' = Backward(task, "remove") /\ fs' = fs
    BY <1>4 DEF remove_created
  <2>2. /\ task'.before = task.before /\ task'.report = task.report /\ task'.hurt = task.hurt
        /\ task'.tool = task.tool /\ task'.items = task.items
        /\ \/ task'.pc = "remove" /\ task'.i = task.i - 1
           \/ task'.pc = "done" /\ task.i = 1 /\ task'.i = task.i
    BY <1>2, <2>1 DEF Backward, TaskFields
  <2>3. SameTask /\ KeepsItems /\ Updates(It)
    BY <1>1, <2>2, SameSpent DEF SameTask, KeepsItems, Updates
  <2>4. OnlyAt({}) /\ OnlyAt({TempOf(task.i), RollOf(task.i)})
    BY <2>1 DEF OnlyAt
  <2>5. CASE It.installed = 0
    <3>1. StepsBack("remove") /\ task'.pc \notin {"record", "own"}
      BY <1>1, <2>2 DEF StepsBack, Rolling
    <3> QED BY <1>1, <1>2, <2>3, <2>4, <2>5, <3>1, PlainStep
  <2>6. CASE It.installed # 0
    <3>1. PICK j : j = task.i
      OBVIOUS
    <3>2. ~Has(OrigOf(j)) /\ Within(j) /\ j \in Items
      BY <1>1, <1>2, <3>1, MigratorFacts DEF Restoring
    <3>3. Now(j) = NoFile /\ Now(j)' = NoFile
      BY <1>2, <1>4, <2>1, <2>2, <2>6, <3>1 DEF Now, Look, Has, Pub, NoFile
    <3>4. ASSUME NEW b \in Open(j)
          PROVE  Kept(j, b)'
      <4>1. Mine(j) # NoFile /\ ~OnHand(j)
        BY <1>1, <1>2, <2>6, <3>1 DEF Mine, Unrecorded, File, NoFile, OnHand, Taken
      <4>2. Kept(j, b)
        BY <3>2, <3>3, <4>1 DEF Within, CanRestore, Away, Displaced
      <4> QED BY <3>3, <4>2 DEF Kept, NoFile
    <3> QED BY <1>1, <2>2, <2>3, <2>4, <3>1, <3>4, BackOver DEF Rolling
  <2> QED BY <2>5, <2>6
<1> QED BY <1>3, <1>4

LEMMA RestoringInspect ==
  ASSUME Inv, Running, Owing, Restoring, inspect_removed
  PROVE  Restoring'
PROOF
<1>1. Migrating /\ task.pc = "inspect" /\ spent' = spent
  BY DEF inspect_removed, On
<1>2. /\ task.i \in Items /\ DOMAIN task = TaskFields /\ It = task.items[task.i]
      /\ Items = 1 .. Last /\ Last \in Nat /\ RollOf(task.i) = Hidden(It.name, "rollback")
      /\ Has(RollOf(task.i))
  BY <1>1, MigratorFacts DEF Inv, TaskInv, Rollbacks, Taken
<1>3. /\ OrigOf(task.i) # Pub(It.name) /\ OrigOf(task.i) # RollOf(task.i)
      /\ RollOf(task.i) # Pub(It.name) /\ {RollOf(task.i), Pub(It.name)} \subseteq OwnNames
  BY DEF OrigOf, RollOf, Pub, Hidden, OwnNames
<1>4. CASE fs[RollOf(task.i)] = File(It.installed, It.payload)
  <2>1. fs' = Drop(fs, RollOf(task.i))
    BY <1>2, <1>4 DEF inspect_removed
  <2>2. PICK u : task' = Backward([task EXCEPT !.touched = u], "remove")
    BY <1>2, <1>4 DEF inspect_removed
  <2>3. /\ task'.before = task.before /\ task'.report = task.report /\ task'.hurt = task.hurt
        /\ task'.tool = task.tool /\ task'.items = task.items
        /\ \/ task'.pc = "remove" /\ task'.i = task.i - 1
           \/ task'.pc = "done" /\ task.i = 1 /\ task'.i = task.i
    BY <1>2, <2>2 DEF Backward, TaskFields
  <2>4. SameTask /\ KeepsItems
    BY <1>1, <2>3, SameSpent DEF SameTask, KeepsItems
  <2>5. PICK j : j = task.i
    OBVIOUS
  <2>6. ~Has(OrigOf(j)) /\ Within(j) /\ j \in Items
    BY <1>1, <1>2, <2>5, MigratorFacts DEF Restoring
  <2>7. OnlyAt({RollOf(j)}) /\ Now(j)' = Now(j)
    BY <1>2, <1>3, <2>1, <2>3, <2>5 DEF Drop, OnlyAt, Now, Look, Has, NoFile, Pub
  <2>8. OnHand(j) /\ fs[RollOf(j)] = Mine(j)
    BY <1>1, <1>2, <1>4, <2>5 DEF OnHand, Taken, Mine, Unrecorded
  <2>9. ASSUME NEW b \in Open(j)
        PROVE  Kept(j, b)'
    <3>1. Kept(j, b)
      BY <2>6, <2>8 DEF Within, CanRestore, Away
    <3> QED BY <2>7, <3>1 DEF Kept, NoFile
  <2>10. {RollOf(j)} \subseteq OwnNames /\ OrigOf(j) \notin {RollOf(j)}
    BY <1>3, <2>5
  <2> QED BY <1>1, <2>3, <2>4, <2>5, <2>7, <2>9, <2>10, BackOver DEF Rolling, Taken
<1>5. CASE fs[RollOf(task.i)] # File(It.installed, It.payload)
  <2>1. task' = Leftover /\ (fs' = fs \/ Renamed(RollOf(task.i), Pub(It.name)))
    BY <1>2, <1>5 DEF inspect_removed
  <2>2. OnlyAt({RollOf(task.i), Pub(It.name)})
    BY <1>2, <2>1 DEF Renamed, Move, Has, OnlyAt
  <2> QED BY <1>1, <1>3, <2>1, <2>2, Reported DEF Leftover, Rolling, Taken
<1> QED BY <1>4, <1>5

LEMMA RestoringMigrators ==
  ASSUME Inv, Running, Owing, Restoring,
         \/ apply_migration \/ destination_state \/ write_new \/ sync_new
         \/ install_no_replace \/ verify_created \/ migration_complete \/ migration_fault
         \/ remove_created \/ inspect_removed \/ remove_io_error
  PROVE  Restoring'
PROOF
<1>1. CASE remove_io_error
  <2>1. task' = Leftover /\ OnlyAt({}) /\ Fault /\ task.pc \in Rolling \cup Taken
    BY <1>1 DEF remove_io_error, OnlyAt, Rolling, Taken
  <2> QED BY <2>1, Reported DEF Leftover, Rolling
<1> QED BY <1>1, RestoringApply, RestoringDestination, RestoringWriteNew, RestoringLink,
  RestoringComplete, RestoringMigrationFault, RestoringRemove, RestoringInspect

-----------------------------------------------------------------------------
(* A transaction begins: what the owner has is what the names show.         *)

LEMMA FreshRestoring ==
  ASSUME Inv, CardInv', NoneParked', fs' = fs, NEW items, FreshList(items),
         task'.items = items, task'.before = Known(items), task'.pc \in Begun,
         task'.i = 1, task'.hurt = FALSE, task'.tool = "convert" => Len(items) = 1
  PROVE  Restoring'
PROOF
<1>1. PICK n, name, payload :
        /\ n \in Nat \ {0} /\ DOMAIN items = 1 .. n /\ items = [k \in 1 .. n |-> items[k]]
        /\ \A k \in 1 .. n : items[k] = Item(name[k], payload[k]) /\ Payload(payload[k])
        /\ \A j, k \in 1 .. n : name[j] = name[k] => j = k
  BY DEF FreshList, Listed
<1>2. Len(items) = n
  <2>1. n \in Nat /\ DOMAIN items = 1 .. n /\ items = [k \in 1 .. n |-> items[k]]
    BY <1>1
  <2> QED BY <2>1, LengthOf
<1>3. Last' = n /\ Items' = 1 .. n /\ n \in Nat
  BY <1>1, <1>2 DEF Last, Items
<1>4. \A k \in 1 .. n : /\ items[k].name = name[k] /\ items[k].orig = NoFile
                        /\ items[k].temp = 0 /\ items[k].installed = 0
  BY <1>1 DEF Item
<1>5. NoFile' = NoFile
  BY DEF NoFile
<1>6. Course'
  BY <1>2, <1>3, <1>4, <1>5 DEF Course, Begun
<1>7. ASSUME NEW b \in task'.before
      PROVE  \E k \in 1 .. n : b = [name |-> name[k], file |-> Look(Pub(name[k])),
                                    had |-> {Look(Pub(name[k]))}]
  BY <1>2, <1>4, <1>7 DEF Known
<1>8. Records'
  <2>1. \A m : Look(m)' \in Files /\ Made(Look(m))'
    <3>1. spent'.ids \in Nat
      BY DEF CardInv
    <3>2. NoFile \in Files /\ Made(NoFile)'
      BY <3>1 DEF NoFile, Files, Makers, Forms, Made, Dated
    <3>3. \A m \in DOMAIN fs : fs[m] \in Files /\ Made(fs[m])'
      BY DEF CardInv, FilesKnown, Made, Dated
    <3> QED BY <1>5, <3>2, <3>3 DEF Look, Has, Made, Dated
  <2>2. \A m : Look(m)' = Look(m)
    BY <1>5 DEF Look, Has
  <2>3. ASSUME NEW b \in task'.before
        PROVE  /\ DOMAIN b = {"name", "file", "had"} /\ b.file \in b.had
               /\ \A f \in b.had : f \in Files /\ Made(f)'
    <3>1. PICK k \in 1 .. n : b = [name |-> name[k], file |-> Look(Pub(name[k])),
                                   had |-> {Look(Pub(name[k]))}]
      BY <1>7
    <3>2. PICK f : f = Look(Pub(name[k]))
      OBVIOUS
    <3>3. f \in Files /\ Made(f)'
      BY <2>1, <2>2, <3>2 DEF Made, Dated
    <3> QED BY <3>1, <3>2, <3>3
  <2> QED BY <2>3 DEF Records, Files, Made, Dated
<1>9. AllNamed'
  BY <1>3, <1>4, <1>7 DEF AllNamed
<1>10. ASSUME NEW k \in 1 .. n
       PROVE  NotOurs(k)' /\ ParkedWell(k)' /\ Within(k)'
  <2>1. NotOurs(k)'
    BY <1>4 DEF NotOurs
  <2>2. ParkedWell(k)'
    BY DEF ParkedWell, NoneParked, OrigOf, Hidden, Has
  <2>3. ASSUME NEW b \in Open(k)'
        PROVE  Kept(k, b)'
    <3>1. b \in task'.before /\ b.name = name[k]
      BY <1>4, <2>3 DEF Open
    <3>2. b.file = Look(Pub(name[k]))
      BY <1>7, <3>1
    <3> QED BY <1>4, <1>5, <3>2 DEF Kept, Now, Look, Has, Pub
  <2> QED BY <2>1, <2>2, <2>3 DEF Within, CanRestore
<1> QED BY <1>3, <1>6, <1>8, <1>9, <1>10 DEF Restoring, HurtTurnsBack

LEMMA BeginsRestoring ==
  ASSUME Inv, NEW tool, NEW pc, NEW items, NEW left, Starts(tool, pc, items, left),
         pc \in Begun, FreshList(items), tool = "convert" => Len(items) = 1
  PROVE  Restoring'
PROOF
<1>1. /\ spent' \in [ids : Nat, foreign : Nat, faults : Nat, runs : Nat]
      /\ spent'.ids = spent.ids /\ spent'.runs = spent.runs + 1
      /\ spent.ids \in Nat /\ spent.runs \in Nat /\ fs' = fs /\ owed' = owed
  <2>1. spent \in [ids : Nat, foreign : Nat, faults : Nat, runs : Nat]
    BY DEF Inv, CardInv
  <2> QED BY <2>1 DEF Starts, Count
<1>2. CardInv'
  BY <1>1, CardKept DEF Inv
<1>3. /\ task'.tool = tool /\ task'.pc = pc /\ task'.items = items /\ task'.i = 1
      /\ task'.before = Known(items) /\ task'.hurt = FALSE
  BY DEF Starts, Idle, TaskFields
<1>4. NoneParked'
  <2>1. \A m \in DOMAIN fs : m[2] # "public" => m[3] # spent.runs + 1
    BY <1>1 DEF Inv, CardInv, HiddenByRun
  <2> QED BY <1>1, <2>1 DEF NoneParked
<1>5. fs' = fs
  BY <1>1
<1>6. task'.items = items
  BY <1>3
<1>7. task'.before = Known(items)
  BY <1>3
<1>8. task'.pc \in Begun /\ task'.i = 1 /\ task'.hurt = FALSE
  BY <1>3
<1>9. task'.tool = "convert" => Len(items) = 1
  BY <1>3
<1> HIDE <1>1, <1>3
<1> QED BY <1>2, <1>4, <1>5, <1>6, <1>7, <1>8, <1>9, FreshRestoring

LEMMA StagingBegins ==
  ASSUME Inv, NEW r \in 1 .. 2, plan_staging(r)
  PROVE  Restoring'
PROOF
<1>1. PICK n : n = Len(Managed)
  OBVIOUS
<1>2. n \in Nat \ {0} /\ DOMAIN Managed = 1 .. n
      /\ \A j, k \in 1 .. n : Managed[j] = Managed[k] => j = k
  BY <1>1, PackageFiles
<1>3. PICK items : items = [k \in 1 .. n |-> Item(Managed[k], Release(r))]
  OBVIOUS
<1>4. PICK payload : payload = [k \in 1 .. n |-> Release(r)]
  OBVIOUS
<1>5. PICK tool, pc, left : tool = "stage" /\ pc = "snapshot" /\ left = <<>>
  OBVIOUS
<1>6. Starts(tool, pc, items, left)
  BY <1>1, <1>3, <1>5 DEF plan_staging
<1>7. pc \in Begun /\ (tool = "convert" => Len(items) = 1)
  BY <1>5 DEF Begun
<1>8. Payload(Release(r))
  BY DEF Payload, Release, Data, Datas, Makers, Forms, Dated
<1>9. \A k \in 1 .. n : items[k] = Item(Managed[k], payload[k]) /\ Payload(payload[k])
  BY <1>3, <1>4, <1>8
<1>10. DOMAIN items = 1 .. n /\ items = [k \in 1 .. n |-> items[k]]
  BY <1>3
<1>11. FreshList(items)
  <2>1. PICK name : name = Managed
    OBVIOUS
  <2>2. \A k \in 1 .. n : items[k] = Item(name[k], payload[k]) /\ Payload(payload[k])
    BY <1>9, <2>1
  <2>3. \A j, k \in 1 .. n : name[j] = name[k] => j = k
    BY <1>2, <2>1
  <2>4. n \in Nat \ {0} /\ DOMAIN items = 1 .. n /\ items = [k \in 1 .. n |-> items[k]]
    BY <1>2, <1>10
  <2> HIDE <1>1, <1>3, <1>4, <1>5, <2>1
  <2>5. Listed(items, n, name, payload)
    BY <2>2, <2>3, <2>4 DEF Listed
  <2> QED BY <2>5 DEF FreshList
<1> HIDE <1>3, <1>5
<1> QED BY <1>6, <1>7, <1>11, BeginsRestoring

LEMMA PresetsBegin ==
  ASSUME Inv, NEW g, (\E force \in BOOLEAN : generate_presets(g, force)) \/ apply_presets
  PROVE  Restoring'
PROOF
<1>1. PICK h, pc, left : /\ Starts("preset", pc, PairOf(h), left) /\ pc \in Begun
                         /\ \A k \in 1 .. 2 : ValidDefinition(k)
  BY DEF generate_presets, apply_presets, Plannable, Begun
<1>2. PICK items : items = PairOf(h)
  OBVIOUS
<1>3. PICK tool : tool = "preset"
  OBVIOUS
<1>4. FreshList(items)
  BY <1>1, <1>2, PairFacts
<1>5. Starts(tool, pc, items, left) /\ (tool = "convert" => Len(items) = 1)
  BY <1>1, <1>2, <1>3
<1> HIDE <1>2, <1>3
<1> QED BY <1>1, <1>4, <1>5, BeginsRestoring

(* A Doctor run goes on to its next game.                                   *)
LEMMA NextPairBegins ==
  ASSUME Inv, Restoring, apply_next_pair
  PROVE  Restoring'
PROOF
<1>1. /\ task.pc = "doctor" /\ task.tool = "preset" /\ Running /\ fs' = fs /\ owed' = owed
      /\ spent' = spent
  BY DEF apply_next_pair, Preset, At, Running
<1>2. DOMAIN task = TaskFields /\ task.hurt = FALSE
  BY <1>1, ItFacts DEF Restoring, HurtTurnsBack
<1>3. CardInv' /\ NoneParked'
  <2>1. NoneParked
    BY <1>1 DEF Inv, TaskInv, Ahead
  <2>2. CardInv'
    BY <1>1, NoneSpent, CardKept DEF Inv
  <2> QED BY <1>1, <2>1, <2>2 DEF NoneParked
<1>4. CASE \A k \in 1 .. 2 : ValidDefinition(k)
  <2>1. PICK items : items = PairOf(Head(task.left))
    OBVIOUS
  <2>2. task' = [task EXCEPT !.pc = "prepare", !.i = 1, !.left = Tail(@),
                             !.items = PairOf(Head(task.left)),
                             !.before = Known(PairOf(Head(task.left)))]
    BY <1>4 DEF apply_next_pair
  <2>3. task'.items = items /\ task'.before = Known(items) /\ task'.pc = "prepare" /\ task'.i = 1
        /\ task'.hurt = FALSE /\ task'.tool = "preset"
    BY <1>1, <1>2, <2>1, <2>2 DEF TaskFields
  <2>4. FreshList(items)
    BY <1>4, <2>1, PairFacts
  <2>5. fs' = fs /\ task'.items = items
    BY <1>1, <2>3
  <2>6. task'.before = Known(items)
    BY <2>3
  <2>7. task'.pc \in Begun /\ task'.i = 1 /\ task'.hurt = FALSE
        /\ (task'.tool = "convert" => Len(items) = 1)
    BY <2>3 DEF Begun
  <2> HIDE <2>1, <2>2, <2>3
  <2> QED BY <1>3, <2>4, <2>5, <2>6, <2>7, FreshRestoring
<1>5. CASE ~ \A k \in 1 .. 2 : ValidDefinition(k)
  <2>1. task'.pc = "done" /\ task'.result = "committed" /\ task'.hurt = FALSE
    BY <1>2, <1>5 DEF apply_next_pair, TaskFields
  <2> QED BY <2>1 DEF Restoring, HurtTurnsBack, Owing
<1> QED BY <1>4, <1>5

LEMMA MigratorsBegin ==
  ASSUME Inv, plan_migration \/ plan_namespace
  PROVE  Restoring'
PROOF
<1>1. PICK tool, items, left : /\ Starts(tool, "replan", items, left) /\ FreshList(items)
                               /\ tool # "convert"
  BY PlanFacts DEF plan_migration, plan_namespace
<1>2. PICK pc : pc = "replan"
  OBVIOUS
<1>3. Starts(tool, pc, items, left) /\ pc \in Begun /\ (tool = "convert" => Len(items) = 1)
  BY <1>1, <1>2 DEF Begun
<1> HIDE <1>2
<1> QED BY <1>1, <1>3, BeginsRestoring

LEMMA ConvertBegins ==
  ASSUME Inv, NEW t, migrate_type01_save(t) \/ migrate_legacy_eeprom_save(t)
  PROVE  Restoring'
PROOF
<1>1. PICK payload : payload = convert_save(t, fs[Pub(Shared(t))])
  OBVIOUS
<1>2. PICK items : items = <<Item(Own(t), payload)>>
  OBVIOUS
<1>3. PICK tool, pc, left : tool = "convert" /\ pc = "create" /\ left = <<t>>
  OBVIOUS
<1>4. Starts(tool, pc, items, left) /\ Has(Pub(Shared(t)))
  BY <1>1, <1>2, <1>3 DEF migrate_type01_save, migrate_legacy_eeprom_save
<1>5. FreshList(items)
  <2>1. PICK n : n = 1
    OBVIOUS
  <2>2. PICK names, payloads : names = [k \in 1 .. 1 |-> Own(t)] /\ payloads = [k \in 1 .. 1 |-> payload]
    OBVIOUS
  <2>3. Payload(payload)
    BY <1>1, <1>4, SharedPayload
  <2>4. Listed(items, n, names, payloads)
    <3>1. n \in Nat \ {0} /\ DOMAIN items = 1 .. n /\ items = [k \in 1 .. n |-> items[k]]
      BY <1>2, <2>1
    <3>2. \A k \in 1 .. n : items[k] = Item(names[k], payloads[k]) /\ Payload(payloads[k])
      BY <1>2, <2>1, <2>2, <2>3
    <3>3. \A j, k \in 1 .. n : names[j] = names[k] => j = k
      BY <2>1
    <3> QED BY <3>1, <3>2, <3>3 DEF Listed
  <2> QED BY <2>4 DEF FreshList
<1>6. pc \in Begun /\ Len(items) = 1
  BY <1>2, <1>3 DEF Begun
<1> HIDE <1>2, <1>3
<1> QED BY <1>4, <1>5, <1>6, BeginsRestoring

-----------------------------------------------------------------------------
(* The owner of the card.                                                   *)

(* Under the name n now shows `file`, which the owner has made or, as       *)
(* NoFile, removed; it is none of the tool's.                               *)
LEMMA OwnerRestoring ==
  ASSUME Inv, Running, Restoring, NEW n, NEW file, Touch(n, file), Look(Pub(n))' = file,
         OnlyAt({Pub(n)}), spent'.runs = spent.runs, spent'.ids \in Nat, spent'.ids >= spent.ids,
         file \in Files, Made(file)',
         \A k \in Items : \A id : id # 0 => File(id, task.items[k].payload) # file
  PROVE  Restoring'
PROOF
<1>1. /\ DOMAIN task = TaskFields /\ task'.tool = task.tool /\ task'.pc = task.pc
      /\ task'.i = task.i /\ task'.items = task.items /\ task'.hurt = task.hurt
      /\ task'.result = task.result /\ task'.report = task.report
  BY ItFacts DEF Touch, TaskFields
<1>10. task'.before = {IF b.name = n THEN [b EXCEPT !.file = file, !.had = @ \cup {file}] ELSE b :
                         b \in task.before}
  BY <1>1 DEF Touch, TaskFields
<1>2. HurtTurnsBack' /\ Owing' = Owing
  BY <1>1 DEF Restoring, HurtTurnsBack, Owing
<1> SUFFICES ASSUME Owing
             PROVE  /\ Course' /\ Records' /\ AllNamed'
                    /\ \A k \in Items : NotOurs(k)' /\ ParkedWell(k)' /\ Within(k)'
  BY <1>1, <1>2 DEF Restoring, Items, Last
<1>3. /\ Course /\ Records /\ AllNamed
      /\ \A k \in Items : NotOurs(k) /\ ParkedWell(k) /\ Within(k)
  BY DEF Restoring
<1>4. NoFile' = NoFile /\ Last' = Last /\ Items' = Items /\ It' = It /\ (Migrating' <=> Migrating)
  BY <1>1 DEF NoFile, Last, Items, It, Migrating
<1>5. Course'
  BY <1>1, <1>3, <1>4 DEF Course
<1>6. ASSUME NEW c \in task'.before
      PROVE  \E b \in task.before :
               /\ c.name = b.name /\ DOMAIN c = {"name", "file", "had"} /\ b.had \subseteq c.had
               /\ c.had \subseteq b.had \cup {file} /\ c.file \in c.had
               /\ IF b.name = n THEN c.file = file ELSE c = b
  <2>1. PICK b \in task.before :
               c = IF b.name = n THEN [b EXCEPT !.file = file, !.had = @ \cup {file}] ELSE b
    BY <1>10, <1>6
  <2>2. DOMAIN b = {"name", "file", "had"} /\ b.file \in b.had
    BY <1>3 DEF Records
  <2>3. CASE b.name = n
    <3>1. /\ DOMAIN c = {"name", "file", "had"} /\ c.name = b.name /\ c.file = file
          /\ c.had = b.had \cup {file}
      BY <2>1, <2>2, <2>3
    <3> QED BY <2>3, <3>1
  <2>4. CASE b.name # n
    BY <2>1, <2>2, <2>4
  <2> QED BY <2>3, <2>4
<1>7. Records'
  <2>1. ASSUME NEW c \in task'.before
        PROVE  /\ DOMAIN c = {"name", "file", "had"} /\ c.file \in c.had
               /\ \A f \in c.had : f \in Files /\ Made(f)'
    <3>1. PICK b \in task.before :
               /\ DOMAIN c = {"name", "file", "had"}
               /\ c.had \subseteq b.had \cup {file} /\ c.file \in c.had
      BY <1>6
    <3>2. \A f \in b.had : f \in Files /\ Made(f)
      BY <1>3 DEF Records
    <3>3. \A f \in b.had : Made(f)'
      BY <3>2 DEF Inv, CardInv, Made, Dated, Files
    <3> QED BY <3>1, <3>2, <3>3
  <2> QED BY <2>1 DEF Records, Files, Made, Dated
<1>8. AllNamed'
  BY <1>1, <1>3, <1>4, <1>6 DEF AllNamed
<1>9. ASSUME NEW k \in Items
      PROVE  NotOurs(k)' /\ ParkedWell(k)' /\ Within(k)'
  <2>1. /\ OrigOf(k)' = OrigOf(k) /\ OrigOf(k) # Pub(n) /\ RollOf(k)' = RollOf(k)
        /\ RollOf(k) # Pub(n)
    BY <1>1 DEF OrigOf, RollOf, Hidden, Pub
  <2>2. /\ Has(OrigOf(k))' = Has(OrigOf(k)) /\ (Has(OrigOf(k)) => fs[OrigOf(k)]' = fs[OrigOf(k)])
        /\ Has(RollOf(k))' = Has(RollOf(k)) /\ (Has(RollOf(k)) => fs[RollOf(k)]' = fs[RollOf(k)])
    BY <2>1 DEF OnlyAt, Has
  <2>3. ASSUME NEW c \in Open(k)'
        PROVE  \E b \in Open(k) : /\ b.had \subseteq c.had
                                  /\ IF task.items[k].name = n THEN c.file = file ELSE c = b
    <3>1. c \in task'.before /\ c.name = task.items[k].name /\ c.name \notin task.report
      BY <1>1, <2>3 DEF Open
    <3>2. PICK b \in task.before : /\ c.name = b.name /\ b.had \subseteq c.had
                                   /\ IF b.name = n THEN c.file = file ELSE c = b
      BY <1>6, <3>1
    <3> QED BY <3>1, <3>2 DEF Open
  <2>4. NotOurs(k)'
    <3>1. ASSUME NEW c \in task'.before, NEW id, id # 0,
                 \A b \in task.before : File(id, task.items[k].payload) \notin b.had
          PROVE  File(id, task.items[k].payload) \notin c.had
      BY <1>6, <3>1
    <3> QED BY <1>1, <1>3, <3>1 DEF NotOurs, File
  <2>5. ParkedWell(k)'
    BY <1>1, <1>3, <1>4, <2>2, <2>3 DEF ParkedWell
  <2>6. Within(k)'
    <3> SUFFICES ASSUME NEW c \in Open(k)'
                 PROVE  CanRestore(k, c)'
      BY DEF Within
    <3>1. PICK b \in Open(k) : IF task.items[k].name = n THEN c.file = file ELSE c = b
      BY <2>3
    <3>2. CASE task.items[k].name = n
      <4>1. Now(k)' = file
        BY <1>1, <3>2 DEF Now, Pub
      <4> QED BY <3>1, <3>2, <4>1 DEF CanRestore, Kept
    <3>3. CASE task.items[k].name # n
      <4>1. Pub(task.items[k].name) # Pub(n)
        BY <3>3 DEF Pub
      <4>2. Now(k)' = Now(k)
        BY <1>1, <1>4, <4>1 DEF Now, Look, Has, Pub, OnlyAt
      <4>3. /\ Rolled(k)' = Rolled(k) /\ OnHand(k)' = OnHand(k) /\ MayBeAway(k)' = MayBeAway(k)
            /\ Stands(k)' = Stands(k) /\ Mine(k)' = Mine(k)
        BY <1>1 DEF Rolled, OnHand, MayBeAway, Stands, Unrecorded, Mine, File
      <4>4. CanRestore(k, b)
        BY <1>3 DEF Within
      <4>5. /\ Kept(k, b)' = Kept(k, b) /\ Away(k, b)' = Away(k, b)
            /\ Displaced(k, b)' = Displaced(k, b)
        BY <1>4, <2>2, <4>2, <4>3 DEF Kept, Away, Displaced
      <4>6. OnHand(k) => Has(RollOf(k))
        BY DEF OnHand, Inv, TaskInv, Rollbacks
      <4> QED BY <1>1, <2>2, <3>1, <3>3, <4>3, <4>4, <4>5, <4>6 DEF CanRestore
    <3> QED BY <3>2, <3>3
  <2> QED BY <2>4, <2>5, <2>6
<1> QED BY <1>5, <1>7, <1>8, <1>9

LEMMA OwnerStepRestoring ==
  ASSUME Inv, Restoring, NEW n, ForeignSave(n) \/ ForeignEdit(n) \/ ForeignDelete(n)
  PROVE  Restoring'
PROOF
<1>1. Running
  BY DEF ForeignSave, ForeignEdit, ForeignDelete, MayTouch, Running
<1>2. spent \in [ids : Nat, foreign : Nat, faults : Nat, runs : Nat]
  BY DEF Inv, CardInv
<1>3. CASE ForeignSave(n) \/ ForeignEdit(n)
  <2>1. PICK id : /\ id = NewId \/ (Has(Pub(n)) /\ id = fs[Pub(n)].id)
                  /\ fs' = Put(fs, Pub(n), File(id, OwnData)) /\ Touch(n, File(id, OwnData))
    BY <1>3 DEF ForeignSave, ForeignEdit
  <2>2. spent' = [spent EXCEPT !.ids = @ + 1, !.foreign = @ + 1]
    BY <1>3 DEF ForeignSave, ForeignEdit
  <2>3. spent'.runs = spent.runs /\ spent'.ids = spent.ids + 1 /\ spent.ids \in Nat
    BY <1>2, <2>2
  <2>4. PICK file : file = File(id, OwnData)
    OBVIOUS
  <2>5. id \in Nat /\ id <= spent.ids + 1
    BY <2>1, <2>3 DEF NewId, Inv, CardInv, FilesKnown, Made, Files, Has
  <2>6. file.id = id /\ file.by = "owner" /\ file.n = spent.ids + 1 /\ file.form = "file"
    BY <2>4 DEF File, OwnData, Data, NewId
  <2>7. file \in Files /\ Made(file)'
    <3>1. file \in Files
      BY <2>3, <2>4, <2>5 DEF File, OwnData, Data, NewId, Files, Makers, Forms
    <3> QED BY <2>3, <2>5, <2>6, <3>1 DEF Made, Dated
  <2>8. \A k \in Items : \A i : i # 0 => File(i, task.items[k].payload) # file
    <3>1. \A k \in Items : Dated(task.items[k].payload) /\ task.items[k].payload \in Datas
      BY DEF Inv, TaskInv, ItemsOK, ItemOK
    <3> QED BY <2>3, <2>6, <3>1 DEF File, Dated, Datas
  <2>9. Look(Pub(n))' = file /\ OnlyAt({Pub(n)})
    BY <2>1, <2>4 DEF Put, Look, Has, Pub, OnlyAt
  <2>10. Touch(n, file)
    BY <2>1, <2>4
  <2>11. spent'.ids \in Nat /\ spent'.ids >= spent.ids /\ spent'.runs = spent.runs
    BY <2>3
  <2> QED BY <1>1, <2>7, <2>8, <2>9, <2>10, <2>11, OwnerRestoring
<1>4. CASE ForeignDelete(n)
  <2>1. PICK file : file = NoFile
    OBVIOUS
  <2>2. spent'.runs = spent.runs /\ spent'.ids = spent.ids /\ spent.ids \in Nat
    BY <1>2, <1>4 DEF ForeignDelete, Count
  <2>3. Touch(n, file) /\ Look(Pub(n))' = file /\ OnlyAt({Pub(n)})
    BY <1>4, <2>1 DEF ForeignDelete, Drop, Look, Has, Pub, OnlyAt, NoFile
  <2>4. file \in Files /\ Made(file)'
    BY <2>1, <2>2 DEF NoFile, Files, Makers, Forms, Made, Dated
  <2>5. \A k \in Items : \A i : i # 0 => File(i, task.items[k].payload) # file
    BY <2>1 DEF File, NoFile
  <2> QED BY <1>1, <2>2, <2>3, <2>4, <2>5, OwnerRestoring
<1> QED BY <1>3, <1>4

-----------------------------------------------------------------------------
(* The transactions that owe no restore: hit by Ctrl-C, committed, or the   *)
(* namespace migrator's.                                                    *)

LEMMA StillHurt ==
  ASSUME task'.hurt = TRUE,
         task'.pc \in {"unwind", "rollback", "taken", "restore", "discard",
                       "undo", "undotaken", "undorestore", "done"}
  PROVE  Restoring'
PROOF BY DEF Restoring, HurtTurnsBack, Owing

LEMMA HasCommitted ==
  ASSUME task'.hurt = FALSE,
         \/ task'.pc \in {"cleanup", "purge", "doctor"}
         \/ task'.pc = "done" /\ task'.result = "committed"
  PROVE  Restoring'
PROOF BY DEF Restoring, HurtTurnsBack, Owing

LEMMA HurtBackward ==
  ASSUME NEW t, DOMAIN t = TaskFields, t.hurt = TRUE, NEW pc \in {"rollback", "undo"},
         task' = Backward(t, pc)
  PROVE  Restoring'
PROOF
<1>1. task'.hurt = TRUE /\ task'.pc \in {"rollback", "undo", "done"}
  BY DEF Backward, TaskFields
<1> QED BY <1>1, StillHurt

LEMMA HurtTo ==
  ASSUME DOMAIN task = TaskFields, task.hurt = TRUE,
         NEW pc \in {"taken", "restore", "discard", "undotaken", "undorestore"}, task' = To(pc)
  PROVE  Restoring'
PROOF
<1>1. task'.hurt = TRUE /\ task'.pc = pc
  BY DEF To, TaskFields
<1> QED BY <1>1, StillHurt

(* apply_staging: Ctrl-C, and what comes after it or after the commit.      *)
LEMMA InterruptedRestoring ==
  ASSUME Inv, staging_interrupt
  PROVE  Restoring'
PROOF
<1>1. DOMAIN task = TaskFields
  BY DEF Inv, TaskInv, Shape
<1>2. task'.hurt = TRUE /\ task'.pc \in {"rollback", "unwind"}
  BY <1>1 DEF staging_interrupt, TaskFields
<1> QED BY <1>2, StillHurt

LEMMA UnowedStaging ==
  ASSUME Inv, Running, Restoring, ~Owing,
         \/ snapshot_original \/ skip_unchanged \/ create_temporary \/ fill_temporary
         \/ park_original \/ check_parked \/ publish \/ record_publication
         \/ verify_installed \/ unwind \/ staging_io_error
         \/ rollback_unpublished \/ rollback_take \/ rollback_check
         \/ rollback_restore \/ rollback_discard \/ rollback_io_error \/ cleanup_original
  PROVE  Restoring'
PROOF
<1>1. /\ DOMAIN task = TaskFields /\ task.hurt \in BOOLEAN
      /\ task.hurt => task.pc \in {"unwind", "rollback", "taken", "restore", "discard",
                                   "undo", "undotaken", "undorestore", "done"}
  BY DEF Inv, TaskInv, Shape, Restoring, HurtTurnsBack
<1>2. task.tool = "stage"
  BY DEF snapshot_original, skip_unchanged, create_temporary, fill_temporary, park_original,
         check_parked, publish, record_publication, verify_installed, unwind, staging_io_error,
         rollback_unpublished, rollback_take, rollback_check, rollback_restore,
         rollback_discard, rollback_io_error, cleanup_original, Stage, At
<1>3. task.hurt \/ task.pc \in {"cleanup", "purge", "doctor"}
  BY <1>2 DEF Owing, Running
<1>4. CASE unwind
  <2>1. task'.hurt = TRUE /\ task'.pc = "rollback"
    BY <1>1, <1>3, <1>4 DEF unwind, Stage, At, With, TaskFields
  <2> QED BY <2>1, StillHurt
<1>5. CASE \/ rollback_unpublished \/ rollback_take \/ rollback_check
           \/ rollback_restore \/ rollback_discard \/ rollback_io_error
  <2>1. task.hurt = TRUE
    BY <1>1, <1>3, <1>5 DEF rollback_unpublished, rollback_take, rollback_check, rollback_restore,
                       rollback_discard, rollback_io_error, Stage, At
  <2>2. \/ task' \in {To("taken"), To("restore"), To("discard")}
        \/ task' \in {Conflict, Backward(task, "rollback"),
                      Backward([task EXCEPT !.touched = Settled(It.name)], "rollback")}
    BY <1>5 DEF rollback_unpublished, rollback_take, rollback_check, rollback_restore,
                rollback_discard, rollback_io_error
  <2>3. CASE task' \in {To("taken"), To("restore"), To("discard")}
    BY <1>1, <2>1, <2>3, HurtTo
  <2>4. PICK t, u : t = [task EXCEPT !.report = Report(It.name)]
                 /\ u = [task EXCEPT !.touched = Settled(It.name)]
    OBVIOUS
  <2>5. /\ DOMAIN t = TaskFields /\ t.hurt = TRUE
        /\ DOMAIN u = TaskFields /\ u.hurt = TRUE
    BY <1>1, <2>1, <2>4 DEF TaskFields
  <2>6. CASE task' \in {Backward(t, "rollback"), Backward(task, "rollback"),
                        Backward(u, "rollback")}
    BY <1>1, <2>1, <2>5, <2>6, HurtBackward
  <2> QED BY <2>2, <2>3, <2>4, <2>6 DEF Conflict
<1>6. CASE cleanup_original \/ staging_io_error
  <2>1. task.pc = "cleanup"
    BY <1>1, <1>3, <1>6 DEF cleanup_original, staging_io_error, Stage, At
  <2>2. task.hurt = FALSE
    BY <1>1, <2>1
  <2>3. PICK s : /\ DOMAIN s = TaskFields /\ s.hurt = FALSE
                 /\ LET t == Forward(s, "cleanup", "done")
                    IN  task' = IF t.pc = "done" THEN [t EXCEPT !.result = "committed"] ELSE t
    <3>1. CASE cleanup_original
      BY <1>1, <2>2, <3>1 DEF cleanup_original
    <3>2. CASE staging_io_error
      <4>1. PICK s : s = [task EXCEPT !.report = Report(It.name)]
        OBVIOUS
      <4>2. DOMAIN s = TaskFields /\ s.hurt = FALSE
        BY <1>1, <2>2, <4>1 DEF TaskFields
      <4> QED BY <2>1, <3>2, <4>1, <4>2 DEF staging_io_error
    <3> QED BY <1>6, <3>1, <3>2
  <2>4. PICK t : t = Forward(s, "cleanup", "done")
    OBVIOUS
  <2>5. DOMAIN t = TaskFields /\ t.hurt = FALSE /\ t.pc \in {"cleanup", "done"}
    BY <2>3, <2>4 DEF Forward, TaskFields
  <2>6. task' = IF t.pc = "done" THEN [t EXCEPT !.result = "committed"] ELSE t
    BY <2>3, <2>4
  <2>7. \/ task'.hurt = FALSE /\ task'.pc = "cleanup"
        \/ task'.hurt = FALSE /\ task'.pc = "done" /\ task'.result = "committed"
    BY <2>5, <2>6 DEF TaskFields
  <2> QED BY <2>7, HasCommitted
<1>7. ~ (\/ snapshot_original \/ skip_unchanged \/ create_temporary \/ fill_temporary
         \/ park_original \/ check_parked \/ publish \/ record_publication \/ verify_installed)
  BY <1>1, <1>3 DEF snapshot_original, skip_unchanged, create_temporary, fill_temporary,
     park_original, check_parked, publish, record_publication, verify_installed, Stage, At
<1> QED BY <1>4, <1>5, <1>6, <1>7

(* generate_presets: the rollback of a pair that Ctrl-C has hit, and the    *)
(* purge of its backups.                                                    *)
LEMMA UnowedPresets ==
  ASSUME Inv, Running, Restoring, ~Owing,
         \/ prepare_output \/ allocate_temporary \/ fill_preset \/ back_up \/ park_preset
         \/ compare_backup \/ install_preset \/ own_preset \/ confirm_preset \/ purge_backup
         \/ preset_fault \/ undo_take \/ undo_check \/ undo_restore
         \/ undo_unpublished \/ undo_io_error
  PROVE  Restoring'
PROOF
<1>1. /\ DOMAIN task = TaskFields /\ task.hurt \in BOOLEAN
      /\ task.hurt => task.pc \in {"unwind", "rollback", "taken", "restore", "discard",
                                   "undo", "undotaken", "undorestore", "done"}
  BY DEF Inv, TaskInv, Shape, Restoring, HurtTurnsBack
<1>2. task.tool = "preset"
  BY DEF prepare_output, allocate_temporary, fill_preset, back_up, park_preset, compare_backup,
         install_preset, own_preset, confirm_preset, purge_backup, preset_fault, undo_take,
         undo_check, undo_restore, undo_unpublished, undo_io_error, Preset, At
<1>3. task.hurt \/ task.pc \in {"cleanup", "purge", "doctor"}
  BY <1>2 DEF Owing, Running
<1>4. CASE undo_take \/ undo_check \/ undo_restore \/ undo_unpublished \/ undo_io_error
  <2>1. task.hurt = TRUE
    BY <1>1, <1>3, <1>4 DEF undo_take, undo_check, undo_restore, undo_unpublished,
                            undo_io_error, Preset, At
  <2>2. \/ task' \in {To("undotaken"), To("undorestore"), Failure}
        \/ \E u : task' = Backward([task EXCEPT !.touched = u], "undo")
    <3>1. CASE undo_take \/ undo_check \/ undo_io_error
      BY <3>1 DEF undo_take, undo_check, undo_io_error
    <3>2. CASE undo_restore
      BY <3>2 DEF undo_restore
    <3>3. CASE undo_unpublished
      BY <3>3 DEF undo_unpublished
    <3> QED BY <1>4, <3>1, <3>2, <3>3
  <2>3. CASE task' \in {To("undotaken"), To("undorestore")}
    BY <1>1, <2>1, <2>3, HurtTo
  <2>4. CASE task' = Failure
    <3>1. PICK t : t = [task EXCEPT !.report = Report(It.name)]
      OBVIOUS
    <3>2. DOMAIN t = TaskFields /\ t.hurt = TRUE
      BY <1>1, <2>1, <3>1 DEF TaskFields
    <3>3. task' = Backward(t, "undo")
      BY <2>4, <3>1 DEF Failure
    <3> QED BY <3>2, <3>3, HurtBackward
  <2>5. CASE \E u : task' = Backward([task EXCEPT !.touched = u], "undo")
    <3>1. PICK u : task' = Backward([task EXCEPT !.touched = u], "undo")
      BY <2>5
    <3>2. PICK t : t = [task EXCEPT !.touched = u]
      OBVIOUS
    <3>3. DOMAIN t = TaskFields /\ t.hurt = TRUE
      BY <1>1, <2>1, <3>2 DEF TaskFields
    <3> QED BY <3>1, <3>2, <3>3, HurtBackward
  <2> QED BY <2>2, <2>3, <2>4, <2>5
<1>5. CASE purge_backup
  <2>1. task.hurt = FALSE
    BY <1>1, <1>5 DEF purge_backup, Preset, At
  <2>2. PICK t : t = Forward(task, "purge", "done")
    OBVIOUS
  <2>3. DOMAIN t = TaskFields /\ t.hurt = FALSE /\ t.pc \in {"purge", "done"}
    BY <1>1, <2>1, <2>2 DEF Forward, TaskFields
  <2>4. task' = NextPair(t)
    BY <1>5, <2>2 DEF purge_backup
  <2>5. \/ task'.hurt = FALSE /\ task'.pc \in {"purge", "doctor"}
        \/ task'.hurt = FALSE /\ task'.pc = "done" /\ task'.result = "committed"
    BY <2>3, <2>4 DEF NextPair, TaskFields
  <2> QED BY <2>5, HasCommitted
<1>6. CASE preset_fault
  <2>1. task.pc = "purge"
    BY <1>1, <1>3, <1>6 DEF preset_fault
  <2>2. PICK s : s = [task EXCEPT !.report = Report(It.name)]
    OBVIOUS
  <2>3. PICK t : t = Forward(s, "purge", "done")
    OBVIOUS
  <2>4. task' = IF t.pc = "done" THEN [t EXCEPT !.result = "committed"] ELSE t
    BY <1>6, <2>1, <2>2, <2>3 DEF preset_fault
  <2>5. DOMAIN s = TaskFields /\ s.hurt = FALSE
    BY <1>1, <2>1, <2>2 DEF TaskFields
  <2>6. DOMAIN t = TaskFields /\ t.hurt = FALSE /\ t.pc \in {"purge", "done"}
    BY <2>3, <2>5 DEF Forward, TaskFields
  <2>7. \/ task'.hurt = FALSE /\ task'.pc = "purge"
        \/ task'.hurt = FALSE /\ task'.pc = "done" /\ task'.result = "committed"
    BY <2>4, <2>6 DEF TaskFields
  <2> QED BY <2>7, HasCommitted
<1>7. ~ (\/ prepare_output \/ allocate_temporary \/ fill_preset \/ back_up \/ park_preset
         \/ compare_backup \/ install_preset \/ own_preset \/ confirm_preset)
  BY <1>1, <1>3 DEF prepare_output, allocate_temporary, fill_preset, back_up, park_preset,
     compare_backup, install_preset, own_preset, confirm_preset, Preset, At
<1> QED BY <1>4, <1>5, <1>6, <1>7

(* The namespace migrator has no rollback; only a fault sets `hurt`, and    *)
(* the run is over then.                                                    *)
LEMMA UnowedMigrators ==
  ASSUME Inv, Running, Restoring, ~Owing,
         \/ apply_migration \/ destination_state \/ write_new \/ sync_new
         \/ install_no_replace \/ verify_created \/ migration_complete \/ migration_fault
         \/ remove_created \/ inspect_removed \/ remove_io_error
  PROVE  Restoring'
PROOF
<1>1. /\ DOMAIN task = TaskFields /\ task.hurt \in BOOLEAN
      /\ task.hurt => task.pc \in {"unwind", "rollback", "taken", "restore", "discard",
                                   "undo", "undotaken", "undorestore", "done"}
  BY DEF Inv, TaskInv, Shape, Restoring, HurtTurnsBack
<1>2. task.pc \in {"replan", "create", "sync", "link", "reread", "complete", "remove", "inspect"}
  BY DEF apply_migration, destination_state, write_new, sync_new, install_no_replace,
         verify_created, migration_complete, migration_fault, remove_created,
         inspect_removed, remove_io_error, On
<1>3. task.tool = "namespace" /\ task.hurt = FALSE
  BY <1>1, <1>2 DEF Owing
<1>4. ASSUME NEW t, DOMAIN t = TaskFields, t.tool = "namespace", t.hurt = FALSE
      PROVE  /\ DOMAIN Failing(t) = TaskFields /\ Failing(t).tool = "namespace"
             /\ Failing(t).hurt = FALSE
             /\ \A pc, then : /\ Forward(t, pc, then).tool = "namespace"
                              /\ Forward(t, pc, then).hurt = FALSE
             /\ \A pc : Backward(t, pc).tool = "namespace" /\ Backward(t, pc).hurt = FALSE
  BY <1>4 DEF Failing, Forward, Backward, TaskFields
<1>5. ASSUME NEW it, NEW pc
      PROVE  /\ DOMAIN With(it, pc) = TaskFields /\ With(it, pc).tool = "namespace"
             /\ With(it, pc).hurt = FALSE
  BY <1>1, <1>3 DEF With, TaskFields
<1>6. ASSUME NEW u
      PROVE  /\ DOMAIN [task EXCEPT !.touched = u] = TaskFields
             /\ [task EXCEPT !.touched = u].tool = "namespace"
             /\ [task EXCEPT !.touched = u].hurt = FALSE
             /\ DOMAIN [task EXCEPT !.report = u] = TaskFields
             /\ [task EXCEPT !.report = u].tool = "namespace"
             /\ [task EXCEPT !.report = u].hurt = FALSE
  BY <1>1, <1>3 DEF TaskFields
<1>7. \A pc : To(pc).tool = "namespace" /\ To(pc).hurt = FALSE
  BY <1>1, <1>3 DEF To, TaskFields
<1>8. task'.tool = "namespace" /\ (task'.hurt = FALSE \/ (task'.hurt = TRUE /\ task'.pc = "done"))
  <2>1. CASE apply_migration \/ migration_complete
    BY <1>1, <1>3, <2>1 DEF apply_migration, migration_complete, To, TaskFields
  <2>2. CASE destination_state
    <3>1. PICK t : t = [task EXCEPT !.touched = Settled(It.name)]
      OBVIOUS
    <3>2. task' = Forward(t, "create", "complete") \/ task' = Failing(task)
      BY <2>2, <3>1 DEF destination_state
    <3>3. DOMAIN t = TaskFields /\ t.tool = "namespace" /\ t.hurt = FALSE
      BY <1>6, <3>1
    <3> QED BY <1>1, <1>3, <1>4, <3>2, <3>3
  <2>3. CASE verify_created
    <3>1. PICK u : u = IF task.tool = "convert" THEN task.touched ELSE Settled(It.name)
      OBVIOUS
    <3>2. PICK t : t = [task EXCEPT !.touched = u]
      OBVIOUS
    <3>3. task' = Forward(t, "create", "complete") \/ task' = Failing(task)
      BY <2>3, <3>1, <3>2, <1>1 DEF verify_created, TaskFields
    <3>4. DOMAIN t = TaskFields /\ t.tool = "namespace" /\ t.hurt = FALSE
      BY <1>6, <3>2
    <3> QED BY <1>1, <1>3, <1>4, <3>3, <3>4
  <2>4. CASE write_new \/ sync_new
    BY <1>5, <1>7, <2>4 DEF write_new, sync_new
  <2>5. CASE install_no_replace
    <3>1. PICK t : t = With([It EXCEPT !.temp = 0], "link")
      OBVIOUS
    <3>2. task' = Failing(t) \/ \E it : task' = With(it, "reread")
      BY <2>5, <3>1 DEF install_no_replace
    <3> QED BY <1>4, <1>5, <3>1, <3>2
  <2>6. CASE migration_fault
    <3>1. PICK t : t = With([It EXCEPT !.temp = 0], task.pc)
      OBVIOUS
    <3>2. \/ task' = [t EXCEPT !.pc = "done", !.result = "failed", !.hurt = TRUE]
          \/ task' = Failing(t)
      BY <2>6, <3>1 DEF migration_fault
    <3>3. DOMAIN t = TaskFields /\ t.tool = "namespace" /\ t.hurt = FALSE
      BY <1>5, <3>1
    <3> QED BY <1>4, <3>2, <3>3 DEF TaskFields
  <2>7. CASE remove_created \/ inspect_removed \/ remove_io_error
    <3>1. PICK r : r = [task EXCEPT !.report = Report(It.name)]
      OBVIOUS
    <3>2. PICK u : u = [task EXCEPT !.touched = IF Has(Pub(It.name)) THEN @ ELSE Settled(It.name)]
      OBVIOUS
    <3>3. \/ task' = To("inspect") \/ task' = Backward(task, "remove")
          \/ task' = Backward(r, "remove") \/ task' = Backward(u, "remove")
      BY <2>7, <3>1, <3>2 DEF remove_created, inspect_removed, remove_io_error, Leftover
    <3>4. /\ DOMAIN r = TaskFields /\ r.tool = "namespace" /\ r.hurt = FALSE
          /\ DOMAIN u = TaskFields /\ u.tool = "namespace" /\ u.hurt = FALSE
      BY <1>1, <1>3, <3>1, <3>2 DEF TaskFields
    <3> QED BY <1>1, <1>3, <1>4, <1>7, <3>3, <3>4
  <2> QED BY <2>1, <2>2, <2>3, <2>4, <2>5, <2>6, <2>7
<1> QED BY <1>8 DEF Restoring, HurtTurnsBack, Owing

-----------------------------------------------------------------------------
(* Every step.                                                              *)

LEMMA IdleRestores ==
  ASSUME task = Idle
  PROVE  Restoring
PROOF
<1>1. /\ task.items = <<>> /\ task.pc = "idle" /\ task.tool = "none" /\ task.hurt = FALSE
      /\ task.before = {} /\ task.i = 0
  BY DEF Idle
<1>2. Last = 0 /\ Items = {} /\ \A k : k \in task.i .. Last => k = 0
  BY <1>1 DEF Last, Items
<1>3. Course
  BY <1>1, <1>2 DEF Course, Migrating
<1> QED BY <1>1, <1>2, <1>3 DEF Restoring, HurtTurnsBack, Records, AllNamed

LEMMA IdleRestoresNext ==
  ASSUME task' = Idle
  PROVE  Restoring'
PROOF
<1>1. /\ task'.items = <<>> /\ task'.pc = "idle" /\ task'.tool = "none" /\ task'.hurt = FALSE
      /\ task'.before = {} /\ task'.i = 0
  BY DEF Idle
<1>2. Last' = 0 /\ Items' = {}
  BY <1>1 DEF Last, Items
<1>3. Course'
  BY <1>1, <1>2 DEF Course, Migrating
<1> QED BY <1>1, <1>2, <1>3 DEF Restoring, HurtTurnsBack, Records, AllNamed

LEMMA UnchangedRestoring ==
  ASSUME Restoring, UNCHANGED cardVars
  PROVE  Restoring'
PROOF
<1>1. fs' = fs /\ task' = task /\ spent' = spent
  BY DEF cardVars
<1>2. HurtTurnsBack' /\ Owing' = Owing
  BY <1>1 DEF Restoring, HurtTurnsBack, Owing
<1> SUFFICES ASSUME Owing
             PROVE  /\ Course' /\ Records' /\ AllNamed'
                    /\ \A k \in Items : NotOurs(k)' /\ ParkedWell(k)' /\ Within(k)'
  BY <1>1, <1>2 DEF Restoring, Items, Last
<1>3. /\ Course /\ Records /\ AllNamed
      /\ \A k \in Items : NotOurs(k) /\ ParkedWell(k) /\ Within(k)
  BY DEF Restoring
<1>4. Course'
  BY <1>1, <1>3 DEF Course, Last, Items, It, Migrating, NoFile
<1>5. Records' /\ AllNamed'
  BY <1>1, <1>3 DEF Records, AllNamed, Files, Made, Dated, Items, Last
<1>6. ASSUME NEW k \in Items
      PROVE  NotOurs(k)' /\ ParkedWell(k)' /\ Within(k)'
  <2>1. NotOurs(k) /\ ParkedWell(k) /\ Within(k)
    BY <1>3
  <2>2. Open(k)' = Open(k) /\ OrigOf(k)' = OrigOf(k) /\ RollOf(k)' = RollOf(k)
    BY <1>1 DEF Open, OrigOf, RollOf, Hidden
  <2>3. Now(k)' = Now(k) /\ Stands(k)' = Stands(k) /\ Mine(k)' = Mine(k)
    BY <1>1 DEF Now, Look, Has, Pub, NoFile, Stands, Mine, File, Unrecorded
  <2>4. NotOurs(k)' /\ ParkedWell(k)'
    BY <1>1, <2>1, <2>2 DEF NotOurs, ParkedWell, File, Has, NoFile
  <2>5. Rolled(k)' = Rolled(k) /\ OnHand(k)' = OnHand(k) /\ MayBeAway(k)' = MayBeAway(k)
    BY <1>1, <2>3 DEF Rolled, OnHand, MayBeAway
  <2>6. ASSUME NEW b
        PROVE  /\ Kept(k, b)' = Kept(k, b) /\ Away(k, b)' = Away(k, b)
               /\ Displaced(k, b)' = Displaced(k, b)
    BY <1>1, <2>2, <2>3 DEF Kept, Away, Displaced, Has, NoFile
  <2>7. ASSUME NEW b
        PROVE  CanRestore(k, b) => CanRestore(k, b)'
    BY <1>1, <2>2, <2>3, <2>5, <2>6 DEF CanRestore
  <2> QED BY <2>1, <2>2, <2>4, <2>7 DEF Within
<1> QED BY <1>4, <1>5, <1>6

LEMMA RestoringStep ==
  ASSUME Inv, Restoring, [Next]_cardVars
  PROVE  Restoring'
PROOF
<1>1. CASE UNCHANGED cardVars
  BY <1>1, UnchangedRestoring
<1>2. CASE StagingNext
  <2>1. CASE \E r \in 1 .. 2 : plan_staging(r)
    BY <2>1, StagingBegins
  <2>2. CASE staging_interrupt
    BY <2>2, InterruptedRestoring
  <2>3. CASE \/ snapshot_original \/ skip_unchanged \/ create_temporary \/ fill_temporary
             \/ park_original \/ check_parked \/ publish \/ record_publication
             \/ verify_installed \/ unwind \/ staging_io_error
    <3>1. Running
      BY <2>3 DEF snapshot_original, skip_unchanged, create_temporary, fill_temporary,
         park_original, check_parked, publish, record_publication, verify_installed, unwind,
         staging_io_error, Stage, At, Running
    <3> QED BY <2>3, <3>1, RestoringStagingForward, UnowedStaging
  <2>4. CASE \/ rollback_unpublished \/ rollback_take \/ rollback_check
             \/ rollback_restore \/ rollback_discard \/ rollback_io_error
    <3>1. Running
      BY <2>4 DEF rollback_unpublished, rollback_take, rollback_check, rollback_restore,
         rollback_discard, rollback_io_error, Stage, At, Running
    <3> QED BY <2>4, <3>1, RestoringStagingBack, UnowedStaging
  <2>5. CASE cleanup_original
    <3>1. Running /\ ~Owing
      BY <2>5 DEF cleanup_original, Stage, At, Running, Owing
    <3> QED BY <2>5, <3>1, UnowedStaging
  <2> QED BY <1>2, <2>1, <2>2, <2>3, <2>4, <2>5 DEF StagingNext
<1>3. CASE PresetNext
  <2>1. CASE \E k \in 1 .. Len(Roms), force \in BOOLEAN : generate_presets(Roms[k].stem, force)
    <3>1. PICK g : \E force \in BOOLEAN : generate_presets(g, force)
      BY <2>1
    <3> QED BY <3>1, PresetsBegin
  <2>2. CASE purge_backup
    <3>1. Running /\ ~Owing
      BY <2>2 DEF purge_backup, Preset, At, Running, Owing
    <3> QED BY <2>2, <3>1, UnowedPresets
  <2>3. CASE /\ Owing
             /\ \/ prepare_output \/ allocate_temporary \/ fill_preset \/ back_up \/ park_preset
                \/ compare_backup \/ install_preset \/ own_preset \/ confirm_preset
                \/ preset_fault \/ undo_take \/ undo_check \/ undo_restore
                \/ undo_unpublished \/ undo_io_error
    <3>1. Running
      BY <2>3 DEF prepare_output, allocate_temporary, fill_preset, back_up, park_preset,
         compare_backup, install_preset, own_preset, confirm_preset, preset_fault, undo_take,
         undo_check, undo_restore, undo_unpublished, undo_io_error, Preset, At, Running
    <3> QED BY <2>3, <3>1, RestoringPresets
  <2>4. CASE /\ ~Owing
             /\ \/ prepare_output \/ allocate_temporary \/ fill_preset \/ back_up \/ park_preset
                \/ compare_backup \/ install_preset \/ own_preset \/ confirm_preset
                \/ preset_fault \/ undo_take \/ undo_check \/ undo_restore
                \/ undo_unpublished \/ undo_io_error
    <3>1. Running
      BY <2>4 DEF prepare_output, allocate_temporary, fill_preset, back_up, park_preset,
         compare_backup, install_preset, own_preset, confirm_preset, preset_fault, undo_take,
         undo_check, undo_restore, undo_unpublished, undo_io_error, Preset, At, Running
    <3> QED BY <2>4, <3>1, UnowedPresets
  <2> QED BY <1>3, <2>1, <2>2, <2>3, <2>4 DEF PresetNext
<1>4. CASE DoctorNext
  BY <1>4, PresetsBegin, NextPairBegins DEF DoctorNext
<1>5. CASE MigrationNext
  <2>1. CASE plan_migration \/ plan_namespace
    BY <2>1, MigratorsBegin
  <2>2. CASE \E k \in 1 .. Len(Titles) : \/ migrate_type01_save(Titles[k])
                                         \/ migrate_legacy_eeprom_save(Titles[k])
    BY <2>2, ConvertBegins
  <2>3. CASE \/ apply_migration \/ destination_state \/ write_new \/ sync_new
             \/ install_no_replace \/ verify_created \/ migration_complete \/ migration_fault
             \/ remove_created \/ inspect_removed \/ remove_io_error
    <3>1. Running
      BY <2>3 DEF apply_migration, destination_state, write_new, sync_new, install_no_replace,
         verify_created, migration_complete, migration_fault, remove_created,
         inspect_removed, remove_io_error, On, Running
    <3> QED BY <2>3, <3>1, RestoringMigrators, UnowedMigrators
  <2> QED BY <1>5, <2>1, <2>2, <2>3 DEF MigrationNext
<1>6. CASE Owner
  BY <1>6, OwnerStepRestoring DEF Owner
<1>7. CASE Crash \/ Finish
  <2>1. task' = Idle
    BY <1>7 DEF Crash, Finish
  <2> QED BY <2>1, IdleRestoresNext
<1> QED BY <1>1, <1>2, <1>3, <1>4, <1>5, <1>6, <1>7 DEF Next

(* RollbackRestores: when apply_staging, generate_presets or the cartridge  *)
(* migrator returns having failed, every name it was to write shows what    *)
(* the owner last left there, or the tool reports a conflict for it.        *)
THEOREM RollbacksRestore == Spec => []RollbackRestores
PROOF
<1>1. Inv /\ Restoring => RollbackRestores
  <2> SUFFICES ASSUME Restoring, task.pc = "done", task.result = "failed", ~task.hurt,
                      task.tool # "namespace", NEW b \in task.before, b.name \notin task.report
               PROVE  \/ Look(Pub(b.name)) = b.file
                      \/ b.file = NoFile /\ Look(Pub(b.name)) \in b.had
    BY DEF RollbackRestores
  <2>1. Owing
    BY DEF Owing
  <2>2. PICK k \in Items : task.items[k].name = b.name
    BY <2>1 DEF Restoring, AllNamed
  <2>3. CanRestore(k, b)
    BY <2>1, <2>2 DEF Restoring, Within, Open
  <2>4. Rolled(k) /\ ~OnHand(k)
    BY DEF Rolled, OnHand, Taken
  <2>5. Kept(k, b)
    BY <2>3, <2>4 DEF CanRestore
  <2> QED BY <2>2, <2>5 DEF Kept, Now
<1>2. Init => Restoring
  BY IdleRestores DEF Init
<1>3. Inv /\ Restoring /\ [Next]_cardVars => Restoring'
  BY RestoringStep
<1> QED BY <1>1, <1>2, <1>3, CardInvariant, PTL DEF Spec
=============================================================================
