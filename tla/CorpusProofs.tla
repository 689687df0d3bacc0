---------------------------- MODULE CorpusProofs ----------------------------
(***************************************************************************)
(* The corpus for any images, archives, builds and number of runners: an   *)
(* import leaves all of its files or none, the user's files stay, and a    *)
(* pass stands on executions of exactly that image with that build.        *)
(***************************************************************************)
EXTENDS Corpus, TLAPS

---------------------------------------------------------------------------
\* The lab and the importer.

Known == Image \cup Misfits
Sources == ToSet(Archives)

SpentOK == spent \in [starts : Nat, change : Nat, kill : Nat, fail : Nat]

Stages == {"idle", "key", "write_key", "scan", "plan", "stage", "link", "stat", "chmod", "undo",
           "unlink"}
Entries == [name : Image, by : Int]
Imports ==
    [pc : Stages, no : Nat, apply : BOOLEAN, todo : Seq(Known \cup Sources),
     found : Seq(Image), body : Seq(Sources \X Body), rejected : BOOLEAN,
     planned : Seq(Image), staged : Seq(Known), linked : Seq(Entries), stuck : SUBSET Image,
     outcome : {"none", "refused", "rejected", "reported", "imported", "failed", "killed"}]

ImporterTypes ==
    /\ zips \in [Sources -> Body \cup {Nothing}]
    /\ imp \in Imports
    /\ imp.pc # "idle" => imp.no > 0

\* What is known of each archive that had an image: its body, and that the
\* image is the body's.
Remembered ==
    /\ Len(imp.body) = Len(imp.found)
    /\ \A k \in 1 .. Len(imp.found) : imp.body[k][2].image = imp.found[k]

\* Loops over the archives, the candidates and the plan.
Scanning == imp.pc \in {"key", "write_key", "scan"} => imp.todo \in Seq(Sources)
Planning ==
    /\ imp.pc = "plan" => \A k \in 1 .. Len(imp.todo) : imp.todo[k] \in ToSet(imp.found)
    /\ imp.pc \in {"plan", "stage"} =>
         \A k \in 1 .. Len(imp.planned) : imp.planned[k] \in ToSet(imp.found)

\* The rest of the plan is still to do, n of it is done.
Rest_of_plan(n) ==
    /\ Len(imp.planned) = n + Len(imp.todo)
    /\ \A k \in 1 .. Len(imp.todo) : imp.todo[k] = imp.planned[n + k]
StagedSoFar == \A k \in 1 .. Len(imp.staged) : imp.staged[k] = imp.planned[k]
Staging == imp.pc = "stage" => Rest_of_plan(Len(imp.staged)) /\ StagedSoFar
Linking ==
    /\ imp.pc \in {"link", "stat"} =>
         Rest_of_plan(Len(imp.linked)) /\ StagedSoFar /\ Len(imp.staged) = Len(imp.planned)
    /\ imp.pc = "stat" => imp.todo # << >>
    /\ imp.pc = "unlink" => imp.linked # << >>

\* The lists of later loops are still empty.
NothingPlanned == imp.pc \in {"key", "write_key", "scan"} => imp.planned = << >>
NothingStaged == imp.pc \in {"key", "write_key", "scan", "plan"} => imp.staged = << >>
NothingLinked == imp.pc \notin {"link", "stat", "chmod", "undo", "unlink"} => imp.linked = << >>

\* A file an import made holds the image of its name until it is edited; one
\* of the current import is about to be recorded, on the list a rollback works
\* from, or one the system would not let the import look at or unlink.
Listed(n) == [name |-> n, by |-> imp.no] \in ToSet(imp.linked)
ImportedFile(n) ==
    /\ roms[n].edited \/ roms[n].data = n
    /\ roms[n].by <= imp.no
    /\ roms[n].by = imp.no =>
         \/ imp.pc = "idle" /\ imp.outcome \in {"imported", "killed"}
         \/ Listed(n) \/ n \in imp.stuck
         \/ imp.pc = "stat" /\ n = Head(imp.todo)
\* A file of the user's that is about to be recorded, was recorded or is about
\* to be unlinked was saved in one of the two windows.
Races ==
    /\ imp.pc = "stat" => (Users(roms[Head(imp.todo)]) => roms[Head(imp.todo)].by \in raced)
    /\ \A e \in ToSet(imp.linked) : e.by <= 0 => e.by \in raced
    /\ imp.pc = "unlink" =>
         (Users(roms[Last(imp.linked).name]) => roms[Last(imp.linked).name].by \in raced)
Files ==
    /\ DOMAIN roms = Image
    /\ \A n \in Image : roms[n] # Nothing =>
         /\ DOMAIN roms[n] = {"data", "by", "edited"}
         /\ roms[n].data \in Known /\ roms[n].by \in Int
         /\ ~Users(roms[n]) => ImportedFile(n)
    /\ Races

ImportInv ==
    /\ SpentOK /\ ImporterTypes /\ Remembered /\ Scanning /\ Planning
    /\ Staging /\ Linking
    /\ NothingPlanned /\ NothingStaged /\ NothingLinked /\ Files

---------------------------------------------------------------------------
\* The runners.

RunFields == {"pc", "no", "repeat", "path", "rejected", "contract"}
CaseFields == {"pc", "data", "build", "attempt", "chain", "status"}

RunnerTypes ==
    /\ DOMAIN results = Image
    /\ DOMAIN run = 1 .. Runners /\ DOMAIN case = 1 .. Runners /\ DOMAIN summary = 1 .. Runners
    /\ \A p \in 1 .. Runners :
         /\ DOMAIN run[p] = RunFields
         /\ DOMAIN case[p] = Image
         /\ \A d \in Image : DOMAIN case[p][d] = CaseFields

\* An inventory lists images only; a run that is testing has a contract for
\* the simulator that is installed.
Inventory(p) == run[p].pc \in {"contract", "cases"} => Cases(p) \subseteq Image
Contracted(p) ==
    run[p].pc = "cases" => /\ run[p].contract.build = sim
                           /\ run[p].contract.repeat = run[p].repeat

FirstExecution(p, d) ==
    [no |-> run[p].no, image |-> d, build |-> run[p].contract.build,
     attempt |-> 1, chain |-> case[p][d].chain]

\* Only a run that is testing has threads.  A thread that runs the simulator
\* runs it on the image of its case, and before a second time it has recorded
\* the first.
Executing(p, d) ==
    /\ run[p].pc # "cases" => case[p][d] = NoCase
    /\ case[p][d].pc \in {"launch", "running"} =>
         /\ case[p][d].data = d
         /\ \/ case[p][d].attempt = 1
            \/ case[p][d].attempt = 2 /\ run[p].repeat /\ FirstExecution(p, d) \in log
    /\ case[p][d].pc = "running" => case[p][d].build = run[p].contract.build
    /\ case[p][d].status = "pass" => Earned(d, run[p].contract)

RunInv ==
    /\ RunnerTypes
    /\ \A p \in 1 .. Runners : Inventory(p) /\ Contracted(p)
    /\ \A p \in 1 .. Runners : \A d \in Image : Executing(p, d)
    /\ PassIsEarned

CorpusInv == ImportInv /\ RunInv

---------------------------------------------------------------------------
\* Sequences.

LEMMA TailFacts ==
    ASSUME NEW S, NEW s \in Seq(S), s # << >>
    PROVE  /\ Len(s) \in Nat /\ Len(s) >= 1
           /\ Head(s) = s[1] /\ Head(s) \in S
           /\ Tail(s) \in Seq(S) /\ Len(Tail(s)) = Len(s) - 1
           /\ \A k \in 1 .. Len(Tail(s)) : Tail(s)[k] = s[k + 1]
  OBVIOUS

LEMMA AppendFacts ==
    ASSUME NEW S, NEW s \in Seq(S), NEW e \in S
    PROVE  /\ Append(s, e) \in Seq(S)
           /\ Len(s) \in Nat /\ Len(Append(s, e)) = Len(s) + 1
           /\ \A k \in 1 .. Len(s) : Append(s, e)[k] = s[k]
           /\ Append(s, e)[Len(s) + 1] = e
           /\ ToSet(Append(s, e)) = ToSet(s) \cup {e}
<1>1. /\ Append(s, e) \in Seq(S)
      /\ Len(s) \in Nat /\ Len(Append(s, e)) = Len(s) + 1
      /\ \A k \in 1 .. Len(s) : Append(s, e)[k] = s[k]
      /\ Append(s, e)[Len(s) + 1] = e
  OBVIOUS
<1>2. DOMAIN s = 1 .. Len(s) /\ DOMAIN Append(s, e) = 1 .. Len(s) + 1
  BY <1>1
<1>3. ToSet(Append(s, e)) = ToSet(s) \cup {e}
  BY <1>1, <1>2 DEF ToSet
<1>4. QED
  BY <1>1, <1>3

LEMMA FrontFacts ==
    ASSUME NEW S, NEW s \in Seq(S), s # << >>
    PROVE  /\ Front(s) \in Seq(S) /\ Last(s) \in S
           /\ \A x \in ToSet(s) : x = Last(s) \/ x \in ToSet(Front(s))
           /\ ToSet(Front(s)) \subseteq ToSet(s)
<1>1. Len(s) \in Nat /\ Len(s) >= 1 /\ DOMAIN s = 1 .. Len(s)
  BY TailFacts
<1>2. /\ Front(s) \in Seq(S)
      /\ Len(Front(s)) = Len(s) - 1
      /\ \A k \in 1 .. Len(s) - 1 : Front(s)[k] = s[k]
  BY <1>1 DEF Front
<1>3. DOMAIN Front(s) = 1 .. Len(s) - 1
  BY <1>1, <1>2
<1>4. QED
  BY <1>1, <1>2, <1>3 DEF ToSet, Last

---------------------------------------------------------------------------
\* The importer's steps.

\* Files are where the importer left them unless it unlinks or links them.
LEMMA FilesKept ==
    ASSUME ImportInv, roms' = roms, raced' = raced, imp'.no = imp.no,
           imp'.pc \notin {"stat", "unlink"}, imp'.stuck = imp.stuck,
           imp'.linked = imp.linked \/ imp'.linked = << >>,
           \/ imp.pc \notin {"idle", "stat"} /\ imp'.linked = imp.linked
           \/ imp.pc \notin {"idle", "stat"} /\ imp.linked = << >>
           \/ imp'.pc = "idle" /\ imp'.outcome \in {"imported", "killed"}
    PROVE  Files'
<1>1. ToSet(<< >>) = {}
  BY DEF ToSet
<1>2. Races'
  BY <1>1 DEF ImportInv, Files, Races
<1>3. ASSUME NEW n \in Image, ImportedFile(n) PROVE ImportedFile(n)'
  BY <1>1, <1>3 DEF ImportedFile, Listed
<1>4. QED
  BY <1>2, <1>3 DEF ImportInv, Files

LEMMA EndedFacts ==
    ASSUME NEW o, ImportInv
    PROVE  LET e == Ended(o) IN
           /\ e.pc = "idle" /\ e.no = imp.no /\ e.outcome = o
           /\ e.todo = Archives /\ e.found = << >> /\ e.body = << >>
           /\ e.planned = << >> /\ e.staged = << >> /\ e.linked = << >> /\ e.stuck = imp.stuck
           /\ o \in {"refused", "rejected", "reported", "imported", "failed", "killed"} => e \in Imports
<1>1. Archives \in Seq(Known \cup Sources)
  BY ArchiveFiles DEF Sources
<1>2. Ended(o) =
        [pc |-> "idle", no |-> imp.no, apply |-> imp.apply, todo |-> Archives,
         found |-> << >>, body |-> << >>, rejected |-> FALSE, planned |-> << >>,
         staged |-> << >>, linked |-> << >>, stuck |-> imp.stuck, outcome |-> o]
  <2>1. Ended(o) =
          [[pc |-> "key", no |-> imp.no, apply |-> imp.apply, todo |-> Archives,
            found |-> << >>, body |-> << >>, rejected |-> FALSE, planned |-> << >>,
            staged |-> << >>, linked |-> << >>, stuck |-> {}, outcome |-> "none"]
             EXCEPT !.pc = "idle", !.outcome = o, !.stuck = imp.stuck]
    BY Zenon DEF Ended, Fresh
  <2>2. QED
    BY <2>1
<1>3. imp.no \in Nat /\ imp.apply \in BOOLEAN /\ imp.stuck \in SUBSET Image
  BY DEF ImportInv, ImporterTypes, Imports
<1>4. /\ << >> \in Seq(Known) /\ << >> \in Seq(Image) /\ << >> \in Seq(Entries)
      /\ << >> \in Seq(Sources \X Body)
  OBVIOUS
<1>5. o \in {"refused", "rejected", "reported", "imported", "failed", "killed"} => Ended(o) \in Imports
  BY <1>1, <1>2, <1>3, <1>4 DEF Imports, Stages
<1>6. QED
  BY <1>2, <1>5

\* A command that ends leaves no loop open and no list behind.
LEMMA EndStep ==
    ASSUME ImportInv, imp.pc # "idle",
           NEW o \in {"refused", "rejected", "reported", "imported", "failed", "killed"},
           imp' = Ended(o), UNCHANGED <<roms, zips, raced>>, SpentOK',
           o \in {"imported", "killed"} \/ (imp.linked = << >> /\ imp.pc # "stat")
    PROVE  ImportInv'
<1>1. /\ imp'.pc = "idle" /\ imp'.no = imp.no /\ imp'.outcome = o
      /\ imp'.found = << >> /\ imp'.body = << >> /\ imp'.linked = << >> /\ imp'.stuck = imp.stuck
      /\ imp'.planned = << >> /\ imp'.staged = << >>
      /\ imp' \in Imports
  BY EndedFacts
<1>2. Files'
  BY <1>1, FilesKept
<1>3. ImporterTypes'
  BY <1>1 DEF ImportInv, ImporterTypes
<1>4. Remembered'
  BY <1>1 DEF Remembered
<1>5. QED
  BY <1>1, <1>2, <1>3, <1>4
     DEF ImportInv, Scanning, Planning, Staging, Linking, NothingPlanned,
         NothingStaged, NothingLinked

LEMMA SpentStep ==
    ASSUME SpentOK, \/ UNCHANGED spent \/ Starting
                    \/ Accident("kill") \/ Accident("change") \/ Accident("fail")
    PROVE  SpentOK'
  BY DEF SpentOK, Starting, Accident

LEMMA StartStep ==
    ASSUME ImportInv, NEW apply \in BOOLEAN, ImportStart(apply)
    PROVE  ImportInv'
<1>1. /\ imp.pc = "idle" /\ roms' = roms /\ zips' = zips /\ raced' = raced
      /\ imp' = Fresh(imp.no + 1, apply) /\ SpentOK'
  BY SpentStep DEF ImportInv, ImportStart
<1>2. imp' = [pc |-> "key", no |-> imp.no + 1, apply |-> apply, todo |-> Archives,
              found |-> << >>, body |-> << >>, rejected |-> FALSE, planned |-> << >>,
              staged |-> << >>, linked |-> << >>, stuck |-> {}, outcome |-> "none"]
  BY <1>1, Zenon DEF Fresh
<1>3. imp.no \in Nat /\ Archives \in Seq(Known \cup Sources)
  BY ArchiveFiles DEF ImportInv, ImporterTypes, Imports, Sources
<1>4. /\ << >> \in Seq(Known) /\ << >> \in Seq(Image) /\ << >> \in Seq(Entries)
      /\ << >> \in Seq(Sources \X Body)
  OBVIOUS
<1>5. imp' \in Imports /\ imp'.pc = "key" /\ imp'.no = imp.no + 1
  BY <1>2, <1>3, <1>4 DEF Imports, Stages
<1>6. ImporterTypes'
  BY <1>1, <1>3, <1>5 DEF ImportInv, ImporterTypes
<1>7. Files'
  <2>1. imp'.linked = << >> /\ ToSet(<< >>) = {}
    BY <1>2 DEF ToSet
  <2>2. QED
    BY <1>1, <1>3, <1>5, <2>1 DEF ImportInv, Files, ImportedFile, Races, Users
<1>8. /\ Remembered' /\ Archives \in Seq(Sources) /\ imp'.todo = Archives
      /\ imp'.linked = << >> /\ imp'.planned = << >> /\ imp'.staged = << >>
  BY <1>2, ArchiveFiles DEF Remembered, Sources
<1>9. QED
  BY <1>1, <1>5, <1>6, <1>7, <1>8
     DEF ImportInv, Scanning, Planning, Staging, Linking, NothingPlanned,
         NothingStaged, NothingLinked

LEMMA KeyStep ==
    ASSUME ImportInv, ImportKey PROVE ImportInv'
<1>1. /\ imp.pc \in {"key", "write_key"} /\ UNCHANGED <<roms, zips, raced>> /\ SpentOK'
      /\ imp.linked = << >>
  BY SpentStep, Zenon
     DEF ImportInv, ImportKey, load_or_create_key, CreateKey, WriteKey, NothingLinked
<1>2. CASE imp' = Ended("refused")
  BY <1>1, <1>2, EndStep
<1>3. CASE \E next \in {"write_key", "scan"} :
             imp' = [imp EXCEPT !.pc = next]
  <2>1. PICK next \in {"write_key", "scan"} :
          imp' = [imp EXCEPT !.pc = next]
    BY <1>3
  <2>2. /\ imp' \in Imports /\ imp'.pc = next /\ imp'.no = imp.no
        /\ imp'.found = imp.found /\ imp'.body = imp.body
        /\ imp'.todo = imp.todo /\ imp'.linked = imp.linked /\ imp'.stuck = imp.stuck
        /\ imp'.planned = imp.planned /\ imp'.staged = imp.staged
    BY <2>1 DEF ImportInv, ImporterTypes, Imports, Stages
  <2>3. Files'
    BY <1>1, <2>2, FilesKept
  <2>4. ImporterTypes' /\ Remembered' /\ Scanning'
    BY <1>1, <2>1, <2>2 DEF ImportInv, ImporterTypes, Remembered, Scanning
  <2>5. QED
    BY <1>1, <2>2, <2>3, <2>4
       DEF ImportInv, Planning, Staging, Linking, NothingPlanned, NothingStaged,
         NothingLinked
<1>4. QED
  BY <1>1, <1>2, <1>3 DEF ImportKey

LEMMA ScanStep ==
    ASSUME ImportInv, _scan PROVE ImportInv'
<1> DEFINE a == Head(imp.todo)
           body == zips[a]
<1>1. /\ imp.pc = "scan" /\ imp.todo # << >> /\ UNCHANGED <<roms, zips, raced>> /\ SpentOK'
      /\ imp \in Imports /\ imp.todo \in Seq(Sources) /\ imp.linked = << >>
  BY SpentStep DEF ImportInv, _scan, Doing, Step, ImporterTypes, Scanning, NothingLinked
<1>2. /\ a \in Sources /\ Tail(imp.todo) \in Seq(Sources)
      /\ Tail(imp.todo) \in Seq(Known \cup Sources)
  BY <1>1, TailFacts
<1>3. /\ imp'.pc = "scan" /\ imp'.no = imp.no /\ imp'.todo = Tail(imp.todo)
      /\ imp'.linked = imp.linked /\ imp'.stuck = imp.stuck /\ imp' \in Imports /\ Remembered'
      /\ imp'.planned = imp.planned /\ imp'.staged = imp.staged
  <2>1. CASE ~_inspect_rom(body)
    <3>1. imp' = [[imp EXCEPT !.todo = Tail(imp.todo)] EXCEPT !.rejected = TRUE]
      BY <2>1 DEF _scan, Step, Rest
    <3>2. QED
      BY <1>1, <1>2, <3>1 DEF Imports, ImportInv, Remembered
  <2>2. CASE _inspect_rom(body) /\ body.image \in ToSet(imp.found)
    <3>1. imp' = [imp EXCEPT !.todo = Tail(imp.todo)]
      BY <2>2 DEF _scan, Step, Rest
    <3>2. QED
      BY <1>1, <1>2, <3>1 DEF Imports, ImportInv, Remembered
  <2>3. CASE _inspect_rom(body) /\ body.image \notin ToSet(imp.found)
    <3>1. imp' = [[imp EXCEPT !.todo = Tail(imp.todo)]
                    EXCEPT !.found = Append(imp.found, body.image),
                           !.body = Append(imp.body, <<a, body>>)]
      BY <1>1, <2>3 DEF _scan, Step, Rest, Imports
    <3>2. body \in Body /\ body.image \in Image
      <4>1. body \in Body /\ body.image \in Known /\ inspect_rom_bytes(body.image)
        BY <1>2, <2>3 DEF ImportInv, ImporterTypes, _inspect_rom, _validated_regular_member, Body, Known
      <4>2. QED
        BY <4>1, MisfitsRejected DEF Known
    <3>3. imp.found \in Seq(Image) /\ imp.body \in Seq(Sources \X Body)
      BY <1>1 DEF Imports
    <3> HIDE DEF a, body
    <3>4. /\ Append(imp.found, body.image) \in Seq(Image)
          /\ Len(Append(imp.found, body.image)) = Len(imp.found) + 1
          /\ \A k \in 1 .. Len(imp.found) : Append(imp.found, body.image)[k] = imp.found[k]
          /\ Append(imp.found, body.image)[Len(imp.found) + 1] = body.image
          /\ Len(imp.found) \in Nat
      BY <3>2, <3>3, AppendFacts
    <3>5. /\ Append(imp.body, <<a, body>>) \in Seq(Sources \X Body)
          /\ Len(Append(imp.body, <<a, body>>)) = Len(imp.body) + 1
          /\ \A k \in 1 .. Len(imp.body) : Append(imp.body, <<a, body>>)[k] = imp.body[k]
          /\ Append(imp.body, <<a, body>>)[Len(imp.body) + 1] = <<a, body>>
      BY <1>2, <3>2, <3>3, AppendFacts
    <3>6. /\ imp'.pc = "scan" /\ imp'.no = imp.no /\ imp'.todo = Tail(imp.todo)
          /\ imp'.linked = imp.linked /\ imp'.stuck = imp.stuck /\ imp' \in Imports
          /\ imp'.found = Append(imp.found, body.image)
          /\ imp'.body = Append(imp.body, <<a, body>>)
          /\ imp'.planned = imp.planned /\ imp'.staged = imp.staged
      BY <1>1, <1>2, <3>1, <3>4, <3>5 DEF Imports
    <3>7. Remembered'
      <4>1. /\ Len(imp.body) = Len(imp.found)
            /\ \A k \in 1 .. Len(imp.found) : imp.body[k][2].image = imp.found[k]
        BY DEF ImportInv, Remembered
      <4>2. Len(imp'.body) = Len(imp'.found)
        BY <3>4, <3>5, <3>6, <4>1
      <4>3. ASSUME NEW k \in 1 .. Len(imp'.found) PROVE imp'.body[k][2].image = imp'.found[k]
        <5>1. k \in 1 .. Len(imp.found) \/ k = Len(imp.found) + 1
          BY <3>4, <3>6
        <5>2. CASE k \in 1 .. Len(imp.found)
          BY <3>4, <3>5, <3>6, <4>1, <5>2
        <5>3. CASE k = Len(imp.found) + 1
          BY <3>4, <3>5, <3>6, <4>1, <5>3
        <5>4. QED
          BY <5>1, <5>2, <5>3
      <4>4. QED
        BY <4>2, <4>3 DEF Remembered
    <3>8. QED
      BY <3>6, <3>7
  <2>4. QED
    BY <2>1, <2>2, <2>3
<1>4. Files'
  BY <1>1, <1>3, FilesKept
<1>5. ImporterTypes' /\ Scanning'
  BY <1>1, <1>2, <1>3 DEF ImportInv, ImporterTypes, Scanning
<1>6. QED
  BY <1>1, <1>3, <1>4, <1>5 DEF ImportInv, Planning, Staging, Linking, NothingPlanned, NothingStaged,
         NothingLinked

\* The candidates are images the scan found.
LEMMA CandidatesFound ==
    ASSUME NEW S, NEW c \in InOrder(S)
    PROVE  c \in Seq(S)
<1>1. c \in SeqOf(S, Len(Images))
  BY Zenon DEF InOrder
<1>2. Len(Images) \in Nat
  BY LabFiles
<1>3. QED
  BY <1>1, <1>2 DEF SeqOf

LEMMA ScannedStep ==
    ASSUME ImportInv, Scanned PROVE ImportInv'
<1>1. /\ imp.pc = "scan" /\ UNCHANGED <<roms, zips, raced>> /\ SpentOK'
      /\ imp \in Imports /\ imp.linked = << >>
  BY SpentStep DEF ImportInv, Scanned, Through, Step, ImporterTypes, NothingLinked
<1>2. CASE imp' = Ended("rejected")
  BY <1>1, <1>2, EndStep
<1>3. CASE \E c \in InOrder(ToSet(imp.found)) : imp' = To("plan", c)
  <2>1. PICK c \in InOrder(ToSet(imp.found)) : imp' = To("plan", c)
    BY <1>3
  <2>2. c \in Seq(ToSet(imp.found))
    BY CandidatesFound
  <2>3. ToSet(imp.found) \subseteq Known
    BY <1>1 DEF Imports, ToSet, Known
  <2>4. /\ \A k \in 1 .. Len(c) : c[k] \in ToSet(imp.found)
        /\ c \in Seq(Known \cup Sources)
    BY <2>2, <2>3
  <2>5. /\ imp' \in Imports /\ imp'.pc = "plan" /\ imp'.todo = c
        /\ imp'.no = imp.no /\ imp'.found = imp.found /\ imp'.body = imp.body
        /\ imp'.planned = imp.planned /\ imp'.staged = imp.staged
        /\ imp'.linked = imp.linked /\ imp'.stuck = imp.stuck
    BY <1>1, <2>1, <2>4 DEF To, Imports, Stages
  <2>6. Files'
    BY <1>1, <2>5, FilesKept
  <2>7. Planning'
    BY <1>1, <2>4, <2>5 DEF ImportInv, Planning, NothingPlanned
  <2>8. ImporterTypes' /\ Remembered'
    BY <1>1, <2>5 DEF ImportInv, ImporterTypes, Remembered
  <2>9. QED
    BY <1>1, <2>5, <2>6, <2>7, <2>8
       DEF ImportInv, Scanning, Staging, Linking, NothingPlanned,
           NothingStaged, NothingLinked
<1>4. QED
  BY <1>2, <1>3 DEF Scanned, Step

LEMMA PlanStep ==
    ASSUME ImportInv, Plan PROVE ImportInv'
<1> DEFINE d == Head(imp.todo)
<1>1. /\ imp.pc = "plan" /\ imp.todo # << >> /\ UNCHANGED <<roms, zips, raced>> /\ SpentOK'
      /\ imp \in Imports /\ imp.linked = << >> /\ imp.staged = << >>
  BY SpentStep DEF ImportInv, Plan, Doing, Step, ImporterTypes, NothingLinked, NothingStaged
<1>2. /\ imp.todo \in Seq(Known \cup Sources) /\ imp.planned \in Seq(Image)
      /\ imp.found \in Seq(Image)
  BY <1>1 DEF Imports
<1>3. \A k \in 1 .. Len(imp.todo) : imp.todo[k] \in ToSet(imp.found)
  BY <1>1 DEF ImportInv, Planning
<1>4. /\ Len(imp.todo) \in Nat /\ Len(imp.todo) >= 1 /\ d = imp.todo[1]
      /\ Tail(imp.todo) \in Seq(Known \cup Sources)
      /\ Len(Tail(imp.todo)) = Len(imp.todo) - 1
      /\ \A k \in 1 .. Len(Tail(imp.todo)) : Tail(imp.todo)[k] = imp.todo[k + 1]
  BY <1>1, <1>2, TailFacts
<1>5. d \in ToSet(imp.found) /\ d \in Image
  BY <1>2, <1>3, <1>4 DEF ToSet
<1>6. \A k \in 1 .. Len(Tail(imp.todo)) : Tail(imp.todo)[k] \in ToSet(imp.found)
  BY <1>3, <1>4
<1>7. PICK r \in BOOLEAN, l \in {imp.planned, Append(imp.planned, d)} :
         imp' = [[imp EXCEPT !.todo = Tail(imp.todo)] EXCEPT !.rejected = r, !.planned = l]
  <2>1. DEFINE r == imp.rejected \/ _destination_state(d) = "conflict"
               l == IF _destination_state(d) = "new" THEN Append(imp.planned, d) ELSE imp.planned
  <2>2. imp' = [[imp EXCEPT !.todo = Tail(imp.todo)] EXCEPT !.rejected = r, !.planned = l]
    BY <1>1 DEF Plan, Step, Rest, Imports
  <2>3. r \in BOOLEAN /\ l \in {imp.planned, Append(imp.planned, d)}
    BY <1>1 DEF Imports
  <2>4. QED
    BY <2>2, <2>3
<1> HIDE DEF d
<1>8. /\ l \in Seq(Image)
      /\ \A k \in 1 .. Len(l) : l[k] \in ToSet(imp.found)
  <2>1. \A k \in 1 .. Len(imp.planned) : imp.planned[k] \in ToSet(imp.found)
    BY <1>1 DEF ImportInv, Planning
  <2>2. CASE l = imp.planned
    BY <1>2, <2>1, <2>2
  <2>3. CASE l = Append(imp.planned, d)
    BY <1>2, <1>5, <2>1, <2>3, AppendFacts
  <2>4. QED
    BY <2>2, <2>3
<1>9. /\ imp' \in Imports /\ imp'.pc = "plan" /\ imp'.todo = Tail(imp.todo)
      /\ imp'.no = imp.no /\ imp'.found = imp.found /\ imp'.body = imp.body
      /\ imp'.planned = l /\ imp'.staged = imp.staged /\ imp'.linked = imp.linked /\ imp'.stuck = imp.stuck
  BY <1>1, <1>4, <1>7, <1>8 DEF Imports
<1>10. Files'
  BY <1>1, <1>9, FilesKept
<1>11. Planning'
  BY <1>6, <1>8, <1>9 DEF Planning
<1>12. ImporterTypes' /\ Remembered'
  BY <1>1, <1>9 DEF ImportInv, ImporterTypes, Remembered
<1>13. QED
  BY <1>1, <1>9, <1>10, <1>11, <1>12
     DEF ImportInv, Scanning, Staging, Linking, NothingPlanned, NothingStaged,
         NothingLinked

\* A loop over the plan starts with all of it to do.
LEMMA WholePlan ==
    ASSUME NEW S, NEW s \in Seq(S)
    PROVE  /\ Len(s) = 0 + Len(s)
           /\ \A k \in 1 .. Len(s) : s[k] = s[0 + k]
           /\ Len(<< >>) = 0
  OBVIOUS

\* One turn of a loop over the plan: done items, left items, all of them.
LEMMA OneTurn ==
    ASSUME NEW done \in Nat, NEW left \in Nat, NEW all \in Nat,
           left >= 1, all = done + left
    PROVE  /\ done + 1 \in 1 .. all
           /\ all = (done + 1) + (left - 1)
           /\ \A k \in 1 .. left - 1 : k + 1 \in 1 .. left /\ done + (k + 1) = (done + 1) + k
           /\ \A k \in 1 .. done + 1 : k \in 1 .. done \/ k = done + 1
  OBVIOUS

LEMMA PlannedStep ==
    ASSUME ImportInv, Planned PROVE ImportInv'
<1>1. /\ imp.pc = "plan" /\ UNCHANGED <<roms, zips, raced>> /\ SpentOK'
      /\ imp \in Imports /\ imp.linked = << >> /\ imp.staged = << >>
  BY SpentStep DEF ImportInv, Planned, Through, Step, ImporterTypes, NothingLinked, NothingStaged
<1>2. CASE imp' = Ended("rejected") \/ imp' = Ended("reported")
  BY <1>1, <1>2, EndStep
<1>3. CASE imp' = To("stage", imp.planned)
  <2>0. imp.planned \in Seq(Known \cup Sources)
    BY <1>1 DEF Imports, Known
  <2>1. /\ imp' \in Imports /\ imp'.pc = "stage" /\ imp'.todo = imp.planned
        /\ imp'.no = imp.no /\ imp'.found = imp.found /\ imp'.body = imp.body
        /\ imp'.planned = imp.planned /\ imp'.staged = imp.staged
        /\ imp'.linked = imp.linked /\ imp'.stuck = imp.stuck
    BY <1>1, <1>3, <2>0 DEF To, Imports, Stages
  <2>2. Files'
    BY <1>1, <2>1, FilesKept
  <2>3. Planning' /\ ImporterTypes' /\ Remembered'
    BY <1>1, <2>1 DEF ImportInv, Planning, ImporterTypes, Remembered
  <2>4. Staging'
    <3>1. imp.planned \in Seq(Image)
      BY <1>1 DEF Imports
    <3>2. QED
      BY <1>1, <2>1, <3>1, WholePlan DEF Staging, Rest_of_plan, StagedSoFar
  <2>5. QED
    BY <1>1, <2>1, <2>2, <2>3, <2>4
       DEF ImportInv, Scanning, Linking, NothingPlanned, NothingStaged, NothingLinked
<1>4. QED
  BY <1>2, <1>3 DEF Planned, Step

\* A step that gives up keeps the list of linked files for the rollback.
LEMMA GiveUpStep ==
    ASSUME ImportInv, imp.pc \in {"stage", "link", "chmod"},
           Step([imp EXCEPT !.pc = "undo"]), UNCHANGED roms
    PROVE  ImportInv'
<1>1. /\ UNCHANGED <<roms, zips, raced>> /\ SpentOK' /\ imp \in Imports
      /\ imp' = [imp EXCEPT !.pc = "undo"]
  BY SpentStep DEF ImportInv, ImporterTypes, Step
<1>2. /\ imp' \in Imports /\ imp'.pc = "undo" /\ imp'.linked = imp.linked /\ imp'.stuck = imp.stuck
      /\ imp'.no = imp.no /\ imp'.found = imp.found /\ imp'.body = imp.body
  BY <1>1 DEF Imports, Stages
<1>3. Files'
  BY <1>1, <1>2, FilesKept
<1>4. ImporterTypes' /\ Remembered'
  BY <1>1, <1>2 DEF ImportInv, ImporterTypes, Remembered
<1>5. QED
  BY <1>1, <1>2, <1>3, <1>4
     DEF ImportInv, Scanning, Planning, Staging, Linking, NothingPlanned,
         NothingStaged, NothingLinked

\* The archive a candidate came from, read again, still gives the candidate.
LEMMA RereadIsCandidate ==
    ASSUME ImportInv, NEW d \in ToSet(imp.found), _rescan(d)
    PROVE  Reread(d) = d
<1> DEFINE k == CHOOSE j \in 1 .. Len(imp.found) : imp.found[j] = d
<1>1. imp.found \in Seq(Image)
  BY DEF ImportInv, ImporterTypes, Imports
<1>2. \E j \in 1 .. Len(imp.found) : imp.found[j] = d
  BY <1>1 DEF ToSet
<1>3. k \in 1 .. Len(imp.found) /\ imp.found[k] = d
  BY <1>2, Zenon
<1>4. Origin(d) = imp.body[k]
  BY Zenon DEF Origin
<1> HIDE DEF k
<1>5. imp.body[k][2].image = imp.found[k]
  BY <1>3 DEF ImportInv, Remembered
<1>6. QED
  BY <1>3, <1>4, <1>5 DEF _rescan, Reread

LEMMA StageStep ==
    ASSUME ImportInv, Stage PROVE ImportInv'
<1> DEFINE d == Head(imp.todo)
<1>1. /\ imp.pc = "stage" /\ imp.todo # << >> /\ UNCHANGED <<roms, zips, raced>> /\ SpentOK'
      /\ imp \in Imports /\ imp.linked = << >>
  BY SpentStep DEF ImportInv, Stage, Doing, Step, ImporterTypes, NothingLinked
<1>2. CASE Step([imp EXCEPT !.pc = "undo"])
  BY <1>1, <1>2, GiveUpStep
<1>3. CASE _rescan(d) /\ imp' = [[imp EXCEPT !.todo = Tail(imp.todo)]
                                  EXCEPT !.staged = Append(imp.staged, Reread(d))]
  <2>1. /\ imp.todo \in Seq(Known \cup Sources) /\ imp.planned \in Seq(Image)
        /\ imp.staged \in Seq(Known) /\ imp.found \in Seq(Image)
    BY <1>1 DEF Imports
  <2>2. /\ Len(imp.planned) = Len(imp.staged) + Len(imp.todo)
        /\ \A k \in 1 .. Len(imp.todo) : imp.todo[k] = imp.planned[Len(imp.staged) + k]
        /\ \A k \in 1 .. Len(imp.staged) : imp.staged[k] = imp.planned[k]
        /\ \A k \in 1 .. Len(imp.planned) : imp.planned[k] \in ToSet(imp.found)
    BY <1>1 DEF ImportInv, Staging, Rest_of_plan, StagedSoFar, Planning
  <2>3. /\ Len(imp.todo) \in Nat /\ Len(imp.todo) >= 1 /\ d = imp.todo[1]
        /\ Tail(imp.todo) \in Seq(Known \cup Sources)
        /\ Len(Tail(imp.todo)) = Len(imp.todo) - 1
        /\ \A k \in 1 .. Len(Tail(imp.todo)) : Tail(imp.todo)[k] = imp.todo[k + 1]
    BY <1>1, <2>1, TailFacts
  <2>4. /\ Len(imp.staged) \in Nat /\ Len(imp.planned) \in Nat
        /\ Len(imp.todo) \in Nat /\ Len(imp.todo) >= 1
        /\ Len(imp.planned) = Len(imp.staged) + Len(imp.todo)
    <3>1. Len(imp.staged) \in Nat /\ Len(imp.planned) \in Nat
      BY <2>1
    <3>2. Len(imp.planned) = Len(imp.staged) + Len(imp.todo)
      BY <2>2
    <3>3. QED
      BY <2>3, <3>1, <3>2
  <2>13. /\ Len(imp.staged) + 1 \in 1 .. Len(imp.planned)
        /\ Len(imp.planned) = (Len(imp.staged) + 1) + (Len(imp.todo) - 1)
        /\ \A k \in 1 .. Len(imp.todo) - 1 :
             k + 1 \in 1 .. Len(imp.todo) /\ Len(imp.staged) + (k + 1) = (Len(imp.staged) + 1) + k
        /\ \A j \in 1 .. Len(imp.staged) + 1 : j \in 1 .. Len(imp.staged) \/ j = Len(imp.staged) + 1
    BY <2>4, OneTurn
  <2>5. d = imp.planned[Len(imp.staged) + 1] /\ d \in ToSet(imp.found)
    <3>1. 1 \in 1 .. Len(imp.todo)
      BY <2>3
    <3>3. d = imp.planned[Len(imp.staged) + 1]
      BY <2>2, <2>3, <3>1
    <3>4. QED
      BY <2>2, <2>13, <3>3
  <2>6. Reread(d) = d /\ d \in Known
    <3>1. Reread(d) = d
      BY <1>3, <2>5, RereadIsCandidate
    <3>2. d \in Known
      BY <2>1, <2>5 DEF ToSet, Known
    <3>3. QED
      BY <3>1, <3>2
  <2> HIDE DEF d
  <2>7. /\ Append(imp.staged, d) \in Seq(Known)
        /\ Len(Append(imp.staged, d)) = Len(imp.staged) + 1
        /\ \A k \in 1 .. Len(imp.staged) : Append(imp.staged, d)[k] = imp.staged[k]
        /\ Append(imp.staged, d)[Len(imp.staged) + 1] = d
    BY <2>1, <2>6, AppendFacts
  <2>8. /\ imp' \in Imports /\ imp'.pc = "stage" /\ imp'.todo = Tail(imp.todo)
        /\ imp'.no = imp.no /\ imp'.found = imp.found /\ imp'.body = imp.body
        /\ imp'.planned = imp.planned /\ imp'.staged = Append(imp.staged, d)
        /\ imp'.linked = imp.linked /\ imp'.stuck = imp.stuck
    BY <1>1, <1>3, <2>3, <2>6, <2>7 DEF Imports
  <2>9. Files'
    BY <1>1, <2>8, FilesKept
  <2>10. Staging'
    <3> DEFINE t == Tail(imp.todo)
               s == Append(imp.staged, d)
    <3>0. Len(t) \in Nat /\ Len(s) \in Nat
      BY <2>3, <2>4, <2>7
    <3>1. Len(s) = Len(imp.staged) + 1 /\ Len(t) = Len(imp.todo) - 1
      BY <2>3, <2>7
    <3> HIDE DEF t, s
    <3>2. ASSUME NEW k \in 1 .. Len(t) PROVE t[k] = imp.planned[Len(s) + k]
      <4>1. k + 1 \in 1 .. Len(imp.todo) /\ Len(imp.staged) + (k + 1) = Len(s) + k
        BY <2>13, <3>1
      <4>2. t[k] = imp.todo[k + 1] /\ imp.todo[k + 1] = imp.planned[Len(imp.staged) + (k + 1)]
        BY <2>2, <2>3, <4>1 DEF t
      <4>3. QED
        BY <4>1, <4>2
    <3>3. ASSUME NEW k \in 1 .. Len(s) PROVE s[k] = imp.planned[k]
      <4>1. k \in 1 .. Len(imp.staged) \/ k = Len(imp.staged) + 1
        BY <2>13, <3>1
      <4>2. QED
        BY <2>2, <2>5, <2>7, <4>1 DEF s
    <3>4. imp'.todo = t /\ imp'.staged = s /\ imp'.planned = imp.planned
      BY <2>8 DEF t, s
    <3>5. Len(imp.planned) = Len(s) + Len(t)
      BY <2>13, <3>1
    <3>6. QED
      BY <3>2, <3>3, <3>4, <3>5 DEF Staging, Rest_of_plan, StagedSoFar
  <2>11. ImporterTypes' /\ Remembered' /\ Planning'
    BY <1>1, <2>2, <2>8 DEF ImportInv, ImporterTypes, Remembered, Planning
  <2>12. QED
    BY <1>1, <2>8, <2>9, <2>10, <2>11
       DEF ImportInv, Scanning, Linking, NothingPlanned, NothingStaged, NothingLinked
<1>4. QED
  BY <1>1, <1>2, <1>3 DEF Stage, Step, Rest

LEMMA StagedStep ==
    ASSUME ImportInv, Staged PROVE ImportInv'
<1>1. /\ imp.pc = "stage" /\ imp.todo = << >> /\ UNCHANGED <<roms, zips, raced>> /\ SpentOK'
      /\ imp \in Imports /\ imp.linked = << >> /\ imp' = To("link", imp.planned)
  BY SpentStep DEF ImportInv, Staged, Through, Step, ImporterTypes, NothingLinked
<1>0. imp.planned \in Seq(Known \cup Sources)
  BY <1>1 DEF Imports, Known
<1>2. /\ imp' \in Imports /\ imp'.pc = "link" /\ imp'.todo = imp.planned
      /\ imp'.no = imp.no /\ imp'.found = imp.found /\ imp'.body = imp.body
      /\ imp'.planned = imp.planned /\ imp'.staged = imp.staged
      /\ imp'.linked = imp.linked /\ imp'.stuck = imp.stuck
  BY <1>0, <1>1 DEF To, Imports, Stages
<1>3. Files'
  BY <1>1, <1>2, FilesKept
<1>4. ImporterTypes' /\ Remembered'
  BY <1>1, <1>2 DEF ImportInv, ImporterTypes, Remembered
<1>5. Linking'
  <2>1. imp.planned \in Seq(Image) /\ imp.staged \in Seq(Known)
    BY <1>1 DEF Imports
  <2>2. /\ Len(imp.planned) = Len(imp.staged) + Len(<< >>)
        /\ \A k \in 1 .. Len(imp.staged) : imp.staged[k] = imp.planned[k]
    BY <1>1 DEF ImportInv, Staging, Rest_of_plan, StagedSoFar
  <2>3. Len(imp.staged) = Len(imp.planned)
    BY <2>1, <2>2
  <2>4. /\ Len(<< >>) = 0 /\ Len(imp.planned) = 0 + Len(imp.planned)
        /\ \A k \in 1 .. Len(imp.planned) : imp.planned[k] = imp.planned[0 + k]
    BY <2>1, WholePlan
  <2>5. /\ imp'.todo = imp.planned /\ imp'.planned = imp.planned
        /\ imp'.staged = imp.staged /\ imp'.linked = << >>
    BY <1>1, <1>2
  <2>6. QED
    BY <1>2, <2>2, <2>3, <2>4, <2>5 DEF Linking, Rest_of_plan, StagedSoFar
<1>6. QED
  BY <1>1, <1>2, <1>3, <1>4, <1>5
     DEF ImportInv, Scanning, Planning, Staging, NothingPlanned, NothingStaged, NothingLinked

\* The candidate whose turn it is: its reading is next, and the rest of the
\* plan follows.
LEMMA LinkTurn ==
    ASSUME ImportInv, imp.pc \in {"link", "stat"}, imp.todo # << >>
    PROVE  LET d == Head(imp.todo) IN
           /\ d \in Image /\ imp.staged[Len(imp.linked) + 1] = d
           /\ Tail(imp.todo) \in Seq(Known \cup Sources)
           /\ Len(imp.linked) \in Nat
           /\ Len(imp.planned) = (Len(imp.linked) + 1) + Len(Tail(imp.todo))
           /\ \A k \in 1 .. Len(Tail(imp.todo)) :
                Tail(imp.todo)[k] = imp.planned[(Len(imp.linked) + 1) + k]
<1> DEFINE d == Head(imp.todo)
<1>1. /\ imp.todo \in Seq(Known \cup Sources) /\ imp.planned \in Seq(Image)
      /\ imp.staged \in Seq(Known) /\ imp.linked \in Seq(Entries)
  BY DEF ImportInv, ImporterTypes, Imports
<1>2. /\ Len(imp.planned) = Len(imp.linked) + Len(imp.todo)
      /\ \A k \in 1 .. Len(imp.todo) : imp.todo[k] = imp.planned[Len(imp.linked) + k]
      /\ \A k \in 1 .. Len(imp.staged) : imp.staged[k] = imp.planned[k]
      /\ Len(imp.staged) = Len(imp.planned)
  BY DEF ImportInv, Linking, Rest_of_plan, StagedSoFar
<1>3. /\ Len(imp.todo) \in Nat /\ Len(imp.todo) >= 1 /\ d = imp.todo[1]
      /\ Tail(imp.todo) \in Seq(Known \cup Sources)
      /\ Len(Tail(imp.todo)) = Len(imp.todo) - 1
      /\ \A k \in 1 .. Len(Tail(imp.todo)) : Tail(imp.todo)[k] = imp.todo[k + 1]
  BY <1>1, TailFacts
<1>4. Len(imp.linked) \in Nat /\ Len(imp.planned) \in Nat
  BY <1>1
<1>5. /\ Len(imp.linked) + 1 \in 1 .. Len(imp.planned)
      /\ Len(imp.planned) = (Len(imp.linked) + 1) + (Len(imp.todo) - 1)
      /\ \A k \in 1 .. Len(imp.todo) - 1 :
           k + 1 \in 1 .. Len(imp.todo) /\ Len(imp.linked) + (k + 1) = (Len(imp.linked) + 1) + k
  BY <1>2, <1>3, <1>4, OneTurn
<1>6. d = imp.planned[Len(imp.linked) + 1]
  BY <1>2, <1>3
<1>7. imp.staged[Len(imp.linked) + 1] = imp.planned[Len(imp.linked) + 1]
  BY <1>2, <1>5
<1>8. imp.planned[Len(imp.linked) + 1] \in Image
  <2>1. \A k \in 1 .. Len(imp.planned) : imp.planned[k] \in Image
    BY <1>1
  <2>2. QED
    BY <1>5, <2>1
<1> DEFINE t == Tail(imp.todo)
<1>9. Len(t) = Len(imp.todo) - 1
  BY <1>3
<1>10. ASSUME NEW k \in 1 .. Len(t) PROVE t[k] = imp.planned[(Len(imp.linked) + 1) + k]
  <2>1. t[k] = imp.todo[k + 1]
    BY <1>3
  <2> HIDE DEF t
  <2>2. k + 1 \in 1 .. Len(imp.todo) /\ Len(imp.linked) + (k + 1) = (Len(imp.linked) + 1) + k
    BY <1>5, <1>9
  <2>3. imp.todo[k + 1] = imp.planned[Len(imp.linked) + (k + 1)]
    BY <1>2, <2>2
  <2>4. QED
    BY <2>1, <2>2, <2>3
<1> HIDE DEF d
<1>11. QED
  BY <1>3, <1>4, <1>5, <1>6, <1>7, <1>8, <1>9, <1>10 DEF d

\* The file linked next is the candidate that gives it its name.
LEMMA LinkFileStep ==
    ASSUME ImportInv, imp.pc = "link", imp.todo # << >>, LinkFile(Head(imp.todo))
    PROVE  ImportInv'
<1> DEFINE d == Head(imp.todo)
<1>1. /\ UNCHANGED <<zips, raced>> /\ SpentOK' /\ imp \in Imports /\ imp.no > 0 /\ imp.no \in Nat
      /\ roms[d] = Nothing
      /\ roms' = [roms EXCEPT ![d] = File(imp.staged[Len(imp.linked) + 1], imp.no)]
      /\ imp' = [imp EXCEPT !.pc = "stat"]
  BY SpentStep DEF ImportInv, ImporterTypes, Imports, LinkFile, Step
<1>2. d \in Image /\ imp.staged[Len(imp.linked) + 1] = d
  BY LinkTurn
<1> HIDE DEF d
<1>3. /\ imp' \in Imports /\ imp'.pc = "stat" /\ imp'.todo = imp.todo
      /\ imp'.no = imp.no /\ imp'.found = imp.found /\ imp'.body = imp.body
      /\ imp'.planned = imp.planned /\ imp'.staged = imp.staged
      /\ imp'.linked = imp.linked /\ imp'.stuck = imp.stuck
  BY <1>1 DEF Imports, Stages
<1>4. DOMAIN roms' = Image
  BY <1>1 DEF ImportInv, Files
<1>5. roms'[d] = [data |-> d, by |-> imp.no, edited |-> FALSE]
  BY <1>1, <1>2 DEF File, ImportInv, Files
<1>6. \A n \in Image : n # d => roms'[n] = roms[n]
  BY <1>1 DEF ImportInv, Files
<1>7. ASSUME NEW n \in Image, roms'[n] # Nothing
      PROVE  /\ DOMAIN roms'[n] = {"data", "by", "edited"}
             /\ roms'[n].data \in Known /\ roms'[n].by \in Int
             /\ ~Users(roms'[n]) => ImportedFile(n)'
  <2>1. CASE n = d
    <3>1. imp'.pc = "stat" /\ n = Head(imp'.todo)
      BY <1>3, <2>1 DEF d
    <3>2. QED
      BY <1>1, <1>2, <1>3, <1>5, <2>1, <3>1 DEF ImportedFile, Known
  <2>2. CASE n # d
    <3>1. roms'[n] = roms[n]
      BY <1>6, <2>2
    <3>2. QED
      BY <1>1, <1>3, <1>7, <3>1 DEF ImportInv, Files, ImportedFile, Listed
  <2>3. QED
    BY <2>1, <2>2
<1>8. Races'
  <2>1. Head(imp'.todo) = d
    BY <1>3 DEF d
  <2>2. ~Users(roms'[d])
    BY <1>1, <1>5 DEF Users
  <2>3. QED
    BY <1>1, <1>3, <2>1, <2>2 DEF ImportInv, Files, Races
<1>9. Files'
  BY <1>4, <1>7, <1>8 DEF Files
<1>10. ImporterTypes' /\ Remembered'
  BY <1>1, <1>3 DEF ImportInv, ImporterTypes, Remembered
<1>11. Linking'
  BY <1>3 DEF ImportInv, Linking, Rest_of_plan, StagedSoFar
<1>12. QED
  BY <1>1, <1>3, <1>9, <1>10, <1>11
     DEF ImportInv, Scanning, Planning, Staging, NothingPlanned, NothingStaged, NothingLinked

\* What is put on the list is the file under the name now: the one linked, or
\* one the user has saved since.
LEMMA RecordStep ==
    ASSUME ImportInv, imp.pc = "stat", imp.todo # << >>, UNCHANGED <<roms, zips, raced>>, SpentOK',
           roms[Head(imp.todo)] # Nothing,
           imp' = [[imp EXCEPT !.todo = Tail(imp.todo)]
                     EXCEPT !.pc = "link",
                            !.linked = Append(imp.linked,
                                              [name |-> Head(imp.todo), by |-> roms[Head(imp.todo)].by])]
    PROVE  ImportInv'
<1> DEFINE d == Head(imp.todo)
           e == [name |-> d, by |-> roms[d].by]
           s == Append(imp.linked, e)
<1>1. /\ d \in Image /\ Tail(imp.todo) \in Seq(Known \cup Sources)
      /\ Len(imp.linked) \in Nat
      /\ Len(imp.planned) = (Len(imp.linked) + 1) + Len(Tail(imp.todo))
      /\ \A k \in 1 .. Len(Tail(imp.todo)) :
           Tail(imp.todo)[k] = imp.planned[(Len(imp.linked) + 1) + k]
  BY LinkTurn
<1>2. e \in Entries /\ e.name = d /\ e.by = roms[d].by
  BY <1>1 DEF Entries, ImportInv, Files
<1>3. imp \in Imports /\ imp.linked \in Seq(Entries)
  BY DEF ImportInv, ImporterTypes, Imports
<1>4. imp' = [[imp EXCEPT !.todo = Tail(imp.todo)] EXCEPT !.pc = "link", !.linked = s]
  OBVIOUS
<1>5. Users(roms[d]) => e.by \in raced
  BY <1>2 DEF ImportInv, Files, Races
<1>6. e = [name |-> d, by |-> roms[d].by]
  OBVIOUS
<1> HIDE DEF e
<1>7. /\ s \in Seq(Entries) /\ Len(s) = Len(imp.linked) + 1
      /\ ToSet(s) = ToSet(imp.linked) \cup {e}
  BY <1>2, <1>3, AppendFacts
<1> HIDE DEF s
<1>8. /\ imp' \in Imports /\ imp'.pc = "link" /\ imp'.todo = Tail(imp.todo)
      /\ imp'.no = imp.no /\ imp'.found = imp.found /\ imp'.body = imp.body
      /\ imp'.planned = imp.planned /\ imp'.staged = imp.staged
      /\ imp'.linked = s /\ imp'.stuck = imp.stuck
  BY <1>1, <1>3, <1>4, <1>7 DEF Imports, Stages
<1>9. Files'
  <2>1. ASSUME NEW n \in Image, roms[n] # Nothing, ~Users(roms[n]), ImportedFile(n)
        PROVE  ImportedFile(n)'
    <3>1. CASE n = d /\ roms[n].by = imp.no
      <4>1. [name |-> n, by |-> imp.no] \in ToSet(s)
        BY <1>6, <1>7, <3>1
      <4>2. QED
        BY <1>8, <2>1, <4>1 DEF ImportedFile, Listed
    <3>2. CASE n # d \/ roms[n].by # imp.no
      <4>1. Listed(n) => Listed(n)'
        BY <1>7, <1>8 DEF Listed
      <4>2. QED
        BY <1>8, <2>1, <3>2, <4>1 DEF ImportedFile
    <3>3. QED
      BY <3>1, <3>2
  <2>2. Races'
    <3>1. \A f \in ToSet(s) : f.by <= 0 => f.by \in raced
      BY <1>2, <1>5, <1>7 DEF ImportInv, Files, Races, Users
    <3>2. QED
      BY <1>8, <3>1 DEF Races
  <2>3. QED
    BY <2>1, <2>2 DEF ImportInv, Files
<1>10. Linking'
  BY <1>1, <1>7, <1>8 DEF ImportInv, Linking, Rest_of_plan, StagedSoFar
<1>11. ImporterTypes' /\ Remembered'
  BY <1>8 DEF ImportInv, ImporterTypes, Remembered
<1>12. QED
  BY <1>8, <1>9, <1>10, <1>11
     DEF ImportInv, Scanning, Planning, Staging, NothingPlanned, NothingStaged, NothingLinked

\* A file that was linked and is not put on the list is gone, or stuck.
LEMMA UnseenStep ==
    ASSUME ImportInv, imp.pc = "stat", imp.todo # << >>, UNCHANGED <<roms, zips, raced>>, SpentOK',
           NEW S \in SUBSET Image, imp' = [imp EXCEPT !.pc = "undo", !.stuck = imp.stuck \cup S],
           roms[Head(imp.todo)] = Nothing \/ Head(imp.todo) \in S
    PROVE  ImportInv'
<1>1. /\ imp' \in Imports /\ imp'.pc = "undo" /\ imp'.linked = imp.linked
      /\ imp'.stuck = imp.stuck \cup S /\ imp'.no = imp.no
      /\ imp'.found = imp.found /\ imp'.body = imp.body
  BY DEF ImportInv, ImporterTypes, Imports, Stages
<1>2. Files'
  BY <1>1 DEF ImportInv, Files, ImportedFile, Listed, Races
<1>3. ImporterTypes' /\ Remembered'
  BY <1>1 DEF ImportInv, ImporterTypes, Remembered
<1>4. QED
  BY <1>1, <1>2, <1>3
     DEF ImportInv, Scanning, Planning, Staging, Linking, NothingPlanned,
         NothingStaged, NothingLinked

LEMMA StatStep ==
    ASSUME ImportInv, Stat PROVE ImportInv'
<1>1. /\ imp.pc = "stat" /\ imp.todo # << >> /\ UNCHANGED <<roms, zips, raced>> /\ SpentOK'
      /\ imp \in Imports
  BY SpentStep DEF ImportInv, Stat, Doing, Step, Failing, ImporterTypes
<1>2. Head(imp.todo) \in Image
  BY <1>1, LinkTurn
<1>3. CASE /\ roms[Head(imp.todo)] # Nothing
           /\ imp' = [[imp EXCEPT !.todo = Tail(imp.todo)]
                        EXCEPT !.pc = "link",
                               !.linked = Append(imp.linked,
                                            [name |-> Head(imp.todo), by |-> roms[Head(imp.todo)].by])]
  BY <1>1, <1>3, RecordStep
<1>4. CASE roms[Head(imp.todo)] = Nothing /\ imp' = [imp EXCEPT !.pc = "undo"]
  <2>1. imp' = [imp EXCEPT !.pc = "undo", !.stuck = imp.stuck \cup {}]
    BY <1>1, <1>4 DEF Imports
  <2>2. {} \in SUBSET Image
    OBVIOUS
  <2>3. QED
    BY <1>1, <1>4, <2>1, <2>2, UnseenStep
<1>5. CASE imp' = [imp EXCEPT !.pc = "undo", !.stuck = imp.stuck \cup {Head(imp.todo)}]
  <2>1. {Head(imp.todo)} \in SUBSET Image /\ Head(imp.todo) \in {Head(imp.todo)}
    BY <1>2
  <2>2. QED
    BY <1>1, <1>5, <2>1, UnseenStep
<1>6. imp' = [[imp EXCEPT !.todo = Tail(imp.todo)]
                EXCEPT !.pc = "link",
                       !.linked = Append(imp.linked,
                                    [name |-> Head(imp.todo), by |-> roms[Head(imp.todo)].by])]
      <=> imp' = [Rest EXCEPT !.pc = "link",
                    !.linked = Append(@, [name |-> Head(imp.todo), by |-> roms[Head(imp.todo)].by])]
  BY <1>1 DEF Rest, Imports
<1>7. QED
  BY <1>1, <1>3, <1>4, <1>5, <1>6 DEF Stat, Step, Failing

LEMMA LinkStep ==
    ASSUME ImportInv, Link PROVE ImportInv'
  BY LinkFileStep, GiveUpStep DEF Link, Doing

\* Steps after the last link.
LEMMA ForwardStep ==
    ASSUME ImportInv, imp.pc \in {"link", "chmod"}, UNCHANGED <<roms, zips, raced>>, SpentOK',
           imp' \in Imports, imp'.pc = "chmod", imp'.no = imp.no, imp'.linked = imp.linked /\ imp'.stuck = imp.stuck,
           imp'.found = imp.found, imp'.body = imp.body
    PROVE  ImportInv'
<1>1. Files'
  BY FilesKept
<1>2. ImporterTypes' /\ Remembered'
  BY DEF ImportInv, ImporterTypes, Remembered
<1>3. QED
  BY <1>1, <1>2
     DEF ImportInv, Scanning, Planning, Staging, Linking, NothingPlanned,
         NothingStaged, NothingLinked

LEMMA LinkedStep ==
    ASSUME ImportInv, Linked PROVE ImportInv'
<1> DEFINE names == [k \in 1 .. Len(imp.linked) |-> imp.linked[k].name]
<1>1. /\ imp.pc = "link" /\ UNCHANGED <<roms, zips, raced>> /\ SpentOK'
      /\ imp \in Imports /\ imp' = To("chmod", names)
  BY SpentStep DEF ImportInv, Linked, Through, Step, ImporterTypes
<1>2. names \in Seq(Known \cup Sources)
  <2>1. imp.linked \in Seq(Entries)
    BY <1>1 DEF Imports
  <2>2. ASSUME NEW k \in 1 .. Len(imp.linked) PROVE imp.linked[k].name \in Image
    <3>1. imp.linked[k] \in Entries
      BY <2>1
    <3>2. QED
      BY <3>1 DEF Entries
  <2>3. Len(imp.linked) \in Nat
    BY <2>1
  <2>4. QED
    BY <2>2, <2>3 DEF Known
<1> HIDE DEF names
<1>3. /\ imp' \in Imports /\ imp'.pc = "chmod" /\ imp'.no = imp.no
      /\ imp'.linked = imp.linked /\ imp'.stuck = imp.stuck /\ imp'.found = imp.found /\ imp'.body = imp.body
  BY <1>1, <1>2 DEF To, Imports, Stages
<1>4. QED
  BY <1>1, <1>3, ForwardStep

LEMMA ChmodStep ==
    ASSUME ImportInv, Chmod PROVE ImportInv'
<1>1. /\ imp.pc = "chmod" /\ UNCHANGED <<roms, zips, raced>> /\ SpentOK' /\ imp \in Imports
  BY SpentStep DEF ImportInv, Chmod, Step, ImporterTypes
<1>2. CASE imp' = Ended("imported")
  BY <1>1, <1>2, EndStep
<1>3. CASE imp' = [imp EXCEPT !.pc = "undo"]
  BY <1>1, <1>3, GiveUpStep DEF Chmod, Step
<1>4. CASE imp.todo # << >> /\ imp' = [imp EXCEPT !.todo = Tail(imp.todo)]
  <2>1. Tail(imp.todo) \in Seq(Known \cup Sources)
    BY <1>1, <1>4, TailFacts DEF Imports
  <2>2. /\ imp' \in Imports /\ imp'.pc = "chmod" /\ imp'.no = imp.no
        /\ imp'.linked = imp.linked /\ imp'.stuck = imp.stuck /\ imp'.found = imp.found /\ imp'.body = imp.body
    BY <1>1, <1>4, <2>1 DEF Imports
  <2>3. QED
    BY <1>1, <2>2, ForwardStep
<1>5. QED
  BY <1>2, <1>3, <1>4 DEF Chmod, Step, Rest

\* A file leaves the list when it is off the disk, is another file by now, or
\* is stuck.
LEMMA DropStep ==
    ASSUME ImportInv, imp.pc \in {"undo", "unlink"}, imp.linked # << >>,
           UNCHANGED <<zips, raced>>, SpentOK', NEW S \in SUBSET Image, imp' = Undone(S),
           roms' = roms \/ roms' = [roms EXCEPT ![Last(imp.linked).name] = Nothing],
           \/ roms'[Last(imp.linked).name] = Nothing
           \/ Last(imp.linked).name \in S
           \/ roms[Last(imp.linked).name].by # Last(imp.linked).by
    PROVE  ImportInv'
<1> DEFINE e == Last(imp.linked)
<1>1. imp \in Imports /\ imp.linked \in Seq(Entries)
  BY DEF ImportInv, ImporterTypes, Imports
<1>2. /\ Front(imp.linked) \in Seq(Entries) /\ e \in Entries
      /\ \A x \in ToSet(imp.linked) : x = e \/ x \in ToSet(Front(imp.linked))
      /\ ToSet(Front(imp.linked)) \subseteq ToSet(imp.linked)
  BY <1>1, FrontFacts
<1>3. imp' = [imp EXCEPT !.pc = "undo", !.linked = Front(imp.linked), !.stuck = imp.stuck \cup S]
  BY <1>1 DEF Undone, Imports
<1>4. /\ imp' \in Imports /\ imp'.pc = "undo" /\ imp'.no = imp.no
      /\ imp'.linked = Front(imp.linked) /\ imp'.stuck = imp.stuck \cup S
      /\ imp'.found = imp.found /\ imp'.body = imp.body
  <2>1. PICK l \in Seq(Entries) : l = Front(imp.linked)
    BY <1>2
  <2>2. PICK T \in SUBSET Image : T = imp.stuck \cup S
    BY <1>1 DEF Imports
  <2>3. imp' = [imp EXCEPT !.pc = "undo", !.linked = l, !.stuck = T]
    BY <1>3, <2>1, <2>2
  <2>4. /\ imp' \in Imports /\ imp'.pc = "undo" /\ imp'.no = imp.no
        /\ imp'.linked = l /\ imp'.stuck = T
        /\ imp'.found = imp.found /\ imp'.body = imp.body
    BY <1>1, <2>3 DEF Imports, Stages
  <2>5. QED
    BY <2>1, <2>2, <2>4
<1> HIDE DEF e
<1>5. /\ DOMAIN roms' = Image
      /\ \A n \in Image : roms'[n] = roms[n] \/ roms'[n] = Nothing
      /\ roms'[e.name] = Nothing \/ e.name \in S \/ roms[e.name].by # e.by
  BY DEF e, ImportInv, Files
<1>6. ASSUME NEW n \in Image, roms'[n] # Nothing, ~Users(roms'[n])
      PROVE  ImportedFile(n)'
  <2>1. roms'[n] = roms[n] /\ ImportedFile(n)
    BY <1>5, <1>6 DEF ImportInv, Files
  <2>2. CASE Listed(n) /\ [name |-> n, by |-> imp.no] = e
    <3>1. n = e.name /\ e.by = imp.no
      BY <2>2
    <3>2. n \in S \/ roms[n].by # imp.no
      BY <1>5, <1>6, <3>1
    <3>3. QED
      BY <1>4, <2>1, <3>2 DEF ImportedFile
  <2>3. CASE Listed(n) /\ [name |-> n, by |-> imp.no] # e
    <3>1. Listed(n)'
      BY <1>2, <1>4, <2>3 DEF Listed
    <3>2. QED
      BY <1>4, <2>1, <3>1 DEF ImportedFile
  <2>4. CASE ~Listed(n)
    BY <1>4, <2>1, <2>4 DEF ImportedFile
  <2>5. QED
    BY <2>2, <2>3, <2>4
<1>7. Races'
  BY <1>2, <1>4 DEF ImportInv, Files, Races
<1>8. Files'
  <2>1. ASSUME NEW n \in Image, roms'[n] # Nothing
        PROVE  /\ DOMAIN roms'[n] = {"data", "by", "edited"}
               /\ roms'[n].data \in Known /\ roms'[n].by \in Int
    BY <1>5, <2>1 DEF ImportInv, Files
  <2>2. QED
    BY <1>5, <1>6, <1>7, <2>1 DEF Files
<1>9. ImporterTypes' /\ Remembered'
  BY <1>4 DEF ImportInv, ImporterTypes, Remembered
<1>10. QED
  BY <1>4, <1>8, <1>9
     DEF ImportInv, Scanning, Planning, Staging, Linking, NothingPlanned,
         NothingStaged, NothingLinked

\* The name of a file on the list is the name of an image.
LEMMA LastFacts ==
    ASSUME ImportInv, imp.linked # << >>
    PROVE  /\ Last(imp.linked).name \in Image /\ Last(imp.linked) \in ToSet(imp.linked)
           /\ {Last(imp.linked).name} \in SUBSET Image /\ {} \in SUBSET Image
<1>1. imp.linked \in Seq(Entries)
  BY DEF ImportInv, ImporterTypes, Imports
<1>2. Len(imp.linked) \in 1 .. Len(imp.linked) /\ DOMAIN imp.linked = 1 .. Len(imp.linked)
  BY <1>1, TailFacts
<1>3. Last(imp.linked) \in Entries /\ Last(imp.linked) \in ToSet(imp.linked)
  BY <1>1, <1>2 DEF Last, ToSet
<1>4. QED
  BY <1>3 DEF Entries

LEMMA UndoStep ==
    ASSUME ImportInv, Undo PROVE ImportInv'
<1> DEFINE e == Last(imp.linked)
<1>1. /\ imp.pc = "undo" /\ imp.linked # << >> /\ UNCHANGED <<roms, zips, raced>> /\ SpentOK'
      /\ imp \in Imports
  BY SpentStep DEF ImportInv, Undo, Step, Failing, ImporterTypes
<1>2. /\ e.name \in Image /\ e \in ToSet(imp.linked)
      /\ {e.name} \in SUBSET Image /\ {} \in SUBSET Image
  BY <1>1, LastFacts
<1>3. CASE StillCommitted(e) /\ imp' = [imp EXCEPT !.pc = "unlink"]
  <2>1. /\ imp' \in Imports /\ imp'.pc = "unlink" /\ imp'.no = imp.no
        /\ imp'.linked = imp.linked /\ imp'.stuck = imp.stuck
        /\ imp'.found = imp.found /\ imp'.body = imp.body
    BY <1>1, <1>3 DEF Imports, Stages
  <2>2. Users(roms[e.name]) => roms[e.name].by \in raced
    BY <1>2, <1>3 DEF StillCommitted, Users, ImportInv, Files, Races
  <2>3. Files'
    BY <1>1, <2>1, <2>2 DEF ImportInv, Files, ImportedFile, Listed, Races
  <2>4. ImporterTypes' /\ Remembered'
    BY <1>1, <2>1 DEF ImportInv, ImporterTypes, Remembered
  <2>5. QED
    BY <1>1, <2>1, <2>3, <2>4
       DEF ImportInv, Scanning, Planning, Staging, Linking, NothingPlanned,
           NothingStaged, NothingLinked
<1>4. CASE ~StillCommitted(e) /\ imp' = Undone({})
  <2>1. roms'[e.name] = Nothing \/ roms[e.name].by # e.by
    BY <1>1, <1>4 DEF StillCommitted
  <2>2. QED
    BY <1>1, <1>2, <1>4, <2>1, DropStep
<1>5. CASE imp' = Undone({e.name})
  <2>1. e.name \in {e.name}
    OBVIOUS
  <2>2. QED
    BY <1>1, <1>2, <1>5, <2>1, DropStep
<1>6. QED
  BY <1>3, <1>4, <1>5 DEF Undo, Step, Failing

LEMMA UnlinkStep ==
    ASSUME ImportInv, Unlink PROVE ImportInv'
<1> DEFINE n == Last(imp.linked).name
<1>1. /\ imp.pc = "unlink" /\ imp.linked # << >> /\ UNCHANGED <<zips, raced>> /\ SpentOK'
  BY SpentStep DEF ImportInv, Unlink, Step, Failing, Linking
<1>2. n \in Image /\ {n} \in SUBSET Image /\ {} \in SUBSET Image
  BY <1>1, LastFacts
<1>3. CASE roms' = [roms EXCEPT ![n] = Nothing] /\ imp' = Undone({})
  <2>1. roms'[n] = Nothing
    BY <1>2, <1>3 DEF ImportInv, Files
  <2>2. QED
    BY <1>1, <1>2, <1>3, <2>1, DropStep
<1>4. CASE roms' = roms /\ imp' = Undone({n})
  <2>1. n \in {n}
    OBVIOUS
  <2>2. QED
    BY <1>1, <1>2, <1>4, <2>1, DropStep
<1>5. QED
  BY <1>3, <1>4 DEF Unlink, Step, Failing

LEMMA FailedStep ==
    ASSUME ImportInv, Failed PROVE ImportInv'
<1>1. /\ imp.pc = "undo" /\ imp.linked = << >> /\ UNCHANGED <<roms, zips, raced>> /\ SpentOK'
      /\ imp' = Ended("failed")
  BY SpentStep DEF ImportInv, Failed, Step
<1>2. QED
  BY <1>1, EndStep

LEMMA KillStep ==
    ASSUME ImportInv, ImportKill PROVE ImportInv'
<1>1. /\ imp.pc # "idle" /\ UNCHANGED <<roms, zips, raced>> /\ SpentOK' /\ imp' = Ended("killed")
  BY SpentStep DEF ImportInv, ImportKill
<1>2. QED
  BY <1>1, EndStep

\* The runners and the user leave the importer alone; what the user saves is
\* the user's.
LEMMA BesideImporter ==
    ASSUME ImportInv, UNCHANGED <<roms, importVars>>, SpentOK'
    PROVE  ImportInv'
  BY DEF ImportInv, importVars, ImporterTypes, Remembered, Scanning, Planning,
         Staging, Rest_of_plan, StagedSoFar, Linking, NothingPlanned, NothingStaged,
         NothingLinked, Files, ImportedFile, Listed, Races

LEMMA RunnerBeside ==
    ASSUME ImportInv, NEW p \in 1 .. Runners, Runner(p)
    PROVE  UNCHANGED <<roms, importVars>> /\ SpentOK'
<1>1. SpentOK /\ UNCHANGED importVars
  BY DEF ImportInv, Runner
<1>2. /\ UNCHANGED roms
      /\ UNCHANGED spent \/ Starting \/ Accident("kill")
  <2>1. CASE RunStep(p) \/ RunKill(p) \/ \E repeat \in BOOLEAN : RunStart(p, repeat)
    BY <2>1 DEF RunStep, RunKey, _walk_rom_tree, InventoryOnly, Submit, Summarize,
                RunKill, RunStart
  <2>2. ASSUME NEW d \in Image, _execute_case(p, d)
        PROVE  UNCHANGED roms /\ UNCHANGED spent
    BY <2>2 DEF _execute_case, Resume, Inspect, Launch, _run_process, _atomic_write_json
  <2>3. ASSUME NEW d, NEW chain, _frame_chain(p, d, chain)
        PROVE  UNCHANGED roms /\ UNCHANGED spent
    BY <2>3 DEF _frame_chain
  <2>4. QED
    BY <2>1, <2>2, <2>3 DEF Runner
<1>3. QED
  BY <1>1, <1>2, SpentStep

LEMMA UserStep ==
    ASSUME ImportInv, User PROVE ImportInv'
<1>1. SpentOK' /\ SpentOK
  BY SpentStep DEF ImportInv, User
<1>2. CASE ChangeArchive
  <2>1. PICK a \in Sources, body \in Bodies \cup {Nothing} : SwapArchive(a, body)
    BY <1>2 DEF ChangeArchive, Sources
  <2>2. /\ zips' \in [Sources -> Body \cup {Nothing}] /\ roms' = roms /\ imp' = imp /\ raced' = raced
    BY <2>1, ArchiveFiles DEF SwapArchive, ImportInv, ImporterTypes
  <2>3. QED
    BY <1>1, <2>2
       DEF ImportInv, ImporterTypes, Remembered, Scanning, Planning, Staging,
           Rest_of_plan, StagedSoFar, Linking, NothingPlanned, NothingStaged,
           NothingLinked, Files, ImportedFile, Listed, Races
<1>3. CASE ChangeRom
  <2>1. PICK n \in Image : ChangeFile(n)
    BY <1>3 DEF ChangeRom
  <2>2. zips' = zips /\ imp' = imp
    BY <2>1 DEF ChangeFile
  <2>3. spent.change \in Nat
    BY <1>1 DEF SpentOK
  <2>4. Files'
    <3>1. CASE \E d \in Known : PutRom(n, d) /\ raced' = IF Window(n) THEN raced \cup {Saved} ELSE raced
      <4>1. PICK d \in Known : /\ PutRom(n, d)
                               /\ raced' = IF Window(n) THEN raced \cup {Saved} ELSE raced
        BY <3>1
      <4>2. /\ DOMAIN roms' = Image
            /\ roms'[n] = [data |-> d, by |-> Saved, edited |-> FALSE]
            /\ \A m \in Image : m # n => roms'[m] = roms[m]
        BY <4>1 DEF PutRom, File, ImportInv, Files
      <4>3. Saved \in Int /\ Saved <= 0 /\ raced \subseteq raced' /\ (Window(n) => Saved \in raced')
        BY <2>3, <4>1 DEF Saved
      <4>4. \A m \in Image : roms'[m] # Nothing =>
              /\ DOMAIN roms'[m] = {"data", "by", "edited"}
              /\ roms'[m].data \in Known /\ roms'[m].by \in Int
              /\ ~Users(roms'[m]) => ImportedFile(m)'
        BY <2>2, <4>2, <4>3 DEF ImportInv, Files, ImportedFile, Listed, Users
      <4>5. ASSUME imp.pc = "stat" PROVE Users(roms'[Head(imp.todo)]) => roms'[Head(imp.todo)].by \in raced'
        <5>1. Head(imp.todo) \in Image
          BY <4>5, LinkTurn DEF ImportInv, Linking
        <5>2. CASE Head(imp.todo) = n
          BY <4>2, <4>3, <4>5, <5>2 DEF Window
        <5>3. CASE Head(imp.todo) # n
          BY <4>2, <4>3, <4>5, <5>1, <5>3 DEF ImportInv, Files, Races
        <5>4. QED
          BY <5>2, <5>3
      <4>6. ASSUME imp.pc = "unlink"
            PROVE  Users(roms'[Last(imp.linked).name]) => roms'[Last(imp.linked).name].by \in raced'
        <5>1. Last(imp.linked).name \in Image
          BY <4>6, LastFacts DEF ImportInv, Linking
        <5>2. CASE Last(imp.linked).name = n
          BY <4>2, <4>3, <4>6, <5>2 DEF Window
        <5>3. CASE Last(imp.linked).name # n
          BY <4>2, <4>3, <4>6, <5>1, <5>3 DEF ImportInv, Files, Races
        <5>4. QED
          BY <5>2, <5>3
      <4>7. Races'
        BY <2>2, <4>3, <4>5, <4>6 DEF ImportInv, Files, Races
      <4>8. QED
        BY <4>2, <4>4, <4>7 DEF Files
    <3>2. CASE RemoveRom(n) /\ raced' = raced
      <4>1. /\ DOMAIN roms' = Image /\ roms'[n] = Nothing
            /\ \A m \in Image : m # n => roms'[m] = roms[m]
        BY <3>2 DEF RemoveRom, ImportInv, Files
      <4>2. imp.pc = "stat" => Head(imp.todo) \in Image
        BY LinkTurn DEF ImportInv, Linking
      <4>3. imp.pc = "unlink" => Last(imp.linked).name \in Image
        BY LastFacts DEF ImportInv, Linking
      <4>4. Races'
        BY <2>2, <3>2, <4>1, <4>2, <4>3 DEF ImportInv, Files, Races, Users
      <4>5. QED
        BY <2>2, <4>1, <4>4 DEF ImportInv, Files, ImportedFile, Listed
    <3>3. CASE (\E d \in Known : EditRom(n, d)) /\ raced' = raced
      <4>1. PICK d \in Known : EditRom(n, d)
        BY <3>3
      <4>2. roms[n] # Nothing /\ ~Users(roms[n]) /\ DOMAIN roms[n] = {"data", "by", "edited"}
        BY <4>1 DEF EditRom, ImportInv, Files
      <4>3. /\ DOMAIN roms' = Image
            /\ roms'[n] = [[roms[n] EXCEPT !.data = d] EXCEPT !.edited = TRUE]
            /\ \A m \in Image : m # n => roms'[m] = roms[m]
        BY <4>1 DEF EditRom, ImportInv, Files
      <4>4. /\ DOMAIN roms'[n] = {"data", "by", "edited"}
            /\ roms'[n].data = d /\ roms'[n].by = roms[n].by /\ roms'[n].edited
        BY <4>2, <4>3
      <4>5. ~Users(roms'[n])
        BY <4>2, <4>4 DEF Users
      <4>6. imp.pc = "stat" => Head(imp.todo) \in Image
        BY LinkTurn DEF ImportInv, Linking
      <4>7. imp.pc = "unlink" => Last(imp.linked).name \in Image
        BY LastFacts DEF ImportInv, Linking
      <4>8. Races'
        BY <2>2, <3>3, <4>3, <4>5, <4>6, <4>7 DEF ImportInv, Files, Races
      <4>9. \A m \in Image : roms'[m] # Nothing =>
              /\ DOMAIN roms'[m] = {"data", "by", "edited"}
              /\ roms'[m].data \in Known /\ roms'[m].by \in Int
              /\ ~Users(roms'[m]) => ImportedFile(m)'
        <5>1. ASSUME NEW m \in Image, ImportedFile(m), m # n PROVE ImportedFile(m)'
          BY <2>2, <4>3, <5>1 DEF ImportedFile, Listed
        <5>2. ImportedFile(n)
          BY <4>2 DEF ImportInv, Files
        <5>3. ImportedFile(n)'
          BY <2>2, <4>4, <5>2 DEF ImportedFile, Listed
        <5>4. roms'[n].data \in Known /\ roms'[n].by \in Int
          BY <4>2, <4>4 DEF ImportInv, Files
        <5>5. QED
          BY <4>3, <4>4, <5>1, <5>3, <5>4 DEF ImportInv, Files
      <4>10. QED
        BY <4>3, <4>8, <4>9 DEF Files
    <3>4. QED
      BY <2>1, <3>1, <3>2, <3>3 DEF ChangeFile, Known
  <2>5. QED
    BY <1>1, <2>2, <2>4
       DEF ImportInv, ImporterTypes, Remembered, Scanning, Planning, Staging,
           Rest_of_plan, StagedSoFar, Linking, NothingPlanned, NothingStaged,
           NothingLinked
<1>4. CASE ChangeResult \/ ChangeSimulator
  <2>1. UNCHANGED <<roms, importVars>>
    BY <1>4 DEF ChangeResult, ChangeSimulator, Damage, Rebuild
  <2>2. QED
    BY <1>1, <2>1, BesideImporter
<1>5. QED
  BY <1>2, <1>3, <1>4 DEF User

LEMMA ImportInit ==
    ASSUME Init PROVE ImportInv
<1>1. PICK lab \in Labs :
        /\ roms = [n \in Image |-> IF lab.roms[n] = Nothing THEN Nothing ELSE File(lab.roms[n], 0)]
        /\ zips = lab.zips
  BY DEF Init
<1>2. /\ lab.roms \in [Image -> Known \cup {Nothing}]
      /\ lab.zips \in [Sources -> Body]
  BY LabFiles, ArchiveFiles DEF Image, Known, Sources
<1>4. imp = [[pc |-> "key", no |-> 0, apply |-> FALSE, todo |-> Archives,
              found |-> << >>, body |-> << >>, rejected |-> FALSE, planned |-> << >>,
              staged |-> << >>, linked |-> << >>, stuck |-> {}, outcome |-> "none"] EXCEPT !.pc = "idle"]
  BY Zenon DEF Init, Fresh
<1>5. imp = [pc |-> "idle", no |-> 0, apply |-> FALSE, todo |-> Archives,
             found |-> << >>, body |-> << >>, rejected |-> FALSE, planned |-> << >>,
             staged |-> << >>, linked |-> << >>, stuck |-> {}, outcome |-> "none"]
  BY <1>4
<1>6. /\ Archives \in Seq(Known \cup Sources)
      /\ << >> \in Seq(Known) /\ << >> \in Seq(Image) /\ << >> \in Seq(Entries)
      /\ << >> \in Seq(Sources \X Body)
  BY ArchiveFiles DEF Sources
<1>7. imp \in Imports /\ imp.pc = "idle" /\ imp.found = << >> /\ imp.body = << >> /\ imp.linked = << >>
  BY <1>5, <1>6 DEF Imports, Stages
<1>3. Files
  <2>1. DOMAIN roms = Image
    BY <1>1
  <2>2. ASSUME NEW n \in Image, roms[n] # Nothing
        PROVE  /\ roms[n].data \in Known /\ roms[n].by = 0
               /\ DOMAIN roms[n] = {"data", "by", "edited"}
    BY <1>1, <1>2, <2>2 DEF File
  <2>3. Races
    <3>1. imp.pc = "idle" /\ ToSet(imp.linked) = {}
      BY <1>7 DEF ToSet
    <3>2. QED
      BY <3>1 DEF Races
  <2>4. QED
    BY <2>1, <2>2, <2>3 DEF Files, Users
<1>8. ImporterTypes
  BY <1>1, <1>2, <1>7 DEF ImporterTypes
<1>9. Remembered
  BY <1>7 DEF Remembered
<1>10. SpentOK
  BY DEF Init, SpentOK
<1>11. QED
  BY <1>3, <1>7, <1>8, <1>9, <1>10
     DEF ImportInv, Scanning, Planning, Staging, Linking, NothingPlanned,
         NothingStaged, NothingLinked

LEMMA ImportNext ==
    ASSUME ImportInv, [Next]_vars PROVE ImportInv'
<1>1. CASE Importer
  BY <1>1, StartStep, KeyStep, ScanStep, ScannedStep, PlanStep, PlannedStep, StageStep,
     StagedStep, LinkStep, StatStep, LinkedStep, ChmodStep, UndoStep, UnlinkStep,
     FailedStep, KillStep
     DEF Importer, ImportStep
<1>2. CASE \E p \in 1 .. Runners : Runner(p)
  BY <1>2, RunnerBeside, BesideImporter
<1>3. CASE User
  BY <1>3, UserStep
<1>4. CASE UNCHANGED vars
  <2>1. UNCHANGED <<roms, importVars>> /\ SpentOK'
    BY <1>4, SpentStep DEF vars, labVars, importVars, ImportInv
  <2>2. QED
    BY <2>1, BesideImporter
<1>5. QED
  BY <1>1, <1>2, <1>3, <1>4 DEF Next

\* The directory, its locks and an importer at any of its steps fit together:
\* the invariant behind the theorems on import_private_corpus.py.
THEOREM ImportInvariant == Spec => []ImportInv
  BY ImportInit, ImportNext, PTL DEF Spec

\* ImportAllOrNothing: a file of an import is one of the list its rollback
\* works from until the import is through, and it holds the image of its name
\* because the reading that is linked is the one that was compared.
THEOREM ImportIsAllOrNothing == Spec => []ImportAllOrNothing
<1>1. ImportInv => ImportAllOrNothing
  <2>1. ImportInv => (imp.pc = "idle" => ToSet(imp.linked) = {})
    BY DEF ImportInv, NothingLinked, ToSet
  <2>2. QED
    BY <2>1 DEF ImportInv, Files, ImportedFile, Listed, ImportAllOrNothing
<1>2. QED
  BY <1>1, ImportInvariant, PTL

\* UserFilesKept: the importer links only under free names, and what it unlinks
\* is a file it made or one saved in a window.
LEMMA UserFileStays ==
    ASSUME ImportInv, [Next]_vars, NEW n \in Image, Users(roms[n]), roms[n].by \notin raced,
           roms'[n] # roms[n]
    PROVE  spent'.change = spent.change + 1
<1>0. roms[n] # Nothing /\ DOMAIN roms = Image
  BY DEF Users, ImportInv, Files
<1>1. CASE User
  BY <1>1 DEF User, Accident, ImportInv, SpentOK
<1>2. CASE \E p \in 1 .. Runners : Runner(p)
  BY <1>2, RunnerBeside
<1>3. CASE Link
  <2>1. roms' = roms \/ \E d, f : roms[d] = Nothing /\ roms' = [roms EXCEPT ![d] = f]
    BY <1>3 DEF Link, LinkFile
  <2>2. QED
    BY <1>0, <2>1
<1>7. CASE Unlink
  <2>1. roms' = roms \/ roms' = [roms EXCEPT ![Last(imp.linked).name] = Nothing]
    BY <1>7 DEF Unlink
  <2>2. n = Last(imp.linked).name
    BY <1>0, <2>1
  <2>3. QED
    BY <1>7, <2>2 DEF Unlink, ImportInv, Files, Races
<1>4. CASE Importer /\ ~Link /\ ~Unlink
  BY <1>4 DEF Importer, ImportStep, ImportStart, ImportKill, ImportKey, _scan, Scanned,
              Plan, Planned, Stage, Staged, Stat, Linked, Chmod, Undo, Failed
<1>5. CASE UNCHANGED vars
  BY <1>5 DEF vars, labVars
<1>6. QED
  BY <1>1, <1>2, <1>3, <1>4, <1>5, <1>7 DEF Next, Importer, ImportStep

\* UserFilesKept: only a change by the owner alters a file the importer did not
\* link; os.link takes only a free name, and the rollback removes a file only
\* if it is still the inode that was linked.
THEOREM UserFilesStay == Spec => UserFilesKept
<1>1. ImportInv /\ [Next]_vars =>
        [\A n \in Image : Users(roms[n]) /\ roms[n].by \notin raced /\ roms'[n] # roms[n]
           => spent'.change = spent.change + 1]_vars
  BY UserFileStays
<1>2. QED
  BY <1>1, ImportInvariant, PTL DEF Spec, UserFilesKept

---------------------------------------------------------------------------
\* The runners' steps.

\* What was earned stays earned: the history only grows.
LEMMA EarnedStays ==
    ASSUME NEW d, NEW contract, Earned(d, contract), log \subseteq log'
    PROVE  Earned(d, contract)'
  BY DEF Earned

\* A run is judged by its own cases; nobody else's step takes its facts away
\* as long as the simulator stays while it is testing.
LEMMA Bystander ==
    ASSUME RunInv, NEW q \in 1 .. Runners, run'[q] = run[q], case'[q] = case[q],
           log \subseteq log', sim' = sim \/ run[q].pc # "cases"
    PROVE  (Inventory(q) /\ Contracted(q))' /\ \A d \in Image : Executing(q, d)'
<1>1. (Inventory(q) /\ Contracted(q))'
  BY DEF RunInv, Inventory, Contracted, Cases
<1>2. ASSUME NEW d \in Image PROVE Executing(q, d)'
  <2>1. Executing(q, d)
    BY DEF RunInv
  <2>2. FirstExecution(q, d)' = FirstExecution(q, d)
    BY DEF FirstExecution
  <2>3. PICK contract : contract = run[q].contract
    OBVIOUS
  <2>4. case[q][d].status = "pass" => Earned(d, contract)'
    BY <2>1, <2>3, EarnedStays DEF Executing
  <2>5. case'[q][d].status = "pass" => Earned(d, run[q].contract)'
    BY <2>3, <2>4
  <2>6. QED
    BY <2>1, <2>2, <2>5 DEF Executing
<1>3. QED
  BY <1>1, <1>2

\* The results and summaries that say "pass" stay earned.
LEMMA PassesStay ==
    ASSUME RunInv, log \subseteq log',
           \A d \in Image : \/ results'[d] = results[d]
                            \/ results'[d].status = "pass" => Earned(d, results[d].contract)',
           \A p \in 1 .. Runners :
               \/ summary'[p] = summary[p]
               \/ \A d \in summary'[p].passed : Earned(d, summary[p].contract)'
    PROVE  PassIsEarned'
<1>1. ASSUME NEW d \in Image, results'[d].status = "pass"
      PROVE  Earned(d, results[d].contract)'
  <2>1. CASE results'[d] = results[d]
    <3>1. PICK contract : contract = results[d].contract
      OBVIOUS
    <3>2. Earned(d, contract)'
      BY <1>1, <2>1, <3>1, EarnedStays DEF RunInv, PassIsEarned
    <3>3. contract = results'[d].contract
      BY <2>1, <3>1
    <3>4. QED
      BY <3>2, <3>3
  <2>2. QED
    BY <1>1, <2>1
<1>2. ASSUME NEW p \in 1 .. Runners, NEW d, d \in summary'[p].passed
      PROVE  Earned(d, summary[p].contract)'
  <2>1. CASE summary'[p] = summary[p]
    <3>1. PICK contract : contract = summary[p].contract
      OBVIOUS
    <3>2. Earned(d, contract)'
      BY <1>2, <2>1, <3>1, EarnedStays DEF RunInv, PassIsEarned
    <3>3. contract = summary'[p].contract
      BY <2>1, <3>1
    <3>4. QED
      BY <3>2, <3>3
  <2>2. QED
    BY <1>2, <2>1
<1>3. QED
  BY <1>1, <1>2 DEF PassIsEarned

\* A step of one run outside its cases.
LEMMA ProgressStep ==
    ASSUME RunInv, NEW p \in 1 .. Runners, NEW r,
           run' = [run EXCEPT ![p] = r], DOMAIN r = RunFields,
           \/ case' = case /\ \A d \in Image : case[p][d] = NoCase
           \/ \E pc \in {"queued", "none"} : \E C \in SUBSET Image :
                case' = [case EXCEPT ![p] = [d \in Image |-> IF d \in C THEN [NoCase EXCEPT !.pc = pc] ELSE NoCase]]
                  /\ (C # {} => r.pc = "cases"),
           r.pc \in {"contract", "cases"} => DOMAIN r.path \subseteq Image,
           r.pc = "cases" => r.contract.build = sim /\ r.contract.repeat = r.repeat,
           UNCHANGED <<sim, results, log>>, PassIsEarned', DOMAIN summary' = 1 .. Runners
    PROVE  RunInv'
<1>1. /\ DOMAIN run' = 1 .. Runners /\ run'[p] = r
      /\ \A q \in 1 .. Runners : q # p => run'[q] = run[q]
  BY DEF RunInv, RunnerTypes
<1>2. /\ DOMAIN case' = 1 .. Runners
      /\ \A q \in 1 .. Runners : q # p => case'[q] = case[q]
      /\ DOMAIN case'[p] = Image
  BY DEF RunInv, RunnerTypes
<1>3. ASSUME NEW d \in Image
      PROVE  /\ DOMAIN case'[p][d] = CaseFields
             /\ case'[p][d].pc \in {"queued", "none"} /\ case'[p][d].status = "none"
             /\ r.pc # "cases" => case'[p][d] = NoCase
  <2>1. /\ DOMAIN NoCase = CaseFields /\ NoCase.pc = "none" /\ NoCase.status = "none"
    BY DEF NoCase, CaseFields
  <2>2. CASE case' = case /\ case[p][d] = NoCase
    BY <2>1, <2>2
  <2>3. CASE \E pc \in {"queued", "none"} : \E C \in SUBSET Image :
               /\ case' = [case EXCEPT ![p] = [e \in Image |-> IF e \in C THEN [NoCase EXCEPT !.pc = pc] ELSE NoCase]]
               /\ C # {} => r.pc = "cases"
    <3>1. PICK pc \in {"queued", "none"}, C \in SUBSET Image :
               /\ case' = [case EXCEPT ![p] = [e \in Image |-> IF e \in C THEN [NoCase EXCEPT !.pc = pc] ELSE NoCase]]
               /\ C # {} => r.pc = "cases"
      BY <2>3
    <3>2. case'[p][d] = IF d \in C THEN [NoCase EXCEPT !.pc = pc] ELSE NoCase
      BY <3>1 DEF RunInv, RunnerTypes
    <3>3. /\ DOMAIN [NoCase EXCEPT !.pc = pc] = CaseFields
          /\ [NoCase EXCEPT !.pc = pc].pc = pc /\ [NoCase EXCEPT !.pc = pc].status = "none"
      BY DEF NoCase, CaseFields
    <3>4. QED
      BY <2>1, <3>1, <3>2, <3>3
  <2>4. QED
    BY <2>2, <2>3
<1>4. (Inventory(p) /\ Contracted(p))' /\ \A d \in Image : Executing(p, d)'
  <2>1. (Inventory(p) /\ Contracted(p))'
    BY <1>1 DEF Inventory, Contracted, Cases
  <2>2. ASSUME NEW d \in Image PROVE Executing(p, d)'
    BY <1>1, <1>3 DEF Executing
  <2>3. QED
    BY <2>1, <2>2
<1>5. RunnerTypes'
  BY <1>1, <1>2, <1>3 DEF RunInv, RunnerTypes
<1>6. ASSUME NEW q \in 1 .. Runners
      PROVE  (Inventory(q) /\ Contracted(q))' /\ \A d \in Image : Executing(q, d)'
  <2>1. CASE q = p
    BY <1>4, <2>1
  <2>2. CASE q # p
    BY <1>1, <1>2, <2>2, Bystander
  <2>3. QED
    BY <2>1, <2>2
<1>7. QED
  BY <1>5, <1>6 DEF RunInv

\* A step of one case.
LEMMA CaseStep ==
    ASSUME RunInv, NEW p \in 1 .. Runners, NEW d \in Image, NEW c,
           Case(p, d, c), DOMAIN c = CaseFields, run[p].pc = "cases",
           c.pc \in {"launch", "running"} =>
             /\ c.data = d
             /\ \/ c.attempt = 1
                \/ /\ c.attempt = 2 /\ run[p].repeat
                   /\ [no |-> run[p].no, image |-> d, build |-> run[p].contract.build,
                       attempt |-> 1, chain |-> c.chain] \in log',
           c.pc = "running" => c.build = run[p].contract.build,
           c.status = "pass" => Earned(d, run[p].contract)',
           UNCHANGED <<sim, run, summary>>, log \subseteq log', DOMAIN results' = Image,
           \A e \in Image : \/ results'[e] = results[e]
                            \/ results'[e].status = "pass" => Earned(e, results[e].contract)'
    PROVE  RunInv'
<1>1. /\ DOMAIN case' = 1 .. Runners
      /\ \A q \in 1 .. Runners : q # p => case'[q] = case[q]
      /\ DOMAIN case'[p] = Image
      /\ case'[p][d] = c
      /\ \A e \in Image : e # d => case'[p][e] = case[p][e]
  BY DEF RunInv, RunnerTypes, Case
<1>2. RunnerTypes'
  BY <1>1 DEF RunInv, RunnerTypes
<1>3. PassIsEarned'
  BY PassesStay
<1>4. (Inventory(p) /\ Contracted(p))'
  BY DEF RunInv, Inventory, Contracted, Cases
<1>5. ASSUME NEW e \in Image PROVE Executing(p, e)'
  <2>1. CASE e = d
    <3>1. FirstExecution(p, d)' =
            [no |-> run[p].no, image |-> d, build |-> run[p].contract.build,
             attempt |-> 1, chain |-> c.chain]
      BY <1>1 DEF FirstExecution
    <3>2. case'[p][d].status = "pass" => Earned(d, run[p].contract)'
      BY <1>1
    <3>3. QED
      BY <1>1, <2>1, <3>1, <3>2 DEF Executing
  <2>2. CASE e # d
    <3>1. Executing(p, e)
      BY DEF RunInv
    <3>2. FirstExecution(p, e)' = FirstExecution(p, e) /\ case'[p][e] = case[p][e]
      BY <1>1, <2>2 DEF FirstExecution
    <3>3. PICK contract : contract = run[p].contract
      OBVIOUS
    <3>4. case[p][e].status = "pass" => Earned(e, contract)'
      BY <3>1, <3>3, EarnedStays DEF Executing
    <3>5. case'[p][e].status = "pass" => Earned(e, run[p].contract)'
      BY <3>2, <3>3, <3>4
    <3>6. QED
      BY <3>1, <3>2, <3>5 DEF Executing
  <2>3. QED
    BY <2>1, <2>2
<1>6. ASSUME NEW q \in 1 .. Runners
      PROVE  (Inventory(q) /\ Contracted(q))' /\ \A e \in Image : Executing(q, e)'
  <2>1. CASE q = p
    BY <1>4, <1>5, <2>1
  <2>2. CASE q # p
    BY <1>1, <2>2, Bystander
  <2>3. QED
    BY <2>1, <2>2
<1>7. QED
  BY <1>2, <1>3, <1>6 DEF RunInv

LEMMA NoCases ==
    ASSUME RunInv, NEW p \in 1 .. Runners, run[p].pc # "cases"
    PROVE  \A d \in Image : case[p][d] = NoCase
  BY DEF RunInv, Executing

LEMMA NoneQueued ==
    [d \in Image |-> NoCase]
      = [d \in Image |-> IF d \in {} THEN [NoCase EXCEPT !.pc = "none"] ELSE NoCase]
  OBVIOUS

LEMMA NoRunFacts ==
    DOMAIN NoRun = RunFields /\ NoRun.pc = "idle"
  BY DEF NoRun, RunFields

LEMMA RunStartStep ==
    ASSUME RunInv, NEW p \in 1 .. Runners, NEW repeat \in BOOLEAN, RunStart(p, repeat)
    PROVE  RunInv'
<1>1. PICK r : r = [NoRun EXCEPT !.pc = "key", !.no = spent.starts + 1, !.repeat = repeat]
  OBVIOUS
<1>2. DOMAIN r = RunFields /\ r.pc = "key"
  BY <1>1 DEF NoRun, RunFields
<1>3. /\ run' = [run EXCEPT ![p] = r]
      /\ case' = [case EXCEPT ![p] = [d \in Image |-> NoCase]]
      /\ UNCHANGED <<sim, results, log, summary>>
  BY <1>1 DEF RunStart
<1>4. PassIsEarned'
  BY <1>3, PassesStay
<1>5. DOMAIN summary' = 1 .. Runners
  BY <1>3 DEF RunInv, RunnerTypes
<1>6. \E pc \in {"queued", "none"} : \E C \in SUBSET Image :
         /\ case' = [case EXCEPT ![p] = [d \in Image |-> IF d \in C THEN [NoCase EXCEPT !.pc = pc] ELSE NoCase]]
         /\ C # {} => r.pc = "cases"
  BY <1>3, NoneQueued
<1>7. QED
  BY <1>2, <1>3, <1>4, <1>5, <1>6, ProgressStep

\* A step from one stage of a run to the next.
LEMMA StageOfRun ==
    ASSUME RunInv, NEW p \in 1 .. Runners, run[p].pc # "cases", NEW r,
           run' = [run EXCEPT ![p] = r], DOMAIN r = RunFields,
           r.pc = "contract" => DOMAIN r.path \subseteq Image, r.pc # "cases",
           UNCHANGED <<sim, results, case, summary, log>>
    PROVE  RunInv'
<1>1. PassIsEarned' /\ DOMAIN summary' = 1 .. Runners
  BY PassesStay DEF RunInv, RunnerTypes
<1>2. \A d \in Image : case[p][d] = NoCase
  BY NoCases
<1>3. QED
  BY <1>1, <1>2, ProgressStep

LEMMA RunKeyStep ==
    ASSUME RunInv, NEW p \in 1 .. Runners, RunKey(p) PROVE RunInv'
<1>1. PICK next \in {"write_key", "scan", "idle"} :
         load_or_create_key(run[p].pc, next) /\ run' = [run EXCEPT ![p].pc = next]
  BY DEF RunKey
<1>2. run[p].pc \in {"key", "write_key"}
  BY <1>1 DEF load_or_create_key, CreateKey, WriteKey
<1>3. PICK r : r = [run[p] EXCEPT !.pc = next]
  OBVIOUS
<1>4. DOMAIN r = RunFields /\ r.pc = next
  BY <1>3 DEF RunInv, RunnerTypes, RunFields
<1>5. run' = [run EXCEPT ![p] = r] /\ UNCHANGED <<sim, results, case, summary, log>>
  BY <1>1, <1>3 DEF RunKey
<1>6. QED
  BY <1>2, <1>4, <1>5, StageOfRun

\* The inventory holds images of the lab: what is inspected is what the core
\* can run.
LEMMA FoundAreImages ==
    ASSUME ImportInv PROVE Found \subseteq Image
<1>1. ASSUME NEW n \in Image, inspect_rom(roms[n]) PROVE roms[n].data \in Image
  <2>1. roms[n].data \in Known /\ inspect_rom_bytes(roms[n].data)
    BY <1>1 DEF inspect_rom, ImportInv, Files
  <2>2. roms[n].data \notin Misfits
    BY <2>1, MisfitsRejected
  <2>3. QED
    BY <2>1, <2>2 DEF Known
<1>2. QED
  BY <1>1 DEF Found

LEMMA WalkStep ==
    ASSUME RunInv, ImportInv, NEW p \in 1 .. Runners, _walk_rom_tree(p) PROVE RunInv'
<1> DEFINE path == [d \in Found |-> FirstName(d)]
           bad == \E n \in Image : roms[n] # Nothing /\ ~inspect_rom(roms[n])
<1>1. PICK r : r = [[[run[p] EXCEPT !.pc = "contract"] EXCEPT !.path = path] EXCEPT !.rejected = bad]
  OBVIOUS
<1>2. DOMAIN path \subseteq Image
  BY FoundAreImages
<1>3. run[p].pc = "scan" /\ UNCHANGED <<sim, results, case, summary, log>>
  BY DEF _walk_rom_tree
<1>4. run' = [run EXCEPT ![p] = r]
  <2>1. run' = [run EXCEPT ![p].pc = "contract", ![p].path = path, ![p].rejected = bad]
    BY DEF _walk_rom_tree
  <2> HIDE DEF path, bad
  <2>2. QED
    BY <1>1, <2>1 DEF RunInv, RunnerTypes
<1> HIDE DEF path, bad
<1>5. DOMAIN r = RunFields /\ r.pc = "contract" /\ r.path = path
  BY <1>1 DEF RunInv, RunnerTypes, RunFields
<1>6. QED
  BY <1>2, <1>3, <1>4, <1>5, StageOfRun

LEMMA InventoryStep ==
    ASSUME RunInv, NEW p \in 1 .. Runners, InventoryOnly(p) PROVE RunInv'
<1>1. PICK r : r = NoRun
  OBVIOUS
<1>2. DOMAIN r = RunFields /\ r.pc = "idle" /\ run' = [run EXCEPT ![p] = r]
  BY <1>1, NoRunFacts DEF InventoryOnly
<1>3. run[p].pc # "cases" /\ UNCHANGED <<sim, results, case, summary, log>>
  BY DEF InventoryOnly
<1>4. QED
  BY <1>2, <1>3, StageOfRun

LEMMA SubmitStep ==
    ASSUME RunInv, NEW p \in 1 .. Runners, Submit(p) PROVE RunInv'
<1>1. PICK r : r = [[run[p] EXCEPT !.pc = "cases"] EXCEPT !.contract = Contract(p)]
  OBVIOUS
<1>2. /\ run[p].pc = "contract" /\ UNCHANGED <<sim, results, summary, log>>
      /\ case' = [case EXCEPT ![p] = [d \in Image |-> IF d \in Cases(p) THEN [NoCase EXCEPT !.pc = "queued"] ELSE NoCase]]
  BY DEF Submit
<1>3. run' = [run EXCEPT ![p] = r]
  <2>1. run' = [run EXCEPT ![p].pc = "cases", ![p].contract = Contract(p)]
    BY DEF Submit
  <2>2. QED
    BY <1>1, <2>1 DEF RunInv, RunnerTypes
<1>4. /\ DOMAIN r = RunFields /\ r.pc = "cases" /\ r.path = run[p].path
      /\ r.repeat = run[p].repeat /\ r.contract = Contract(p)
  BY <1>1 DEF RunInv, RunnerTypes, RunFields
<1>5. r.contract.build = sim /\ r.contract.repeat = r.repeat
  BY <1>4 DEF Contract, _validate_simulator
<1>6. Cases(p) \subseteq Image /\ DOMAIN r.path \subseteq Image
  BY <1>2, <1>4 DEF RunInv, Inventory, Cases
<1>7. PassIsEarned' /\ DOMAIN summary' = 1 .. Runners
  BY <1>2, PassesStay DEF RunInv, RunnerTypes
<1>8. \E pc \in {"queued", "none"} : \E C \in SUBSET Image :
         /\ case' = [case EXCEPT ![p] = [d \in Image |-> IF d \in C THEN [NoCase EXCEPT !.pc = pc] ELSE NoCase]]
         /\ C # {} => r.pc = "cases"
  BY <1>2, <1>4, <1>6
<1>9. QED
  BY <1>2, <1>3, <1>4, <1>5, <1>6, <1>7, <1>8, ProgressStep

\* A run that is over, or killed, has neither a contract nor threads.
LEMMA OverStep ==
    ASSUME RunInv, NEW p \in 1 .. Runners,
           run' = [run EXCEPT ![p] = NoRun],
           case' = [case EXCEPT ![p] = [d \in Image |-> NoCase]],
           UNCHANGED <<sim, results, log>>, PassIsEarned', DOMAIN summary' = 1 .. Runners
    PROVE  RunInv'
<1>1. PICK r : r = NoRun
  OBVIOUS
<1>2. DOMAIN r = RunFields /\ r.pc = "idle" /\ run' = [run EXCEPT ![p] = r]
  BY <1>1, NoRunFacts
<1>3. \E pc \in {"queued", "none"} : \E C \in SUBSET Image :
         /\ case' = [case EXCEPT ![p] = [d \in Image |-> IF d \in C THEN [NoCase EXCEPT !.pc = pc] ELSE NoCase]]
         /\ C # {} => r.pc = "cases"
  BY NoneQueued
<1>4. QED
  BY <1>2, <1>3, ProgressStep

LEMMA RunKillStep ==
    ASSUME RunInv, NEW p \in 1 .. Runners, RunKill(p) PROVE RunInv'
<1>1. UNCHANGED <<sim, results, log, summary>>
  BY DEF RunKill
<1>2. PassIsEarned' /\ DOMAIN summary' = 1 .. Runners
  BY <1>1, PassesStay DEF RunInv, RunnerTypes
<1>3. QED
  BY <1>1, <1>2, OverStep DEF RunKill

LEMMA SummarizeStep ==
    ASSUME RunInv, NEW p \in 1 .. Runners, Summarize(p) PROVE RunInv'
<1>1. PICK s : s = [contract |-> run[p].contract, passed |-> Passed(p),
                    failed |-> Cardinality(Cases(p) \ Passed(p)) + (IF run[p].rejected THEN 1 ELSE 0)]
  OBVIOUS
<1>2. /\ run[p].pc = "cases" /\ UNCHANGED <<sim, results, log>>
      /\ summary' = [summary EXCEPT ![p] = s]
  BY <1>1 DEF Summarize
<1>3. /\ DOMAIN summary' = 1 .. Runners /\ summary'[p] = s
      /\ \A q \in 1 .. Runners : q # p => summary'[q] = summary[q]
  BY <1>2 DEF RunInv, RunnerTypes
<1>4. s.contract = run[p].contract /\ s.passed = Passed(p)
  BY <1>1
<1>5. ASSUME NEW d, d \in summary'[p].passed PROVE Earned(d, summary[p].contract)'
  <2>1. d \in Image /\ case[p][d].status = "pass"
    BY <1>2, <1>3, <1>4, <1>5 DEF Passed, RunInv, Inventory
  <2>2. PICK contract : contract = run[p].contract
    OBVIOUS
  <2>3. Earned(d, contract)
    BY <2>1, <2>2 DEF RunInv, Executing
  <2>4. Earned(d, contract)'
    BY <1>2, <2>3, EarnedStays
  <2>5. contract = summary'[p].contract
    BY <1>3, <1>4, <2>2
  <2>6. QED
    BY <2>4, <2>5
<1>6. PassIsEarned'
  BY <1>2, <1>3, <1>5, PassesStay
<1>7. QED
  BY <1>2, <1>3, <1>6, OverStep DEF Summarize

\* The steps of a case: what each makes of the thread's record.
LEMMA CaseFacts ==
    ASSUME RunInv, NEW p \in 1 .. Runners, NEW d \in Image
    PROVE  DOMAIN case[p][d] = CaseFields /\ Executing(p, d) /\ DOMAIN results = Image
  BY DEF RunInv, RunnerTypes

\* A case that keeps what it has, or gives up, on the way to its end.
LEMMA PlainStep ==
    ASSUME RunInv, NEW p \in 1 .. Runners, NEW d \in Image, NEW c,
           run[p].pc = "cases", Case(p, d, c), DOMAIN c = CaseFields,
           c.pc \notin {"launch", "running"},
           c.status \in {case[p][d].status, "fail"},
           UNCHANGED <<sim, results, run, summary, log>>
    PROVE  RunInv'
<1>1. DOMAIN results' = Image
  BY CaseFacts
<1>2. c.status = "pass" => Earned(d, run[p].contract)'
  <2>1. PICK contract : contract = run[p].contract
    OBVIOUS
  <2>2. case[p][d].status = "pass" => Earned(d, contract)
    BY <2>1, CaseFacts DEF Executing
  <2>3. c.status = "pass" => Earned(d, contract)'
    BY <2>2, EarnedStays
  <2>4. contract = run'[p].contract
    BY <2>1
  <2>5. QED
    BY <2>3, <2>4
<1>3. QED
  BY <1>1, <1>2, CaseStep

LEMMA ResumeStep ==
    ASSUME RunInv, NEW p \in 1 .. Runners, NEW d \in Image, Resume(p, d) PROVE RunInv'
<1>1. /\ run[p].pc = "cases" /\ UNCHANGED <<sim, results, run, summary, log>>
      /\ DOMAIN case[p][d] = CaseFields
  BY CaseFacts DEF Resume, CaseAt
<1>2. CASE _load_resume(d, run[p].contract) = "resume"
  <2>1. PICK c : c = Done(case[p][d], "pass")
    OBVIOUS
  <2>2. Case(p, d, c)
    BY <1>2, <2>1 DEF Resume
  <2>3. DOMAIN c = CaseFields /\ c.pc = "done"
    BY <1>1, <2>1 DEF Done, CaseFields
  <2>4. results[d].status = "pass" /\ results[d].contract = run[p].contract
    BY <1>2 DEF _load_resume
  <2>5. PICK contract : contract = run[p].contract
    OBVIOUS
  <2>6. Earned(d, contract)'
    BY <1>1, <2>4, <2>5, EarnedStays DEF RunInv, PassIsEarned
  <2>7. Earned(d, run[p].contract)'
    <3>1. contract = run'[p].contract
      BY <1>1, <2>5
    <3>2. QED
      BY <2>6, <3>1
  <2>8. DOMAIN results' = Image
    BY <1>1, CaseFacts
  <2>9. QED
    BY <1>1, <2>2, <2>3, <2>7, <2>8, CaseStep
<1>3. CASE _load_resume(d, run[p].contract) \in {"invalid", "run"}
  <2>1. PICK c \in {Done(case[p][d], "fail"), [case[p][d] EXCEPT !.pc = "inspect"]} : Case(p, d, c)
    BY <1>3 DEF Resume
  <2>2. /\ DOMAIN c = CaseFields /\ c.pc \in {"done", "inspect"}
        /\ c.status \in {case[p][d].status, "fail"}
    BY <1>1, <2>1 DEF Done, CaseFields
  <2>3. QED
    BY <1>1, <2>1, <2>2, PlainStep
<1>4. QED
  BY <1>2, <1>3 DEF _load_resume

\* The bytes that are run are the bytes of the case.
LEMMA InspectStep ==
    ASSUME RunInv, NEW p \in 1 .. Runners, NEW d \in Image, Inspect(p, d) PROVE RunInv'
<1> DEFINE file == roms[run[p].path[d]]
<1>1. /\ run[p].pc = "cases" /\ UNCHANGED <<sim, results, run, summary, log>>
      /\ DOMAIN case[p][d] = CaseFields
  BY CaseFacts DEF Inspect, CaseAt
<1>2. CASE SameRom(file, d)
  <2>1. PICK c : c = [case[p][d] EXCEPT !.pc = "launch", !.data = file.data, !.attempt = 1]
    OBVIOUS
  <2>2. Case(p, d, c)
    BY <1>2, <2>1 DEF Inspect
  <2>3. /\ DOMAIN c = CaseFields /\ c.pc = "launch" /\ c.attempt = 1
        /\ c.data = d /\ c.status = case[p][d].status
    BY <1>1, <1>2, <2>1 DEF SameRom, CaseFields
  <2>4. DOMAIN results' = Image
    BY <1>1, CaseFacts
  <2>5. c.status = "pass" => Earned(d, run[p].contract)'
    <3>1. PICK contract : contract = run[p].contract
      OBVIOUS
    <3>2. c.status = "pass" => Earned(d, contract)'
      <4>1. c.status = "pass" => Earned(d, contract)
        BY <2>3, <3>1, CaseFacts DEF Executing
      <4>2. QED
        BY <1>1, <4>1, EarnedStays
    <3>3. contract = run'[p].contract
      BY <1>1, <3>1
    <3>4. QED
      BY <3>2, <3>3
  <2>6. QED
    BY <1>1, <2>2, <2>3, <2>4, <2>5, CaseStep
<1>3. CASE ~SameRom(file, d)
  <2>1. PICK c : c = ToWrite(case[p][d], "fail")
    OBVIOUS
  <2>2. Case(p, d, c)
    BY <1>3, <2>1 DEF Inspect
  <2>3. DOMAIN c = CaseFields /\ c.pc = "write" /\ c.status = "fail"
    BY <1>1, <2>1 DEF ToWrite, CaseFields
  <2>4. QED
    BY <1>1, <2>2, <2>3, PlainStep
<1>4. QED
  BY <1>2, <1>3

\* The simulator launched is the one the contract names.
LEMMA LaunchStep ==
    ASSUME RunInv, NEW p \in 1 .. Runners, NEW d \in Image, Launch(p, d) PROVE RunInv'
<1>1. /\ run[p].pc = "cases" /\ UNCHANGED <<sim, results, run, summary, log>>
      /\ DOMAIN case[p][d] = CaseFields /\ case[p][d].pc = "launch" /\ Executing(p, d)
      /\ DOMAIN results' = Image
  BY CaseFacts DEF Launch, CaseAt
<1>2. PICK c : c = [case[p][d] EXCEPT !.pc = "running", !.build = sim]
  OBVIOUS
<1>3. Case(p, d, c)
  BY <1>2 DEF Launch
<1>4. /\ DOMAIN c = CaseFields /\ c.pc = "running" /\ c.build = sim
      /\ c.attempt = case[p][d].attempt /\ c.data = case[p][d].data
      /\ c.status = case[p][d].status /\ c.chain = case[p][d].chain
  BY <1>1, <1>2 DEF CaseFields
<1>5. c.build = run[p].contract.build
  BY <1>1, <1>4 DEF RunInv, Contracted
<1>6. c.status = "pass" => Earned(d, run[p].contract)'
  <2>1. PICK contract : contract = run[p].contract
    OBVIOUS
  <2>2. c.status = "pass" => Earned(d, contract)'
    BY <1>1, <1>4, <2>1, EarnedStays DEF Executing
  <2>3. contract = run'[p].contract
    BY <1>1, <2>1
  <2>4. QED
    BY <2>2, <2>3
<1>7. /\ c.data = d
      /\ \/ c.attempt = 1
         \/ /\ c.attempt = 2 /\ run[p].repeat
            /\ [no |-> run[p].no, image |-> d, build |-> run[p].contract.build,
                attempt |-> 1, chain |-> c.chain] \in log'
  BY <1>1, <1>4 DEF Executing, FirstExecution
<1>8. QED
  BY <1>1, <1>3, <1>4, <1>5, <1>6, <1>7, CaseStep

LEMMA RunProcessStep ==
    ASSUME RunInv, NEW p \in 1 .. Runners, NEW d \in Image, _run_process(p, d) PROVE RunInv'
<1>1. /\ run[p].pc = "cases" /\ UNCHANGED <<sim, results, run, summary, log>>
      /\ DOMAIN case[p][d] = CaseFields
  BY CaseFacts DEF _run_process, CaseAt
<1>2. PICK c : c = ToWrite(case[p][d], "fail")
  OBVIOUS
<1>3. Case(p, d, c)
  BY <1>2 DEF _run_process
<1>4. DOMAIN c = CaseFields /\ c.pc = "write" /\ c.status = "fail"
  BY <1>1, <1>2 DEF ToWrite, CaseFields
<1>5. QED
  BY <1>1, <1>3, <1>4, PlainStep

\* The frames of an execution: with the first of two recorded, equal frames of
\* the second earn the pass.
LEMMA FrameChainStep ==
    ASSUME RunInv, NEW p \in 1 .. Runners, NEW d \in Image, NEW chain,
           _frame_chain(p, d, chain)
    PROVE  RunInv'
<1> DEFINE old == case[p][d]
           contract == run[p].contract
           Entry(n) == [no |-> run[p].no, image |-> d, build |-> contract.build,
                        attempt |-> n, chain |-> chain]
<1>1. /\ run[p].pc = "cases" /\ UNCHANGED <<sim, results, run, summary>>
      /\ DOMAIN old = CaseFields /\ old.pc = "running"
      /\ Executing(p, d) /\ DOMAIN results' = Image
  BY CaseFacts DEF _frame_chain, CaseAt
<1>2. /\ old.data = d /\ old.build = contract.build
      /\ \/ old.attempt = 1
         \/ old.attempt = 2 /\ run[p].repeat /\ FirstExecution(p, d) \in log
      /\ old.status = "pass" => Earned(d, contract)
  BY <1>1 DEF Executing
<1>3. log' = log \cup {Entry(old.attempt)}
  BY <1>2 DEF _frame_chain
<1>4. PICK c : c = AfterFrames(old, chain, run[p].repeat)
  OBVIOUS
<1>5. Case(p, d, c)
  BY <1>4 DEF _frame_chain
<1>6. contract.repeat = run[p].repeat
  BY <1>1 DEF RunInv, Contracted
<1>7. PICK k : k = contract
  OBVIOUS
<1>8. k = run'[p].contract /\ log \subseteq log'
  BY <1>1, <1>3, <1>7
<1>9. CASE run[p].repeat /\ old.attempt = 1
  <2>1. c = [old EXCEPT !.pc = "launch", !.attempt = 2, !.chain = chain]
    BY <1>4, <1>9 DEF AfterFrames
  <2>2. /\ DOMAIN c = CaseFields /\ c.pc = "launch" /\ c.attempt = 2
        /\ c.chain = chain /\ c.data = d /\ c.status = old.status
    BY <1>1, <1>2, <2>1 DEF CaseFields
  <2>3. [no |-> run[p].no, image |-> d, build |-> run[p].contract.build,
         attempt |-> 1, chain |-> c.chain] \in log'
    BY <1>3, <1>9, <2>2
  <2>4. c.status = "pass" => Earned(d, k)'
    BY <1>2, <1>7, <1>8, <2>2, EarnedStays
  <2>5. c.status = "pass" => Earned(d, run[p].contract)'
    BY <1>8, <2>4
  <2>6. QED
    BY <1>1, <1>5, <1>8, <1>9, <2>2, <2>3, <2>5, CaseStep
<1>10. CASE run[p].repeat /\ old.attempt # 1 /\ old.chain # chain
  <2>1. c = ToWrite(old, "fail")
    BY <1>4, <1>10 DEF AfterFrames
  <2>2. DOMAIN c = CaseFields /\ c.pc = "write" /\ c.status = "fail"
    BY <1>1, <2>1 DEF ToWrite, CaseFields
  <2>3. QED
    BY <1>1, <1>5, <1>8, <2>2, CaseStep
<1>11. CASE run[p].repeat /\ old.attempt # 1 /\ old.chain = chain
  <2>1. c = ToWrite(old, "pass")
    BY <1>4, <1>11 DEF AfterFrames
  <2>2. DOMAIN c = CaseFields /\ c.pc = "write"
    BY <1>1, <2>1 DEF ToWrite, CaseFields
  <2>3. Entry(1) \in log' /\ Entry(2) \in log'
    BY <1>2, <1>3, <1>11 DEF FirstExecution
  <2>4. PICK e, f : e = Entry(2) /\ f = Entry(1)
    OBVIOUS
  <2>5. /\ e.image = d /\ e.build = k.build
        /\ f = [e EXCEPT !.attempt = 3 - e.attempt]
    BY <1>7, <2>4
  <2>6. Earned(d, k)'
    BY <2>3, <2>4, <2>5 DEF Earned
  <2>7. Earned(d, run[p].contract)'
    BY <1>8, <2>6
  <2>8. QED
    BY <1>1, <1>5, <1>8, <2>2, <2>7, CaseStep
<1>12. CASE ~run[p].repeat
  <2>1. c = ToWrite(old, "pass")
    BY <1>4, <1>12 DEF AfterFrames
  <2>2. DOMAIN c = CaseFields /\ c.pc = "write"
    BY <1>1, <2>1 DEF ToWrite, CaseFields
  <2>3. PICK e : e = Entry(old.attempt)
    OBVIOUS
  <2>4. e \in log' /\ e.image = d /\ e.build = k.build
    BY <1>3, <1>7, <2>3
  <2>5. ~k.repeat
    BY <1>6, <1>7, <1>12
  <2>6. Earned(d, k)'
    BY <2>4, <2>5 DEF Earned
  <2>7. Earned(d, run[p].contract)'
    BY <1>8, <2>6
  <2>8. QED
    BY <1>1, <1>5, <1>8, <2>2, <2>7, CaseStep
<1>13. QED
  BY <1>9, <1>10, <1>11, <1>12

LEMMA WriteStep ==
    ASSUME RunInv, NEW p \in 1 .. Runners, NEW d \in Image, _atomic_write_json(p, d)
    PROVE  RunInv'
<1>1. /\ run[p].pc = "cases" /\ UNCHANGED <<sim, run, summary, log>>
      /\ DOMAIN case[p][d] = CaseFields /\ Executing(p, d) /\ DOMAIN results = Image
  BY CaseFacts DEF _atomic_write_json, CaseAt
<1>2. CASE Case(p, d, Done(case[p][d], "fail")) /\ UNCHANGED results
  <2>1. PICK c : c = Done(case[p][d], "fail")
    OBVIOUS
  <2>2. DOMAIN c = CaseFields /\ c.pc = "done" /\ c.status = "fail"
    BY <1>1, <2>1 DEF Done, CaseFields
  <2>3. QED
    BY <1>1, <1>2, <2>1, <2>2, PlainStep
<1>3. CASE /\ results' = [results EXCEPT ![d] = [contract |-> run[p].contract, status |-> case[p][d].status]]
           /\ Case(p, d, [case[p][d] EXCEPT !.pc = "done"])
  <2>1. PICK c : c = [case[p][d] EXCEPT !.pc = "done"]
    OBVIOUS
  <2>2. DOMAIN c = CaseFields /\ c.pc = "done" /\ c.status = case[p][d].status
    BY <1>1, <2>1 DEF CaseFields
  <2>3. PICK k : k = run[p].contract
    OBVIOUS
  <2>4. case[p][d].status = "pass" => Earned(d, k)'
    BY <1>1, <2>3, EarnedStays DEF Executing
  <2>5. k = run'[p].contract /\ k = results'[d].contract /\ results'[d].status = case[p][d].status
    BY <1>1, <1>3, <2>3
  <2>6. c.status = "pass" => Earned(d, run[p].contract)'
    BY <2>2, <2>4, <2>5
  <2>7. results'[d].status = "pass" => Earned(d, results[d].contract)'
    BY <2>4, <2>5
  <2>8. DOMAIN results' = Image /\ \A e \in Image : e # d => results'[e] = results[e]
    BY <1>1, <1>3
  <2>9. \A e \in Image : \/ results'[e] = results[e]
                         \/ results'[e].status = "pass" => Earned(e, results[e].contract)'
    BY <2>7, <2>8
  <2>10. QED
    BY <1>1, <1>3, <2>1, <2>2, <2>6, <2>8, <2>9, CaseStep
<1>4. QED
  BY <1>2, <1>3 DEF _atomic_write_json

LEMMA RunnerStep ==
    ASSUME RunInv, ImportInv, NEW p \in 1 .. Runners, Runner(p) PROVE RunInv'
<1>1. CASE RunStep(p)
  BY <1>1, RunKeyStep, WalkStep, InventoryStep, SubmitStep, SummarizeStep DEF RunStep
<1>2. CASE RunKill(p) \/ \E repeat \in BOOLEAN : RunStart(p, repeat)
  BY <1>2, RunKillStep, RunStartStep
<1>3. CASE \E d \in Image : _execute_case(p, d)
  BY <1>3, ResumeStep, InspectStep, LaunchStep, RunProcessStep, WriteStep DEF _execute_case
<1>4. CASE \E d \in Image : \E chain \in Chains(case[p][d].build, case[p][d].data) :
             _frame_chain(p, d, chain)
  BY <1>4, FrameChainStep
<1>5. QED
  BY <1>1, <1>2, <1>3, <1>4 DEF Runner

\* A step of nobody who runs the corpus: no run and no case moves.
LEMMA BesideRunners ==
    ASSUME RunInv, UNCHANGED <<run, case, summary, log>>, DOMAIN results' = Image,
           \A d \in Image : results'[d] = results[d] \/ results'[d].status # "pass",
           sim' = sim \/ \A q \in 1 .. Runners : run[q].pc # "cases"
    PROVE  RunInv'
<1>1. RunnerTypes'
  BY DEF RunInv, RunnerTypes
<1>2. PassIsEarned'
  BY PassesStay
<1>3. ASSUME NEW q \in 1 .. Runners
      PROVE  (Inventory(q) /\ Contracted(q))' /\ \A d \in Image : Executing(q, d)'
  BY Bystander
<1>4. QED
  BY <1>1, <1>2, <1>3 DEF RunInv

LEMMA RunInit ==
    ASSUME Init PROVE RunInv
<1>1. /\ results = [d \in Image |-> NoResult]
      /\ run = [p \in 1 .. Runners |-> NoRun]
      /\ case = [p \in 1 .. Runners |-> [d \in Image |-> NoCase]]
      /\ summary = [p \in 1 .. Runners |-> NoSummary]
  BY DEF Init
<1>2. /\ DOMAIN NoRun = RunFields /\ NoRun.pc = "idle"
      /\ DOMAIN NoCase = CaseFields /\ NoCase.pc = "none" /\ NoCase.status = "none"
      /\ NoResult.status = "absent" /\ NoSummary.passed = {}
  BY DEF NoRun, RunFields, NoCase, CaseFields, NoResult, NoSummary
<1> HIDE DEF NoRun, NoCase, NoResult, NoSummary
<1>3. RunnerTypes
  BY <1>1, <1>2 DEF RunnerTypes
<1>4. PassIsEarned
  BY <1>1, <1>2 DEF PassIsEarned
<1>5. \A p \in 1 .. Runners : Inventory(p) /\ Contracted(p)
  BY <1>1, <1>2 DEF Inventory, Contracted
<1>6. \A p \in 1 .. Runners : \A d \in Image : Executing(p, d)
  BY <1>1, <1>2 DEF Executing
<1>7. QED
  BY <1>3, <1>4, <1>5, <1>6 DEF RunInv

LEMMA RunNext ==
    ASSUME RunInv, ImportInv, [Next]_vars PROVE RunInv'
<1>1. CASE \E p \in 1 .. Runners : Runner(p)
  BY <1>1, RunnerStep
<1>2. CASE UNCHANGED runVars
  BY <1>2, BesideRunners DEF runVars, RunInv, RunnerTypes
<1>3. CASE User
  <2>1. CASE ChangeArchive \/ ChangeRom
    <3>1. UNCHANGED runVars
      BY <2>1 DEF ChangeArchive, ChangeRom
    <3>2. QED
      BY <1>2, <3>1
  <2>2. CASE ChangeResult
    <3>1. PICK d \in Image : Damage(d)
      BY <2>2 DEF ChangeResult
    <3>2. /\ UNCHANGED <<run, case, summary, log, sim>> /\ DOMAIN results' = Image
          /\ \A e \in Image : results'[e] = results[e] \/ results'[e].status # "pass"
      BY <3>1 DEF Damage, Malformed, RunInv, RunnerTypes
    <3>3. QED
      BY <3>2, BesideRunners
  <2>3. CASE ChangeSimulator
    BY <2>3, BesideRunners DEF ChangeSimulator, Rebuild, RunInv, RunnerTypes
  <2>4. QED
    BY <1>3, <2>1, <2>2, <2>3 DEF User
<1>4. CASE Importer \/ UNCHANGED vars
  BY <1>2, <1>4 DEF Importer, vars
<1>5. QED
  BY <1>1, <1>3, <1>4 DEF Next

\* PassIsEarned: a case that runs is the image of its name, under the build of
\* the contract, because the simulator is not replaced while a run tests; the
\* first of two executions is on record before the second starts; and a result
\* is resumed only under the very contract it was earned for.
THEOREM EveryPassIsEarned == Spec => []PassIsEarned
<1>1. Init => CorpusInv
  BY ImportInit, RunInit DEF CorpusInv
<1>2. CorpusInv /\ [Next]_vars => CorpusInv'
  BY ImportNext, RunNext DEF CorpusInv
<1>3. CorpusInv => PassIsEarned
  BY DEF CorpusInv, RunInv
<1>4. QED
  BY <1>1, <1>2, <1>3, PTL DEF Spec
=============================================================================
