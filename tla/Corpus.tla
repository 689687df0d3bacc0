-------------------------------- MODULE Corpus --------------------------------
(***************************************************************************)
(* The importer and the runners at work in one lab, with a user who may    *)
(* change the archives, the images, the results and the simulator.         *)
(***************************************************************************)
EXTENDS CorpusImport, CorpusRun

vars == <<labVars, importVars, runVars>>

Init ==
  /\ \E lab \in Labs :
       /\ roms = [n \in Image |-> IF lab.roms[n] = Nothing THEN Nothing ELSE File(lab.roms[n], 0)]
       /\ key = lab.key /\ zips = lab.zips /\ sim = lab.sim
  /\ spent = [starts |-> 0, change |-> 0, kill |-> 0, fail |-> 0]
  /\ imp = [Fresh(0, FALSE) EXCEPT !.pc = "idle"] /\ raced = {}
  /\ results = [d \in Image |-> NoResult]
  /\ run = [p \in 1 .. Runners |-> NoRun]
  /\ case = [p \in 1 .. Runners |-> [d \in Image |-> NoCase]]
  /\ summary = [p \in 1 .. Runners |-> NoSummary]
  /\ log = {}

Importer == (ImportStep \/ (\E apply \in BOOLEAN : ImportStart(apply)) \/ ImportKill) /\ UNCHANGED runVars

Runner(p) ==
  /\ \/ RunStep(p) \/ RunKill(p) \/ \E repeat \in BOOLEAN : RunStart(p, repeat)
     \/ \E d \in Image : \/ _execute_case(p, d)
                         \/ \E chain \in Chains(case[p][d].build, case[p][d].data) : _frame_chain(p, d, chain)
  /\ UNCHANGED importVars

(* While no command is running, a change of the files gives one of the labs *)
(* to start from.                                                           *)
Quiet == imp.pc = "idle" /\ \A p \in 1 .. Runners : run[p].pc = "idle"
ChangeArchive == \E a \in ToSet(Archives), body \in Bodies \cup {Nothing} :
                   imp.pc # "idle" /\ SwapArchive(a, body) /\ UNCHANGED runVars
ChangeRom == \E n \in Image : ChangeFile(n) /\ UNCHANGED runVars
ChangeResult == \E d \in Image : Damage(d) /\ UNCHANGED importVars
ChangeSimulator == \E s \in Simulators : Rebuild(s) /\ UNCHANGED importVars
User ==
  /\ Accident("change")
  /\ \/ ~Quiet /\ (ChangeArchive \/ ChangeRom \/ ChangeResult)
     \/ ChangeSimulator

Next == Importer \/ (\E p \in 1 .. Runners : Runner(p)) \/ User

Spec == Init /\ [][Next]_vars

-----------------------------------------------------------------------------
(* A pass is earned: whenever a result file or a summary calls an image     *)
(* passing under a contract, one run executed exactly that image with the   *)
(* build of the contract as often as the contract asks, and got the same    *)
(* frames each time.  Runs resume each other's results, race for the same   *)
(* result file, are killed, and find images replaced since their inventory. *)
Earned(d, contract) ==
  \E e \in log :
    /\ e.image = d /\ e.build = contract.build
    /\ contract.repeat => \E f \in log : f = [e EXCEPT !.attempt = 3 - @]
PassIsEarned ==
  /\ \A d \in Image : results[d].status = "pass" => Earned(d, results[d].contract)
  /\ \A p \in 1 .. Runners : \A d \in summary[p].passed : Earned(d, summary[p].contract)

(* An import is all or nothing: whatever changes under it, an import that   *)
(* was rejected, failed or only reported leaves none of its files, except   *)
(* one that the system would not let it look at or unlink; and a file an    *)
(* import put under an opaque name holds the image of that name, until the  *)
(* user edits it.                                                           *)
ImportAllOrNothing ==
  \A n \in Image : roms[n] # Nothing /\ ~Users(roms[n]) =>
    /\ roms[n].edited \/ roms[n].data = n
    /\ roms[n].by = imp.no /\ imp.pc = "idle" =>
         imp.outcome \in {"imported", "killed"} \/ n \in imp.stuck

(* The tools replace or remove no file the user saved in the corpus, not    *)
(* even when an import is rolled back, except one saved under a name the    *)
(* import has just linked and not yet looked at, or has just checked and    *)
(* is about to unlink; what the user writes into a file the import linked   *)
(* goes with that file.                                                     *)
UserFilesKept ==
  [][\A n \in Image : Users(roms[n]) /\ roms[n].by \notin raced /\ roms'[n] # roms[n]
       => spent'.change = spent.change + 1]_vars
=============================================================================
