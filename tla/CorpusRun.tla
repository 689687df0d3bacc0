------------------------------ MODULE CorpusRun ------------------------------
(***************************************************************************)
(* Smoke-testing the corpus (run_private_corpus.py).  A run takes an       *)
(* inventory and a contract, then tests every case in a pool of threads:   *)
(* a passing result under the same contract is resumed, anything else is   *)
(* run, twice when the run repeats.  Several runs may share the lab.       *)
(*                                                                         *)
(* The simulator is external: an execution produces one of the frame       *)
(* chains its build can produce for the image, fails, or never ends.       *)
(***************************************************************************)
EXTENDS CorpusLab

CONSTANTS
  Runners,       \* how many runs there may be at a time
  Simulators,    \* builds of the simulator
  Chains(_, _),  \* the frame chains a build may produce from an image
  Workers        \* threads of a run

VARIABLES
  sim,       \* the build installed
  results,   \* for each image its result file: contract and status
  run,       \* for each runner its progress
  case,      \* for each runner and image the thread testing it
  summary,   \* for each runner its last summary: contract, cases, failures
  log        \* history: the executions of the simulator that produced frames

runVars == <<sim, results, run, case, summary, log>>

NoResult == [contract |-> Nothing, status |-> "absent"]
Malformed == [contract |-> Nothing, status |-> "malformed"]
NoCase == [pc |-> "none", data |-> Nothing, build |-> Nothing, attempt |-> 0, chain |-> Nothing, status |-> "none"]
NoRun == [pc |-> "idle", no |-> 0, repeat |-> FALSE, path |-> << >>, rejected |-> FALSE, contract |-> Nothing]
NoSummary == [contract |-> Nothing, passed |-> {}, failed |-> 0]

CaseAt(p, d, from) == run[p].pc = "cases" /\ case[p][d].pc = from
Case(p, d, next) == case' = [case EXCEPT ![p][d] = next]
Cases(p) == DOMAIN run[p].path

-----------------------------------------------------------------------------
(* Key, inventory, contract.                                                *)

RunStart(p, repeat) ==
  /\ run[p].pc = "idle" /\ Starting
  /\ \A o \in 1 .. p - 1 : run[o].pc # "idle"   \* a run takes the first free number
  /\ run' = [run EXCEPT ![p] = [NoRun EXCEPT !.pc = "key", !.no = spent.starts + 1, !.repeat = repeat]]
  /\ case' = [case EXCEPT ![p] = [d \in Image |-> NoCase]]
  /\ UNCHANGED <<roms, key, sim, results, summary, log>>

RunKey(p) ==
  /\ \E next \in {"write_key", "scan", "idle"} :
       load_or_create_key(run[p].pc, next) /\ run' = [run EXCEPT ![p].pc = next]
  /\ UNCHANGED <<roms, spent, sim, results, case, summary, log>>

(* Identical images are one case, found under the first of their names; a   *)
(* file that is not an image is a rejection.                                *)
Found == {roms[n].data : n \in {m \in Image : inspect_rom(roms[m])}}
FirstName(d) == SelectSeq(Images, LAMBDA n : roms[n] # Nothing /\ roms[n].data = d)[1]
_walk_rom_tree(p) ==
  /\ run[p].pc = "scan"
  /\ run' = [run EXCEPT ![p].pc = "contract",
                        ![p].path = [d \in Found |-> FirstName(d)],
                        ![p].rejected = \E n \in Image : roms[n] # Nothing /\ ~inspect_rom(roms[n])]
  /\ UNCHANGED <<roms, key, spent, sim, results, case, summary, log>>

(* A dry run and a lab without a simulator end with the inventory.          *)
InventoryOnly(p) ==
  /\ run[p].pc = "contract" /\ run' = [run EXCEPT ![p] = NoRun]
  /\ UNCHANGED <<roms, key, spent, sim, results, case, summary, log>>

(* The contract binds the build installed now, the boot code variants of    *)
(* the whole inventory, and the options.                                    *)
_validate_simulator == sim
Contract(p) ==
  [build |-> _validate_simulator, variants |-> {Footer(d).variant : d \in Cases(p)}, repeat |-> run[p].repeat]

Submit(p) ==
  /\ run[p].pc = "contract"
  /\ run' = [run EXCEPT ![p].pc = "cases", ![p].contract = Contract(p)]
  /\ case' = [case EXCEPT ![p] = [d \in Image |-> IF d \in Cases(p) THEN [NoCase EXCEPT !.pc = "queued"] ELSE NoCase]]
  /\ UNCHANGED <<roms, key, spent, sim, results, summary, log>>

-----------------------------------------------------------------------------
(* One case.                                                                *)

NextQueued(p) == SelectSeq(Images, LAMBDA d : case[p][d].pc = "queued")[1]
Busy(p) == {d \in Image : case[p][d].pc \notin {"none", "queued", "done"}}
Done(c, status) == [c EXCEPT !.pc = "done", !.status = status]
ToWrite(c, status) == [c EXCEPT !.pc = "write", !.status = status]

_resume_any(d, contract) ==
  IF results[d].status = "malformed" THEN "invalid"
  ELSE IF results[d].status = "pass" THEN "resume" ELSE "run"
_load_resume(d, contract) ==
  IF results[d].status = "malformed" THEN "invalid"
  ELSE IF results[d].contract = contract /\ results[d].status = "pass" THEN "resume" ELSE "run"

Resume(p, d) ==
  /\ CaseAt(p, d, "queued") /\ d = NextQueued(p) /\ Cardinality(Busy(p)) < Workers
  /\ LET c == case[p][d]
         r == _load_resume(d, run[p].contract)
     IN  Case(p, d, CASE r = "invalid" -> Done(c, "fail")
                      [] r = "resume" -> Done(c, "pass")
                      [] r = "run" -> [c EXCEPT !.pc = "inspect"])
  /\ UNCHANGED <<roms, key, spent, sim, results, run, summary, log>>

(* The file is read again and must still be the image of the inventory; the *)
(* bytes read here are the ones run.                                        *)
SameRom(file, d) == inspect_rom(file) /\ file.data = d
Inspect(p, d) ==
  /\ CaseAt(p, d, "inspect")
  /\ LET c == case[p][d]
         file == roms[run[p].path[d]]
     IN  Case(p, d, IF SameRom(file, d)
                    THEN [c EXCEPT !.pc = "launch", !.data = file.data, !.attempt = 1]
                    ELSE ToWrite(c, "fail"))
  /\ UNCHANGED <<roms, key, spent, sim, results, run, summary, log>>

Launch(p, d) ==
  /\ CaseAt(p, d, "launch")
  /\ Case(p, d, [case[p][d] EXCEPT !.pc = "running", !.build = sim])
  /\ UNCHANGED <<roms, key, spent, sim, results, run, summary, log>>

(* The frames are all there and whole.  The first pass is repeated when the *)
(* run repeats, and the two must agree.                                     *)
AfterFrames(c, chain, repeat) ==
  IF repeat /\ c.attempt = 1 THEN [c EXCEPT !.pc = "launch", !.attempt = 2, !.chain = chain]
  ELSE IF repeat /\ c.chain # chain THEN ToWrite(c, "fail")
  ELSE ToWrite(c, "pass")

_frame_chain(p, d, chain) ==
  /\ CaseAt(p, d, "running")
  /\ LET c == case[p][d] IN
     /\ chain \in Chains(c.build, c.data)
     /\ Case(p, d, AfterFrames(c, chain, run[p].repeat))
     /\ log' = log \cup {[no |-> run[p].no, image |-> c.data, build |-> c.build,
                          attempt |-> c.attempt, chain |-> chain]}
  /\ UNCHANGED <<roms, key, spent, sim, results, run, summary>>

(* The process cannot be started, exits with an error, leaves a wrong set   *)
(* of frames, or is killed when its time is up.                             *)
_run_process(p, d) ==
  /\ CaseAt(p, d, "running")
  /\ Case(p, d, ToWrite(case[p][d], "fail"))
  /\ UNCHANGED <<roms, key, spent, sim, results, run, summary, log>>

(* The result replaces the file; a write that fails is a failing case.      *)
_atomic_write_json(p, d) ==
  /\ CaseAt(p, d, "write")
  /\ \/ /\ results' = [results EXCEPT ![d] = [contract |-> run[p].contract, status |-> case[p][d].status]]
        /\ Case(p, d, [case[p][d] EXCEPT !.pc = "done"])
     \/ Case(p, d, Done(case[p][d], "fail")) /\ UNCHANGED results
  /\ UNCHANGED <<roms, key, spent, sim, run, summary, log>>

_execute_case(p, d) == \/ Resume(p, d) \/ Inspect(p, d) \/ Launch(p, d) \/ _run_process(p, d) \/ _atomic_write_json(p, d)

-----------------------------------------------------------------------------
Passed(p) == {d \in Cases(p) : case[p][d].status = "pass"}

Summarize(p) ==
  /\ run[p].pc = "cases" /\ \A d \in Cases(p) : case[p][d].pc = "done"
  /\ run' = [run EXCEPT ![p] = NoRun]
  /\ summary' = [summary EXCEPT ![p] =
                   [contract |-> run[p].contract, passed |-> Passed(p),
                    failed |-> Cardinality(Cases(p) \ Passed(p)) + (IF run[p].rejected THEN 1 ELSE 0)]]
  /\ case' = [case EXCEPT ![p] = [d \in Image |-> NoCase]]
  /\ UNCHANGED <<roms, key, spent, sim, results, log>>

RunStep(p) == \/ RunKey(p) \/ _walk_rom_tree(p) \/ InventoryOnly(p) \/ Submit(p) \/ Summarize(p)

RunKill(p) ==
  /\ run[p].pc # "idle" /\ Accident("kill")
  /\ run' = [run EXCEPT ![p] = NoRun]
  /\ case' = [case EXCEPT ![p] = [d \in Image |-> NoCase]]
  /\ UNCHANGED <<roms, key, sim, results, summary, log>>

(* The simulator is rebuilt while no run is using it; a result file is      *)
(* damaged.                                                                 *)
Rebuild(s) ==
  /\ sim # s /\ \A p \in 1 .. Runners : run[p].pc # "cases"
  /\ sim' = s
  /\ UNCHANGED <<roms, key, results, run, case, summary, log>>
Damage(d) ==
  /\ results[d].status \in {"pass", "fail"} /\ results' = [results EXCEPT ![d] = Malformed]
  /\ UNCHANGED <<roms, key, sim, run, case, summary, log>>
=============================================================================
