# Swan Song: TLA+ models and proofs

Swan Song is an openFPGA core for Analogue Pocket: a WonderSwan console in
VHDL, the SystemVerilog and Verilog glue that ties it to Pocket's host
processor, memories and scaler (`src/src/fpga/core`), a Chip32 loader script
(`src/src/support/chip32.asm`), and Python tools that build packages and
prepare SD cards (`src/scripts`).

What makes the console itself right is mostly data: instruction results,
pixels, samples. What makes the *core* right is control: several asynchronous
clocks, a host that writes commands whenever it likes, frame buffers that
change hands sixty times a second, and titles that are replaced while things
of the old title are still on their way. And what makes the *tools* right is
what they do when something goes wrong between two of their steps: a killed
process, a lost answer, a full disk, another program that edits a file the tool
has already read. Simulation benches and unit tests walk a few of those orders.
This project states what must hold in all of them, checks it with TLC on small
instances, and proves most of the safety properties with TLAPS for every value
of the constants: any number of banks and frames, of clock domains and payloads,
of titles, of resources and crashes, of files, games, faults and runs.

## 1. Inventory

| Part | State it keeps | Operations | Talks to |
|---|---|---|---|
| Frame bank arbiter (`apf_framebank_arbiter.sv`) | writer, pending and three history banks | reset, frame complete, scanout boundary, both on one edge, deferral, protection | producer (`gpu.vhd`), scanout, orientation guard |
| Frame orientation (`apf_frame_orientation.sv`) | orientation per bank, direct orientation | store at completion, latch at boundary | arbiter, guard |
| Orientation transition guard (`apf_orientation_transition_guard.sv`) | commanded, expected and presented slot, protection, blanking | boundary in buffered and direct mode | arbiter, scaler selector |
| Scaler selector (`apf_scaler_selector.sv`) | crossing, latched slot | crossing, frame start, emission after the frame | guard, Pocket's scaler |
| Applied video settings (`wonderswan.sv`) | applied buffering, priming permission | apply at boundary | settings crossing |
| Bundled crossings (`apf_settings_cdc.sv`, `apf_input_blocked_cdc.sv`, `apf_rtc_cdc.sv`, `apf_save_metadata_cdc.sv`, `apf_rom_plan_cdc.sv`) | held payload, toggles, synchronizers | send, capture, acknowledge, asynchronous reset | every pair of clock domains |
| Command handler (`core_bridge_cmd.v`) | command and target registers, reset level, 008F level | host commands, target command 0140 | Pocket firmware, slot guard, sequencer |
| Slot guard (`apf_dataslot_guard.sv`) | latched request, verdict, release | request, evaluate, acknowledge, release | command handler, slot policy |
| Startup sequencer (`apf_startup_sequencer.sv`) | phase, completion, running status | load, completion, reset changes | the glue in `core_top.v` |
| Start-up glue (`core_top.v`) | RTC delivery, metadata publication, data table | one clock edge | crossings, sequencer, slot guard |
| Loader script (`chip32.asm`) | position in the script | open, stream, close, poll, upload | command handler |
| Save initializers (`pocket_save_init.sv`, `pocket_console_eeprom_init.sv`) | armed, clearing, resolved; word counter | arm, decide, clear | memory clock, sequencer |
| ROM loader adapter, data loader/unloader, RTC save loader | FIFOs, addresses, counters | stream in, flush out | SDRAM mux, host bridge |
| SDRAM mux and controller | grant, open transaction, refresh | request, grant, acknowledge | loader, saves, console |
| Input path | blocked level, fast-forward latch | menu open, key edges | console |
| Savestate v2 owner and devices | ownership FSM, staging, walkers | freeze, stage, commit, abort | not connected in the shipped core |
| Console (`rtl/*.vhd`) | CPU, GPU, sound, DMA, IRQ, EEPROM | instruction, line, sample | memory mux |
| Cloud lab (`swan_song_lab.py`) | state file with IDs and pending creates; the cloud, requests under way, branches | launch, resume, rearm, warm-up, dispatch, destroy | DigitalOcean, GitHub, the runner on the Droplet |
| Hardware QA recorder (`pocket_hardware_qa*.py`, `prepare_hardware_qa_workspace.py`) | inventory, manifest, sidecar of the open case, evidence files | prepare, start, ingest, finish, recover | a human who edits the same files; release assembly reads the manifest |
| SD staging (`stage_pocket_sd.py`) | files of the card, snapshots, parked originals | snapshot, replace, verify, roll back, clean up | card owner's programs |
| Presets and doctor (`pocket_per_game_preset.py`, `swan_song_doctor.py`) | two preset files per game, findings | generate a pair, audit, repair | definitions that staging installed |
| Save migrations (four `migrate_*.py`) | old and new save files | plan, revalidate, publish, roll back | card |
| Connectivity policy (four `quartus_connectivity_*.py`) | policy, allowlist, drafts, tree, report | discover sources, audit, gate, refresh, install | Quartus build, developers |
| Release assembly (`assemble_stable_release.py`, `build_release_evidence.py`, `package_core.py`, auditors) | checkout, artifacts of two builds, QA and known-title campaigns, the reviewed body, output | validate, stage, audit, publish | every producer of its inputs |
| Wiki publication (`wiki_sync.py`, `wiki_publication_check.py`) | source pages, clone, remote history | audit, plan, apply, roll back, push | GitHub wiki, web editors |
| Launch pull request (`prepare_launch_pr.py`) | working tree, index, branch, remote | check, commit, push, open | GitHub, other committers |
| Private corpus (`import_private_corpus.py`, `run_private_corpus.py`) | key, images under opaque names, results, summaries | import, roll back, inventory, run, resume | simulator, archive owner |
| Yokoi firmware (`firmware/`) | serial transfer state | frames, acknowledgements | PC tool |

The hard behaviours:

- **Coincidence.** The console completes about 75 frames a second, scanout
  shows about 60; sooner or later a completion falls on the very clock edge of
  a scanout boundary, and writer, pending and history banks move together.
- **Delay in a loop.** The scaler applies a slot one frame after it is
  commanded. By then the game may have rotated, the player may have changed
  the setting, and a newer frame may wait.
- **Independent clocks.** `clk_74a`, `clk_sys`, `clk_mem` and the video clock
  share no phase, registers at a crossing may sample old or new, and each
  domain leaves reset on its own.
- **Change of title.** Readiness levels, synchronized copies and an
  unanswered command of the old title outlive it by some time.
- **Last assignment wins.** Several `always` blocks write one register on
  several conditions of one edge; the order of the lines is the protocol.
- **Sequences of settings.** Buffering can be switched at every boundary,
  within one console frame when the console is paused.
- **A stop between two writes.** The QA recorder, the cloud lab, the wiki tool
  and the card tools change several things that no single system call covers;
  a kill, a Ctrl-C or an error may fall between any two.
- **Requests without an answer.** A create or a dispatch whose answer was lost
  may have been applied, may be applied later, or never.
- **Inputs that move.** A release, a wiki plan or a pull request is reviewed at
  one time and published at another; files, branches and remotes change in
  between, and most inputs are read more than once.
- **Undo beside other writers.** A rollback must restore what the tool changed
  and leave alone what somebody else has changed since.

What correctness means, part by part: no visible bank is drawn into, frames
are shown whole, in order, of the current title and under the slot of their own
pixels; a crossing delivers what was sent, once, and never a mixture; a title
runs only when everything it needs is its own; nothing waits for ever that
the clocks and the host keep serving; no tool forgets a paid resource, loses a
save or takes back another program's file; and what a tool publishes is exactly
what was tested, audited or listed. PROJECT.json lists the hazards one by
one at the lines where they bite.

## 2. Modules

```
FrameBankArbiter   OrientationGuard        Mailbox  (abstract)
        \             /                        ^ implemented by
        FrameDelivery                     BundledCdc
              |                            /       \
              |                      LevelCdc     CommitCdc
              |                          |           |
              |                    ScalerSelector    |
              |                           \         /
              |                        ClockCrossings
               \                         /
                `----- VideoProofs -----'

StartupSequencer  DataslotGuard
            \          |
             \         | BridgeCommand
              \        |    /
              StartupLifecycle -- StartupProofs

CardFiles -- SdStaging ------------------\
    |------- PresetPair   \               SdCard -- SdCardProofs
    `------- SaveMigration -> Doctor ----/

Lab            QaSession         Connectivity
 |                 |                  |
LabProofs      QaSessionProofs  ConnectivityProofs

ReleaseInputs -> Release   WikiSync   LaunchPr        CorpusLab
                        \     |       /                /     \
                          Publishing        CorpusImport    CorpusRun
                              |                        \     /
                      PublishingProofs                  Corpus -- CorpusProofs
```

Modules whose name begins with `MC` hold only the constants of a TLC instance
(`MCPublishing` also checks its list of versions against `Precedes`);
the hardware models take theirs straight from their `.cfg` files. Definitions
whose comment begins with "Fault", "Mutant" or "The plausible slip" are
deliberately wrong variants of the definition after them. Nothing uses them;
PROJECT.json names them as mutants, each of which one property must reject.

### Frame delivery

`FrameBankArbiter` is the arbiter's clocked block: one operator for each
branch of its `case`, and `choose_free_bank` with its silent fallback to bank 0.
`OrientationGuard` is the guard's boundary edge and its combinational outputs.
`FrameDelivery` wires them as `wonderswan.sv` does, with the orientation stored
per bank and the settings applied at boundaries.

Actions: `DrawTop`, `FrameDone` (lower half plus completion strobe),
`FrameBoundary`, `FrameDoneAtBoundary` (both on one edge), `Rotate`,
`SetDisplay`, `SetBuffering`, `Reset`. A frame is drawn in two halves, the
least that lets a frame be torn. Pixels are replaced by the number of the frame
that drew each half and the orientation it had: the history variable `content`.
`host_slot` models Pocket's scaler (external): the slot commanded during one
scanout frame is applied to the next. `settled` counts boundaries since the
last change of a display setting, up to three. `BlendSource` is what reaches the
blend filter: the history, or bank zero, or nothing while a new title primes
(`direct_or_blank`); `kept_buffered` remembers that buffering has been on since
the last reset.

Two simplifications of time. When buffering is switched off the arbiter clears
on the clock after; nothing reads it in between, so the clear is part of the
switch. After a reset `direct_orientation` takes the live orientation on the
first clock, long before a frame boundary, which is part of `Reset`.

### Clock crossings

`BundledCdc` is the toggle handshake all crossings share, for one source and a
set of destinations. At one instant any non-empty set of clocks may have an
edge. A register that samples a signal changing at that instant takes either
value, and a payload captured while it changes becomes `Torn`. Each domain's
reset release is a counter of its own edges; `reset_n` may drop at any time.

`LevelCdc` adds the discipline of settings, input-blocked and scaler: whenever
idle and different, send. `CommitCdc` adds that of the RTC, save metadata and
ROM plan: a strobe is accepted when idle and rejected when busy; `RisingCommit`
tells the edge-triggered one from those that act on every cycle. Both are shown
to implement `Mailbox`: one payload at a time is posted, each destination reads
exactly that payload once, nothing new is posted before the last has read, and
only a reset discards a payload.
`ScalerSelector` adds the frame-start latch on the video side.

`ClockCrossings` is one crossing of either kind, which `discipline` says: two
crossings share no register, so nothing would be learnt from the product of
their steps. The registers of the other discipline stay as reset leaves them.

### Start-up, shutdown and change of title

`StartupLifecycle` composes the command handler, the slot guard and the
sequencer with the glue of `core_top.v`. Everything clocked by `clk_74a` moves
in one action, `Edge(acks, fit)`, in which every register reads its
neighbours' old values as the hardware does. The other clocks are actions of
their own, and a synchronized level is a copy that catches up at some later
moment (`Synchronize`). The acknowledged crossings are used by the contract
that the crossing modules establish. A save length is represented by the title
it belongs to, so "whose save length is in the data table" is visible.

The environment is Pocket's firmware and the Chip32 script. Three constants
say how Pocket behaves where the repository only relies on it:
`ResetsBeforeLoad` (Reset Enter precedes a change of title), `PromptAnswer`
(0140 is answered before the next title has loaded), `KeepsOrder` (Reset Exit
and the save flush come after 0140 has been answered). The history variable
`tag` records for which title each stage of the 0140 handshake was meant.

`DownloadIsLong`, a guard of `CloseTitle`, is a timing assumption: a cartridge
image has at least 65536 bytes, so the stream lasts thousands of edges of every
clock and whatever was crossing when it began has arrived when it ends. The
loader script may see the image accepted or rejected; how the image is
validated is not modelled. PLL start-up is over in `Init`.

### Cloud lab

`Lab` is `swan_song_lab.py`: one local state file, resources created one call
at a time, and a `pending` record saved before each call. The operator runs one
command at a time; a command is a sequence of steps between which it may be
killed (`Crash`). A create leaves the client as a request `flight`; the servers
apply or refuse it whenever they like, also after the client has given up.
`recover_pending` looks for a resource under the name the state file implies
(`resource_names`): launch derives that name from the commit, `rearm` makes a new
runner name, a workflow run carries the nonce. External: the servers, the hosted
regression, pushes to either branch, the runner's job. `status` and `ssh` change
nothing and are left out. SSH steps either succeed or end the command.

### Hardware QA

`QaSession` holds the workspace, the manifest and the recorder with its sidecar
file. The recorder's commands take a lock; the human who edits manifest and
inventory does not. Every durable effect (link of an evidence file, replacement
of the sidecar, of the manifest, removal of the sidecar) is a step, and
`Crash` may stop a command before any of them; `IngestInterrupted` is the Ctrl-C
after which the cleanup still runs. A digest is the value it
stands for. The verifier is reduced to what the cases need: inventory coverage,
kinds of evidence, artifacts on the disk, no bytes used twice.

### SD card

`CardFiles` is the card: a map from names to files, each with an inode and
contents, an exclusive rename, temporaries under private names, and what a
running tool remembers about each output. Around it act the owner's other
programs (`ForeignSave`, `ForeignEdit`, `ForeignDelete`: any public file at any
time, also one a tool has already read), failing system calls,
Ctrl-C and a crash. `owed` is a history variable: the owner's files no committed
transaction was entitled to discard. `SdStaging`, `PresetPair`, `SaveMigration`
and `Doctor` are the tools' transactions step by step (snapshot, fill and sync a
temporary, park the original, revalidate, rename, verify, undo, clean up).
`SdCard` starts them one after another on any card the owner may hand in.
Of the Doctor's audit `Doctor` has what its repair rests on: the findings on the
two definitions, on games that share a stem, and on presets. A preset of the
owner's making meets the contract or breaks it (`WellMade`), a half-written one
breaks it. The other findings (platform file, bitstream, misplaced or misnamed
files, legacy directories, console and cartridge saves) are reports that decide
nothing else.

### Connectivity policy

`Connectivity` represents a file by the files it names, the warning rows it
gives rise to, and whether it holds a construct the static grammar refuses.
Source discovery works off its two worklists in rounds (`Round`, `Walk`): the
project's own files and the IP files they name, then the constraint files;
`Reaches` says independently what the project needs, as the least set closed
under naming. Developers edit, commit
and build; the audit accepts or rejects the report; the gate admits a build to a
policy refresh; the refresh writes an allowlist and a policy draft, takes the
files of a failed call back one at a time, may die at any step, and the
maintainer installs the drafts one at a time.

### Publishing

`ReleaseInputs` says how each input is judged, including Semantic Version
precedence with its prerelease rules; `Release` is the assembly, one input read
per step, with `Swap` replacing any input or the checkout between two steps.
`WikiSync` is the audit, plan, apply, rollback, commit and push on a clone;
pages are links and anchors. `LaunchPr` is the list check, the wait for the typed
confirmation, branch, stage, commit, push with a lease and the pull request.
`Publishing` puts them in one module with a frozen variable `tool`: none reads
what another one writes, and what the others could do to its inputs is in each
model's environment anyway, so a behaviour is one tool at work.

### Private corpus

`CorpusLab` is the directory the commands share; `CorpusImport` and `CorpusRun`
are the commands; `Corpus` composes them with a user who replaces archives,
images, results and the simulator. An opaque name is a keyed digest, so an
image doubles as its own name. The importer makes its calls on a name one by
one, as the code does: `LinkFile` links (line 435), `Stat` records what is under
the name (440), `Undo` compares (447-448) and `Unlink` unlinks by name (449). So
a file the user saves between the first two is recorded as the import's, and one
saved between the last two is unlinked unseen: `Window` names these moments, the
history variable `raced` the files saved in them. A call that fails on a linked
file leaves it where it is; `stuck` lists these. Several runs may share the lab, each with a pool
of threads; an execution of the simulator produces one of the frame chains its
build can produce, fails, or hangs.

## 3. What TLC checks

| Run | Question | Instance |
|---|---|---|
| `frame_banks` | Is a visible bank never touched, are frames whole, ordered and of this title? | 5 banks, 5 frames, every mode switch, reset and coincidence |
| `frame_slots` | Is every visible frame shown under the slot of its own pixels, and does every completed frame come through? | 2 frames, automatic orientation and fixed portrait, both flips, free rotation, fair scanout |
| `clock_crossings` | Do the crossings implement a mailbox, strobe once, and never lose the last scaler command? | 2 destinations, one of them the video clock; 3 payloads, 3 commits; resets |
| `startup` | Does anything of the first title leak into the second? | 2 titles, a host that sends Reset Exit and flushes at any time |
| `startup_progress` | Does start-up complete? | 1 title |
| `late_answer` | May a late answer to 0140 count for the next title? (Yes: section 6) | 2 titles |
| `lab` | Is a billable resource ever forgotten or asked for twice, is the dispatched run the right one, does destroying end? | a Droplet, a runner, a run; 2 nonces, 2 commits, 1 crash |
| `qa_session` | Is evidence ever lost, or a session closed without its case? | 2 cases, 3 captures, 2 artifacts a kind, 1 edit, 2 interruptions |
| `sd_card` | Is anybody's data lost, is a public name ever half written, is a failure undone, is an installed card healthy? | 2 runs, 2 foreign changes, 2 faults, 3 of these events together |
| `connectivity` | Does an unreviewed warning or source ever pass, and can the policy always be renewed? | project, IP, constraint and HDL files; 3 edits |
| `publishing` | Is what comes out exactly what was tested, audited or listed? | 3 swaps and 2 runs; 3 wiki events; 3 repository events |
| `corpus` | Is a pass earned, is an import all or nothing, are user files kept? | 2 runners and an importer, 2 starts, 1 accident (a change, a kill or a failing call), a steady and a flaky simulator |

**Bounds.** `MaxFrames` bounds frames drawn plus resets. Five frames fill
all five roles at once: three frames of history, one pending, one being drawn.
The proofs of section 5 remove the bound for the safety properties. Slots need
two frames to disagree, and the setting and the flip change freely; fixed
landscape, which the run leaves out, differs from fixed portrait only in which
slot stays constant. Toggles have period two and the source sends a third
payload only after two have been acknowledged, so three payloads and three
commits wrap every toggle. A leak from a title needs two titles; the same cfg
with `MaxTitles = 3` also passes (3.7 million states) and is left out only for
its length. `MaxRtc` is one 0090 for each title; a second one may be rejected
by the busy crossing, which the crossing run covers and which start-up answers by
waiting for another.

`MaxNonce = 2` gives the lab an old and a new runner generation, which is what
a late request needs to be confused; one crash between any two steps is enough
for every recovery, and a second one only repeats recovery. `Infra` has one
resource because the launch loop treats them alike; section 5 proves the three
safety properties for any list. Two interruptions of the QA
recorder interrupt a recovery. On the card, two runs let staging feed presets
and a rerun meet the remnants of a killed one; three events let a foreign change
meet an error and an error in the rollback, and two foreign changes let the owner
remove a file it has saved since the tool parked its original, the one case in
which a rollback may bring the original back to a name the owner has cleared
(1 012 000 states). The connectivity tree has each kind
of file and each kind of reference, and three edits allow one before and one
after a review and one after the build. Three swaps in a release reach a change, a
change back and another change; the wiki's three events are two edits and a
fault. Two runners race for one result file while an import or a user acts.

The hardware runs check for deadlock. The runs of the Python tools do not: tools
end, and then the bounds on runs and events are used up.

**Fairness.** `ScanoutFairness`: pixel counters run off a free-running clock, so
boundaries keep coming. No fairness is put on the console, the game or the
player. `ClockCrossings!FairCrossingSpec` assumes that every clock of the crossing keeps
ticking and that frame starts keep coming. `StartupLifecycle!FairSpec`
assumes that `clk_74a` ticks with the awaited acknowledgements arriving, that
the memory clock, the crossings and the synchronizers complete, that the loader
script goes on, and that Pocket answers 0140. 008F and 0090 need strong
fairness: Pocket may keep polling the status, so the command register is free
again and again but not continuously, and the assumption is that Pocket does not
poll for ever instead of sending them. Reset Exit and Enter, status polls and
flushes have none.

`Lab!FairSpec` assumes that a command that has started goes on or fails, that
the servers decide every request in the end, and, strongly, that an operator who
wants a lab gone keeps calling destroy and that a deletion or a cancellation
that is asked for again and again succeeds some time. Nothing makes the operator
launch, dispatch or push. The other Python models state no fairness: their
properties are about what has happened, not about what will.

## 4. What each property guards

Frame delivery, crossings and start-up:

- `VisibleBankUntouched`, `FramesInOrder`, `HistoryComplete`, `OnlyThisTitle`:
  ownership through coincident edges, the free-bank fallback, mode switches and
  resets that leave pixels in memory. `OnlyThisTitle` says what the code gives:
  buffering queues nothing old; with buffering left on since the reset nothing
  old reaches the filter; in any mode nothing old reaches it once the new title
  has completed a frame. Direct scanout before that frame shows bank zero as the
  last title left it, and so does a switch to buffering made before that frame.
  The property is about the pixels offered to the filter and does not lean on
  the guard, which keeps the frames black in which buffering primes.
- `SlotMatchesFrame`, `DirectNeverMisoriented`: the loop guard, scaler, frame,
  with one frame of delay. `SlotMatchesFrame` holds from the third boundary
  after a change of setting, and two would be too few: one boundary reserves, the
  next commands, the third applies.
- `PendingDelivered`, `DirectRecovers`: protection and deferral starve nobody.
- `CrossingIsMailbox`, `StrobedOnce`, `CommandEmitted`: crossings
  under coinciding edges, metastable samples and resets in the middle of a
  transfer; a scaler command captured on the edge of a frame start.
- `RunsOnlyPreparedTitle`, `StartupIsForThisTitle`, `AckBelongsToTitle`,
  `LoadedSaveKept`: the change of title and the early or late host.
- `StartupFinishes`: Reset Exit holds the only command slot until 0140 is
  answered, so the answer must not depend on a command behind it.

Tools:

- `NothingForgotten`, `NeverAskedTwice`: crashes, lost answers and late
  application of a create; `DispatchedRunIsExact`: a branch that moves between
  the look and the dispatch; `DestroyCompletes`: partial failure of a destroy.
- `EvidenceSound`, `SessionEndsPublished`: a stop between two durable effects, and
  a take-back of a file that another session has recorded.
- `NothingLost`: at every instant of every transaction, up to what its commit
  lets go: the originals it snapshotted. The staging tool knows those by inode, so
  an edit in place between snapshot and parking goes with them (section 6).
  `RollbackRestores`: after
  any failure the tool hears of, every name is as the owner last left it or is
  reported as a conflict; only a name the owner emptied, after it had saved
  something there, may have its parked original back. `PublicNamesWhole`: a
  crash while a file is being written. `InstalledCardIsHealthy`: two tools
  agree about what a complete installation is, and the Doctor calls no preset
  invalid that the preset tool made.
- `AcceptedWasReviewed`: stale policies, half-installed drafts, sources the
  discovery might miss. `RefreshOpen`: the gate, the audit and the refresh do
  not lock each other out. `DraftsPaired`: a crash, an interrupt or a failure
  between two drafts and while they are taken back; drafts of two calls never
  stand side by side. A policy draft can be left without its allowlist in one
  way: `write_proposal` removes the files of a failed call in the order it
  created them, so a call stopped between the two removals leaves the policy
  draft (the ghost `stranded`). Installed alone it is rejected, because it names
  an allowlist by digest that is not there; `AcceptedWasReviewed` includes that.
- `PublishedIsBound`, `ReviewedIsPublished`: inputs swapped while a release is
  assembled. `AuthorizedIsNewer`: the comparison the code computes against the
  order of the Semantic Versioning standard, stated on its own (`Precedes`; the
  run checks `Precedes` in turn against a list in the standard's order). `CloneWhole`, `PushedIsAudited`: faults and leftovers in the wiki clone.
  `PrIsExact`, `OthersWorkKept`: edits, a moving main, a branch of the same name.
- `PassIsEarned`: resumed, raced and stale results. `ImportAllOrNothing`,
  `UserFilesKept`: rollback of an import beside its user, with calls that fail.
  Both say what the code loses: an import that failed may leave a file whose own
  `lstat` or `unlink` failed (`stuck`), and a user's file saved in one of the two
  windows (`raced`) may go. No document of the project promises more.

## 5. What is proved

`BanksDistinct`, `ProtectedIsPending` and `HostFollowsGuard` are invariants the
others rest on; no run lists them since they are proved.
`VideoProofs` proves ten theorems about `FrameDelivery!Spec`, for every
`NumBanks >= 5`, every choice of settings and every `MaxFrames`. The
assumptions are `NumBanksAssumption` and `SettingsAssumption`; TLC evaluates
both. Five banks is the least number that works: three of history, one
pending and one writer.

| Theorem | Statement |
|---|---|
| `TypeCorrect` | `Spec => []TypeOK` |
| `OwnershipSafe` | `Spec => []BanksDistinct` |
| `VisibleNeverOverwritten` | `Spec => VisibleBankUntouched` |
| `WholeFramesShown` | `Spec => []HistoryComplete` |
| `FramesShownInOrder` | `Spec => []FramesInOrder` |
| `TitlesKeptApart` | `Spec => []OnlyThisTitle` |
| `ProtectionHolds` | `Spec => []ProtectedIsPending` |
| `SlotsMatchFrames` | `Spec => []SlotMatchesFrame` |
| `HostAgrees` | `Spec => []HostFollowsGuard` |
| `DirectIsOriented` | `Spec => []DirectNeverMisoriented` |

The argument has three inductive invariants.

- `Ownership` is type correctness plus `Distinct`: `BanksDistinct` without its
  premise. The premise is dropped because the arbiter is cleared, not
  unspecified, while buffering is off, and that is needed on the step that
  switches it on. `FreeBankExists` shows that at most four banks are ever
  excluded, so `choose_free_bank` never takes its fallback.
- `FrameFacts` adds what is in the banks: frame numbers never exceed `frames`,
  the upper half in progress is where the lower one will go or the frame is the
  one cut by the switch, every offered frame is whole and of this title, and
  offered frames are ordered by age. `FreshDrawing` follows the first frame of a
  title, which goes to bank zero in either mode; `KeptBuffered` says that the
  permission to show bank zero while priming only comes with a switch. `OfferedEdge` reduces the arbiter to one
  sentence: only the writer joins the offered banks, and only as it completes.
- `SlotFacts` adds the orientation: the label stored with an offered bank is
  that of its pixels (`Labelled`), what is not blank is shown under the slot it
  was released for (`Released`), and the three stages `Reserved` (one boundary
  after a change of settings), `Commanded` (two) and `Applied` (three). None
  of the stages is inductive alone: each rests on the one before it.
  `BufferedCases` joins the arbiter and the guard into the four things that can
  happen at a buffered boundary; without it each conjunct would have to be
  proved over the product of their cases.

`VideoProofs` is also about `ClockCrossings!CrossingSpec` for every set of destinations
and payloads and any number of transfers. `CrossingsAreMailboxes` is the
refinement, `Spec => CrossingIsMailbox`; `CommitsStrobeOnce` is
`Spec => []StrobedOnce`. The invariant `Handshake` holds of the shared registers
whether they carry commits or follow a level. Its core is `Wave`: a request
goes round source, synchronizer, destination, synchronizer and back, and
whatever follows a register that still holds the old toggle holds the old toggle
too. So a destination can only capture while the source waits, which keeps the
payload stable through every metastable sample, and the source can only send
again when nobody is left to capture. Each step of either kind of crossing is
then a step of the mailbox or a stutter. `Strobes` adds the count: a destination
is one strobe behind exactly while its transfer is on its way.
`VideoAssumption` says that the video clock is one of the destinations.

`StartupProofs` is about `StartupLifecycle!Spec` for any number of titles and
notifications (`BoundsAssumption`). `StartupTypes` is `Spec => []TypeOK`.
`StartupOfThisTitle` (`StartupIsForThisTitle`) and `UploadedSaveKept`
(`LoadedSaveKept`) need no hypothesis about Pocket. Their invariant `TitleInv`
says of each stage what it has forgotten by the time the next may rely on it:
`TurnOK` and `ScriptOK` tell from the script which command is at work;
`LoadOK` that the core has dropped the old title before Pocket reads the answer
to the new one's slot request; `SaveOK` that no 008F level of the old title is
left when the save initializer may start; `SnapshotOK` that the footer snapshot
is in one place at a time and what has arrived is this title's; `StartOK` that a
completed start-up was this title's. `RunsPreparedTitle`
(`RunsOnlyPreparedTitle`) adds `RunOK` and assumes `ResetsBeforeLoad`;
`AckIsForThisTitle` (`AckBelongsToTitle`) adds `HandshakeOK` and assumes
`PromptAnswer`. Both are assumptions on the host, not on the core, and neither
can go: section 6, items 3 and 1, show what happens without them, and what in
the repository speaks for them.

`LabProofs` proves the three safety properties of the `lab` run for every list of
resources without duplicates (`LabAssumption`; `launch` names each kind once)
and any number of generations, commits and crashes:
`NothingIsForgotten` is `Spec => []NothingForgotten`, `NothingAskedTwice` is
`Spec => NeverAskedTwice`, `DispatchIsExact` is `Spec => []DispatchedRunIsExact`. `NothingForgotten` alone is not inductive: when the
servers apply a request the file must already have it pending, and when
`clear_pending` drops the record no second request of that kind may be under
way. The invariant `LabInv` has two halves.

- `Books` relates the file to the cloud. What is live, or carries the present
  nonce even though it is over, is known by ID or as pending (`Recorded`);
  requests under way are pending under the present nonce; what is pending has no
  ID; nothing carries a nonce not yet handed out; and one kind and nonce is one
  resource or one request, never both (`Single`).
- `Progress` says what each stage of a command relies on: its copy of the file
  (`Copies`), that the kind it is about to create and all later ones have never
  been asked for under this nonce (`Asking`), that nothing live is left when
  `rearm` rotates the nonce (`Rearming`), and which kinds `destroy` has seen
  off (`Emptying`; this is where the reverse order and the list without
  duplicates matter).

Most commands change neither half: `PlainStep`, `BesideStep` and the lemmas on
`Exit`, `Abort` and `Stopped` cover them. The work is in `Learnt` (a pending
create becomes an ID, in `clear_pending` and `recover_pending` alike),
`RearmStep`, `DeleteStep` and `ApplyStep`. The third theorem has an invariant of
its own on top of the first, `Exact`: a run always has a commit, so it never
matches a file that records none, and the commit recorded for a candidate is the
prepared one, has passed its hosted regression and lies at or before the head of
main, where no later push can change what that regression came to.

`QaSessionProofs` proves three theorems about the recorder for any finite or
infinite set of cases, captures and artifacts and any number of interruptions:
`TypeCorrect` (`Spec => []TypeOK`), `EvidenceStaysSound`
(`Spec => []EvidenceSound`) and `SessionsEndPublished`
(`Spec => SessionEndsPublished`). The invariant `Evidence` adds to the types
that a session's artifacts are unique together with the published ones
(`Collected`), that published artifacts are on the disk (`OnDisk`), that a file
being copied is new and unpublished, so taking it back harms nothing
(`Ingesting`), and that what is about to be published, or whose sidecar is
about to go, is exactly what the session collected (`Finishing`, `Clearing`).
Without `Finishing` the verification of `finish_case` and the publication that
follows it would be unrelated.

`SdCardProofs` is about `SdCard!Spec`, the card under all four tools, for any
package that names no file twice, any games and titles and any number of foreign
changes, faults, crashes and runs. `CardInvariant` is the inductive
invariant, `OwnersFilesSurvive` is `Spec => []NothingLost`, `PublicFilesWhole` is
`Spec => []PublicNamesWhole`. `NothingLost` says nothing of what a tool is going
to discard, so the invariant has to. `CardInv` is about the card alone: inodes
are unique, a temporary is the tool's, everything else is whole, and a hidden
name carries the number of a run that has begun. `TaskInv` is about the running
tool, program counter by program counter: which hidden names are still free
(`Ahead`), which hold exactly what the tool has recorded as parked (`Behind`),
which temporaries are filled (`Temporaries`), what stands under the rollback
names (`Rollbacks`), and that what is cleaned up was committed (`Committed`).
The staging tool compares inodes, so what it has parked has the inode it read and
any contents (`Parked`), and no temporary ever takes that inode (`Snapshots`).
`InstalledIsHealthy` is `Spec => []InstalledCardIsHealthy` for a package that
carries both definitions, for any games and presets. Its invariant `Healthy`
follows the package through the transaction: what lies before the item at work
has been replaced or was equal, and what the final pass has verified is the
release's unless someone has touched it since, which the property excludes.

`RollbacksRestore` is `Spec => []RollbackRestores`. Its invariant `Restoring` is
about the transactions that owe a restore (`Owing`: not the namespace migrator's,
not one that Ctrl-C has hit, not one that has committed), and says item by item
what a rollback will find under the public name (`CanRestore`): what the owner
left there; or nothing, the owner's file being parked by the step at work; or the
tool's own file, with the owner's parked if there was one; or, while the rollback
holds something aside that is not the tool's, anything at all, because that
either goes back or is reported. An item the rollback has passed is in the
first case. `NotOurs` and `Records` keep the tool's files apart from those the owner has
known, although inode numbers of both are counted in one sequence; `Course` says
that what the tool has not come to, it has not installed. The owner changes files
between any two steps, also under a name the tool holds open, and this is where
the last clause of the property comes from: a file that is parked when its owner
removes the name may come back.

`CorpusProofs` is about `Corpus!Spec` for any archives, images, runners and
bounds. `ImportIsAllOrNothing` (`ImportAllOrNothing`), `UserFilesStay`
(`UserFilesKept`) and `EveryPassIsEarned` (`PassIsEarned`) rest on
`ImportInvariant` and on `RunInv`. In the first, what is staged is a prefix of
the plan, what is linked is a prefix of what is staged, a file that bears the
number of this import is about to be recorded, on the list its rollback works
from, or stuck, and a user's file that is on that list, or about to be unlinked,
was saved in a window. In the second, a
thread that runs the simulator runs it on the image of its case and, before a
second execution, has recorded the first; so a result that another run
has raced, or an earlier one has left, still has its executions in the log.

`PublishingProofs` is about `Publishing!Spec`, one invariant for each of the three
tools, which share no state. `PrInv`: what has been checked (staged paths, the
commit) is not touched before the next step uses it, although files, main and
the tracking branch move; it gives `PullRequestIsExact` and `OthersAreSafe`.
`ReleaseInv` (`RunHolds`): each check ties one more private copy to those
before it, so `ReleaseIsBound` and `BodyIsReviewed` do not depend on anything
that is swapped outside. `WikiInv`: a run changes the clone only within its plan,
and the plan remembers the base's text of every page it touches; it gives
`CloneStaysWhole` and `OnlyAuditedIsPushed`.

`ConnectivityProofs` is about `Connectivity!Spec` for any finite project, any
contents of its files and any number of edits (`ProjectAssumption`: files are of
the four kinds and name files of the project, and a source names none, because
what it would include is something the grammar refuses). `ClosureExact` is about the discovery alone: when it succeeds it returns exactly `Reaches`, and
all of that is there. `WalkReads` is its core: a round that adds nothing is the
last, so as many rounds as there are files work off any worklist, and what has
been read is the least set closed under the references followed. `AgreeingReach`
then says that two trees which agree on one's closure have the same closure: the
digests a policy binds pin the list of files too, so no source can be added
without changing a bound one. The invariant `ConnectivityInv` keeps, through edits,
builds, crashes and drafts installed one at a time: a V2 policy, installed, in a
draft or being written, has the bindings and the rows of the commit it names
(`PoliciesRecorded`); an allowlist, in any of these places, lists only rows
somebody has reviewed (`AllowlistsReviewed`); a report has the rows of the commit
it names, and that commit could be built (`Reported`); and a policy draft is
begun only when its allowlist stands complete (`Written`). With `DraftsPaired` it
is inductive, and gives `AcceptedIsReviewed`,
`RefreshStaysOpen` and `DraftsStayPaired`.

The provers cannot instantiate an induction theorem that takes an operator, so
`ConnectivityProofs` and `PublishingProofs` derive from the well-ordering of the
numbers what they need of it: induction for a set of numbers (`Induction`) and,
for the walk, recursion for a function on a set (`Recursion`).

Each proof module uses the assumptions on constants that the module it extends
names, and TLC evaluates all of them in the runs: `LabFiles`, `LabBounds`,
`MisfitsRejected` (what the simulator's header check refuses is not an image)
and `ArchiveFiles` for the corpus, `WikiPages` for the wiki, `PackageFiles`,
`RomList`, `TitleList` and `CardBounds` for the card, `ProjectAssumption` for the
connectivity policy, `VersionAssumption` for the release.

Model-checked only:

- Liveness (`PendingDelivered`, `DirectRecovers`, `CommandEmitted`,
  `StartupFinishes`, `DestroyCompletes`): fairness and ENABLED are outside what
  the prover does.

Every other property of a passing run is also the statement of a theorem.

## 6. Where documents and code disagree

1. **Late answer** (`late_answer`). `core_bridge_cmd.v:223-224` says that a
   lifecycle never consumes the previous title's 0140 acknowledgement. The state
   that waits for the answer stays armed across a change of title. An answer
   that arrives after the new title's start-up is complete counts for it. The
   `startup` run shows that an answer before the new title has loaded is enough
   to exclude this.
2. **First buffered frame.** The repository's README, lines 83-84, promises
   complete frames from the first completed buffered frame on. If buffering is
   switched off and on again at boundaries within one console frame, that frame's
   halves lie in two banks, its completion publishes it all the same, and it is
   shown. It takes a paused console or a short sequence of settings, and one
   frame is affected. `HistoryComplete` states what does hold.
3. **Execution gate.** The sequencer's header says that execution remains gated
   until start-up is complete, but `core_run_enable` has no reader
   (`wonderswan.sv:524` resets the console by the host's level and the
   download). With `ResetsBeforeLoad = FALSE` TLC finds a title running ahead of
   its start-up. `data.json` asks for, and `docs/wiki/Playing-Games.md`
   describes, a full restart on a change of title. The `startup` run shows that the restart is enough.
4. **Rollback after any write.** A comment at `stage_pocket_sd.py:2043` speaks of
   a complete rollback after any write. An error is rolled back; a kill, or a
   Ctrl-C between a rename and the line that records it, leaves hidden remnants
   or a replacement nobody records. The owner's data is still on the card
   (`NothingLost`), but under a private name.
5. **Source changes after the plan.** `BUILDING.md:520-522` says that the wiki tool
   rejects any source change after the plan. The digests are compared before the
   copy, and `wiki_sync.py:528` then reads each page again without comparing:
   an edit between the two is published. `PushedIsAudited` is stated for runs
   during which nobody edited the source.
6. **Changed after snapshot.** `stage_pocket_sd.py:1740` refuses
   to replace a file with the words "managed destination changed after snapshot",
   but the comparison above it looks at the inode only. A file edited in place
   after its snapshot is parked as the original, replaced, and discarded when the
   transaction commits. With `Superseded` in `SdStaging` stated over contents
   instead of inodes TLC finds `NothingLost` violated; as it stands it says what
   does hold. The preset tool and both rollbacks compare contents too.

## 7. Not modelled

- Console CPU, GPU, sound, colour and blend arithmetic: data paths, far beyond
  enumeration; only the completion of a frame is used.
- The word loops of the save initializers: the decision to blank or to keep is
  modelled, and clearing is one step.
- The 31-clock drain after Reset Enter: it is about clock ratios; in
  `StartupLifecycle` "quiet long enough" is an input of the slot policy.
- Menu, dock, display-mode and savestate commands of the bridge: they touch none
  of the state modelled here.
- The legacy savestate path is compiled out, and the frame-delivery experiments
  are not instantiated.
- ROM loader, SDRAM channel, data loader and unloader, RTC, input path and
  savestate v2: planned (section 8).
- Yokoi firmware and its PC tool, the known-title workspace (one exclusive
  publication, like the QA workspace), simulation benches, generators and
  verifiers.

Left out of the modules there are, and so not covered by their properties:

- *Card.* Writes through a handle that another program keeps open after the file
  has been moved aside. Findings of the Doctor that no repair depends on.
- *Release.* The release policy and the known-title catalogue are not compared
  with the commit's blobs when the release is staged, only through the checks
  of the checkout. Report syntax and archive layout are not modelled.
- *Wiki and pull request.* Nobody else works in the wiki clone while a run is
  on. Remote identity, URL rewriting and rename detection of `git diff` are not
  modelled. The base commit named in the body of a pull request is out of date
  if another program fetches during the prompt; `PrIsExact` speaks of the tree,
  not the text.
- *Corpus.* The simulator is hashed once per run, so a rebuild while cases run
  is not noticed; `Rebuild` waits until no run has cases. The number of frames of
  a run and the modes of files are not modelled.
- *Connectivity.* `RefreshOpen` speaks of V2 policies: a V1 policy binds only the
  files it lists. The text of HDL is what it references.

## 8. Plan

In order of importance:

1. `ShutdownFlush`: Reset Enter, the drain and the flush with clock ratios, to
   show that no console write follows the first word read.
2. `SaveInit`: the word loops and the console EEPROM image, at their widths,
   racing the upload of slots 12 and 13.
3. `SdramChannel`: the channel-1 mux and the arbiter, with an abstract
   memory that each requester sees as its own.
4. `RomLoader`: right-aligned fill, validation and plan activation, refining
   the image verdict that `StartupLifecycle` leaves open.
5. `SavestateOwner`: ownership with abort and fault at every step, the pause
   gate, the settle guard and the staging walkers.
6. Input guard, fast forward and menu commands; DMA, interrupts and EEPROM of
   the console.
7. Yokoi firmware: the serial transfer with its acknowledgements.
