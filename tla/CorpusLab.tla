------------------------------ MODULE CorpusLab ------------------------------
(***************************************************************************)
(* The private test lab shared by the corpus importer and the corpus       *)
(* runner: the secret key, the cartridge images under their opaque names,  *)
(* and the source archives and the simulator, which belong to the user.    *)
(*                                                                         *)
(* An image is known by its bytes; its opaque name is a keyed digest of    *)
(* them, so an image doubles as its own name.  A file remembers who made   *)
(* it: the number of an import, 0 for a file that was there, and -k for    *)
(* one of the user's k-th change.  An import creates a name at most once,  *)
(* so that number and the name stand for the inode.                        *)
(***************************************************************************)
EXTENDS Integers, Sequences, FiniteSets, SequencesExt

CONSTANTS
  Nothing,      \* no file
  Images,       \* images in the order of their opaque names
  Misfits,      \* files that are not images the core can run
  Labs,         \* the labs to start from: roms, key, zips, sim
  Footer(_),    \* for each image its size and what its footer says
  MaxStarts,    \* bound on the commands started
  MaxAccidents  \* bound on the changes made by the user, the commands killed
                \* and the calls failing on a file the importer linked

ASSUME LabBounds == {MaxStarts, MaxAccidents} \subseteq Nat
ASSUME LabFiles ==
  /\ Images \in Seq(ToSet(Images))
  /\ \A lab \in Labs : lab.roms \in [ToSet(Images) -> ToSet(Images) \cup Misfits \cup {Nothing}]

VARIABLES
  roms,   \* for each opaque name the file under it
  key,    \* the secret key: "absent", "short" or "whole"
  spent   \* starts, changes by the user, kills and failing calls so far

labVars == <<roms, key, spent>>

Image == ToSet(Images)
File(d, n) == [data |-> d, by |-> n, edited |-> FALSE]
Users(file) == file # Nothing /\ file.by <= 0
Starting == spent.starts < MaxStarts /\ spent' = [spent EXCEPT !.starts = @ + 1]
Accident(what) == spent.change + spent.kill + spent.fail < MaxAccidents /\ spent' = [spent EXCEPT ![what] = @ + 1]

-----------------------------------------------------------------------------
(* An image is a whole number of 64 KiB banks between one bank and 16 MiB.  *)
(* One whose size is not a power of two must declare its size or that of    *)
(* the mapper window it is put in, and the window must exist.               *)
MaxBanks == 256
DeclaredBanks == {2, 4, 8, 16, 32, 48, 64, 96, 128, 256}
Powers == {2 ^ k : k \in 0 .. 9}
_next_power_of_two(n) == CHOOSE p \in Powers : p >= n /\ \A q \in Powers : q >= n => p <= q

inspect_rom_bytes(d) ==
  LET f == Footer(d) IN
  /\ f.banks \in 1 .. MaxBanks
  /\ f.fields /\ f.checksum
  /\ f.declared \in DeclaredBanks
  /\ \/ f.banks \in Powers
     \/ /\ f.declared \in {f.banks, _next_power_of_two(f.banks)}
        /\ _next_power_of_two(f.banks) <= MaxBanks

ASSUME MisfitsRejected == \A d \in Misfits : ~inspect_rom_bytes(d)

inspect_rom(file) == file # Nothing /\ inspect_rom_bytes(file.data)

-----------------------------------------------------------------------------
(* The first command to find no key creates one, in two steps: the empty    *)
(* file exclusively, then its 32 bytes.  A command that meets a key of any  *)
(* other size stops.                                                        *)
CreateKey(pc) == pc = "key" /\ key = "absent" /\ key' = "short"
WriteKey(pc) == pc = "write_key" /\ key' = "whole"

load_or_create_key(pc, next) ==
  \/ CreateKey(pc) /\ next = "write_key"
  \/ WriteKey(pc) /\ next = "scan"
  \/ pc = "key" /\ key = "whole" /\ next = "scan" /\ UNCHANGED key
  \/ pc = "key" /\ key = "short" /\ next = "idle" /\ UNCHANGED key

-----------------------------------------------------------------------------
(* The user saves a new file under a name, edits an imported file in place, *)
(* which keeps its inode, or removes a file.  Editing a file of their own   *)
(* is to every reader what saving a new one is.                             *)
Saved == -(spent.change + 1)
PutRom(n, d) == roms' = [roms EXCEPT ![n] = File(d, Saved)]
EditRom(n, d) ==
  /\ roms[n] # Nothing /\ ~Users(roms[n]) /\ roms[n].data # d
  /\ roms' = [roms EXCEPT ![n].data = d, ![n].edited = TRUE]
RemoveRom(n) == roms[n] # Nothing /\ roms' = [roms EXCEPT ![n] = Nothing]
=============================================================================
