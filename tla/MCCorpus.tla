------------------------------- MODULE MCCorpus -------------------------------
(* Three images: one of plain size, one that needs a mapper window of the   *)
(* next power of two, and one whose declared size fits neither; and two     *)
(* builds of the simulator, one of which may draw other frames each time.   *)
EXTENDS Corpus

MCImages == <<"plain", "window">>
MCFooter(d) ==
  [banks |-> IF d = "plain" THEN 8 ELSE 48, declared |-> IF d = "window" THEN 64 ELSE 8,
   variant |-> IF d = "plain" THEN "mono" ELSE "color", fields |-> TRUE, checksum |-> TRUE]
MCArchives == <<"z1", "z2">>
Holding(n, d) == [members |-> n, image |-> d]
MCBodies == {Holding(1, "window"), Holding(1, "odd"), Holding(2, "plain")}
Lab(k, plain, window, first, second, build) ==
  [key |-> k, roms |-> [plain |-> plain, window |-> window],
   zips |-> [z1 |-> Holding(1, first), z2 |-> Holding(1, second)], sim |-> build]
MCLabs == {Lab("absent", Nothing, Nothing, "plain", "window", "steady"),
           Lab("absent", Nothing, Nothing, "window", "window", "flaky"),
           Lab("whole", "plain", Nothing, "window", "plain", "steady"),
           Lab("whole", "window", "window", "plain", "window", "flaky")}
MCChains(build, image) == IF build = "flaky" THEN {"x", "y"} ELSE {"x"}
===============================================================================
