------------------------------- MODULE MCSdCard -------------------------------
(* A small card: two managed definitions, two games, and titles of three   *)
(* save types, one of them with a clock.                                    *)
EXTENDS SdCard

MCManaged == << <<"core", "interact">>, <<"core", "input">> >>
MCRoms == <<[stem |-> "g", whole |-> TRUE], [stem |-> "h", whole |-> TRUE]>>
MCTitles == <<"sram", "eeprom", "plain">>
MCSaveType == [t \in Members(MCTitles) |->
                 CASE t = "sram" -> 1 [] t = "eeprom" -> 16 [] OTHER -> 2]
MCWellMade == {k \in 1 .. 40 : k % 2 = 0}
MCHasRtc == [t \in Members(MCTitles) |-> t = "eeprom"]
=============================================================================
