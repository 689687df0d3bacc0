---------------------------- MODULE MCQaSession ----------------------------
EXTENDS QaSession
CONSTANTS c1, c2, b1, b2, x, y
MCSources == {[kind |-> "video", bytes |-> x, id |-> 1],
              [kind |-> "video", bytes |-> x, id |-> 2],
              [kind |-> "save", bytes |-> y, id |-> 3]}
MCNeeds == [c \in Cases |-> IF c = c1 THEN {"video"} ELSE {"save"}]
=============================================================================
