----------------------------- MODULE Mailbox ------------------------------
(***************************************************************************)
(* What the bundled-data clock crossings promise, with the clocks and the  *)
(* handshake abstracted away: one payload at a time is posted to all its   *)
(* readers, each reads exactly that payload once, and nothing new is       *)
(* posted before the last reader has read.                                 *)
(***************************************************************************)
CONSTANTS Destinations, Payloads, Default

VARIABLES
    mail,       \* the payload last posted
    unread,     \* destinations that have not read it yet
    delivered   \* the payload each destination holds

mailboxVars == << mail, unread, delivered >>

Init ==
    /\ mail = Default
    /\ unread = {}
    /\ delivered = [d \in Destinations |-> Default]

Post(v) ==
    /\ unread = {}
    /\ mail' = v
    /\ unread' = Destinations
    /\ UNCHANGED delivered

\* Several readers may read at the same instant.
Read(readers) ==
    /\ unread' = unread \ readers
    /\ delivered' = [d \in Destinations |->
                       IF d \in readers THEN mail ELSE delivered[d]]
    /\ UNCHANGED mail

\* A reset discards a payload that is still under way.
Discard ==
    /\ mail' = Default
    /\ unread' = {}
    /\ delivered' = [d \in Destinations |-> Default]

Next ==
    \/ \E v \in Payloads : Post(v)
    \/ \E readers \in SUBSET unread : Read(readers)
    \/ Discard

Spec == Init /\ [][Next]_mailboxVars
===========================================================================
