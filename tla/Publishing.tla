----------------------------- MODULE Publishing -----------------------------
(***************************************************************************)
(* The tools a maintainer publishes with: the stable release, the wiki,    *)
(* the launch pull request.  None of them reads what another one writes,   *)
(* and all that a tool run beside it could do to its inputs (edit the      *)
(* checkout, switch its branch, move a remote) is among the changes each   *)
(* model lets anybody make, so a behaviour is one tool at work.            *)
(***************************************************************************)
EXTENDS Release, WikiSync, LaunchPr

VARIABLE tool       \* "release", "wiki" or "pr"

publishingVars == <<tool, releaseVars, wikiVars, prVars>>

(* Tools that are not at work have just one state. *)
Init ==
  /\ tool \in {"release", "wiki", "pr"}
  /\ ReleaseInit /\ (tool # "release" => commit = CHOOSE c \in DOMAIN World : TRUE)
  /\ WikiInit /\ PrInit

Next ==
  \/ tool = "release" /\ ReleaseNext /\ UNCHANGED <<tool, wikiVars, prVars>>
  \/ \E field \in DOMAIN Values : \E value \in Values[field] :
       tool = "release" /\ Swap(field, value) /\ UNCHANGED <<tool, wikiVars, prVars>>
  \/ tool = "wiki" /\ WikiNext /\ UNCHANGED <<tool, releaseVars, prVars>>
  \/ tool = "pr" /\ PrNext /\ UNCHANGED <<tool, releaseVars, wikiVars>>

Spec == Init /\ [][Next]_publishingVars

-----------------------------------------------------------------------------
(* What others have put on GitHub stays: the wiki's history is only added    *)
(* to, also by a push that lost a race with an edit on the web, and a branch *)
(* that somebody created under the tool's name is never moved.               *)
OthersWorkKept ==
  [][/\ IsPrefix(wiki, wiki')
     /\ branch # NoCommit => branch' = branch]_publishingVars
=============================================================================
