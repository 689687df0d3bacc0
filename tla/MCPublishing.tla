----------------------------- MODULE MCPublishing -----------------------------
(* One commit whose inputs may change under the program in every way that    *)
(* some check is there to catch, and the commits of every version and        *)
(* published history over a list of versions in the order of precedence the  *)
(* Semantic Versioning standard gives for them.                              *)
EXTENDS Publishing

W(n) == [num |-> FALSE, val |-> n]
N(n) == [num |-> TRUE, val |-> n]
Final(core, build) == [core |-> core, final |-> TRUE, pre |-> << >>, build |-> build]
Pre(core, ids) == [core |-> core, final |-> FALSE, pre |-> ids, build |-> 0]
MCPrecedence ==
  <<Pre(<<1, 0, 0>>, <<W(1)>>), Pre(<<1, 0, 0>>, <<W(1), N(1)>>), Pre(<<1, 0, 0>>, <<W(1), W(0)>>),
    Pre(<<1, 0, 0>>, <<W(2)>>), Pre(<<1, 0, 0>>, <<W(2), N(2)>>), Pre(<<1, 0, 0>>, <<W(2), N(11)>>),
    Final(<<1, 0, 0>>, 0), Final(<<1, 2, 0>>, 0), Final(<<1, 11, 0>>, 0), Final(<<2, 0, 0>>, 0)>>
ASSUME PrecedenceAscends ==
  \A i, j \in DOMAIN MCPrecedence : Precedes(MCPrecedence[i], MCPrecedence[j]) <=> i < j
MCVersions == Append(MCPrecedence, Final(<<1, 0, 0>>, 1))

Dist(version, payload) ==
  [version |-> version, date |-> 9, core_id |-> "swan", url |-> "home", payload |-> payload,
   defects |-> {}, licensed |-> TRUE, unresolved |-> {}]
Policy(history) ==
  [history |-> history, identity_authorized |-> TRUE, distribution_authorized |-> TRUE,
   core_id |-> "swan", url |-> "home",
   predecessor |-> [core_id |-> "cygnet", history |-> <<[version |-> Final(<<1, 0, 0>>, 0), date |-> 1]>>]]
TreeOf(version, history) ==
  [dist |-> Dist(version, 1), policy |-> Policy(history), decided |-> TRUE]
E(version, date) == [version |-> version, date |-> date]
Base == TreeOf(Final(<<1, 2, 0>>, 0), <<E(Final(<<1, 0, 0>>, 0), 3)>>)
Other == TreeOf(Final(<<2, 0, 0>>, 0), << >>)

(* A commit is a version and a history: published before are no version, one *)
(* version, that version and a prerelease, or a version of the same day.     *)
Histories ==
  << << >>, <<E(MCPrecedence[1], 9)>> >>
    \o [i \in DOMAIN MCVersions |-> <<E(MCVersions[i], 3)>>]
    \o [i \in DOMAIN MCVersions |-> <<E(MCVersions[i], 3), E(MCPrecedence[4], 2)>>]
base == <<0, 0>>
other == <<0, 1>>
MCSteady == (DOMAIN MCVersions) \X (DOMAIN Histories)
MCBlob ==
  [c \in MCSteady \cup {base, other} |->
     CASE c = base -> Base
       [] c = other -> Other
       [] OTHER -> TreeOf(MCVersions[c[1]], Histories[c[2]])]

BuildOf(c, run, nonce, rbf) ==
  [run |-> run, nonce |-> nonce, commit |-> c, rbf |-> rbf, build_id |-> c, problems |-> {}]
Signed(f) == [trusted |-> TRUE, subject |-> audit(f), commit |-> f.commit, run |-> f.run]
Dir(f) == [files |-> f, audit |-> audit(f), bundle |-> Signed(f), complete |-> TRUE]
Modes(r) == [pocket |-> "pass", dock |-> r]
Hw(c, run, rbf, r) == [run |-> run, rbf |-> rbf, dist |-> MCBlob[c].dist, modes |-> Modes(r), files |-> 1]
Kt(c, run, rbf, r) == [run |-> run, rbf |-> rbf, commit |-> c, modes |-> Modes(r), files |-> 1]
Tree(c) == [head |-> c] @@ MCBlob[c]
MCWorld ==
  [c \in MCSteady \cup {base} |->
     [a |-> Dir(BuildOf(c, 1, 1, "r")), b |-> Dir(BuildOf(c, 2, 2, "r")),
      hw |-> Hw(c, 1, "r", "pass"), hwfiles |-> 1, kt |-> Kt(c, 1, "r", "pass"), ktfiles |-> 1,
      tree |-> Tree(c)]]

Dirty == [Base.dist EXCEPT !.payload = 2]
With(p) == [BuildOf(base, 2, 2, "r") EXCEPT !.problems = {p}]
MCValues ==
  [a |-> {Dir(BuildOf(base, 1, 1, "r")), Dir(BuildOf(base, 1, 1, "s"))},
   b |-> {Dir(BuildOf(base, 2, 2, "r")), Dir(BuildOf(base, 1, 3, "r")), Dir(BuildOf(base, 2, 2, "s")),
          Dir(With("slack")), Dir(With("evaluation_ip")), [Dir(With("critical")) EXCEPT !.audit = audit(BuildOf(base, 2, 2, "r"))],
          [Dir(BuildOf(base, 2, 2, "r")) EXCEPT !.bundle.trusted = FALSE],
          [Dir(BuildOf(base, 2, 2, "r")) EXCEPT !.bundle = Signed(BuildOf(base, 1, 1, "r"))],
          [Dir(BuildOf(base, 2, 2, "r")) EXCEPT !.complete = FALSE],
          Dir(BuildOf(other, 2, 2, "r"))},
   hw |-> {Hw(base, 1, "r", "pass"), Hw(base, 2, "r", "pass"), Hw(base, 1, "s", "pass"),
           Hw(base, 1, "r", "fail"), [Hw(base, 1, "r", "pass") EXCEPT !.dist = Dirty]},
   hwfiles |-> {1, 2},
   kt |-> {Kt(base, 1, "r", "pass"), Kt(base, 2, "r", "pass"), Kt(other, 1, "r", "pass"),
           Kt(base, 1, "s", "pass"), Kt(base, 1, "r", "fail")},
   ktfiles |-> {1, 2},
   tree |-> {Tree(base), Tree(other), [Tree(base) EXCEPT !.dist = Dirty],
             [Tree(base) EXCEPT !.policy.distribution_authorized = FALSE],
             [Tree(base) EXCEPT !.policy.predecessor.core_id = "swan"],
             [Tree(base) EXCEPT !.dist.core_id = "fork", !.policy.core_id = "fork"],
             [Tree(base) EXCEPT !.decided = FALSE],
             [Tree(base) EXCEPT !.dist.unresolved = {"notice"}],
             [Tree(base) EXCEPT !.dist.defects = {"video"}]}]

(* Two pages and a retired one; the README must link the first, which links  *)
(* a heading of the second.  Edits break links, drop a page or repair it.    *)
Text(links, anchors) == [links |-> links, anchors |-> anchors]
ToWiki(page) == [kind |-> "wiki", to |-> page, at |-> ""]
ToFile(file, anchor) == [kind |-> "file", to |-> file, at |-> anchor]
Site == [kind |-> "elsewhere", to |-> "site", at |-> ""]
MCPageNames == <<"Controls.md", "Home.md", "Old.md">>
Home == Text({ToFile("Controls.md", "keys"), Site}, {})
Controls == Text({ToFile("GUIDE.md", "")}, {"keys"})
Plain == Text({}, {})
MCFirstSource ==
  ("Home.md" :> Home) @@ ("Controls.md" :> Controls) @@ ("Old.md" :> Missing)
    @@ (README :> Text({ToWiki("Home.md")}, {})) @@ ("GUIDE.md" :> Plain)
MCFirstWiki == ("Home.md" :> Plain) @@ ("Controls.md" :> Missing) @@ ("Old.md" :> Plain)
MCTexts ==
  ("Home.md" :> {Home, Plain, Missing}) @@ ("Controls.md" :> {Controls, Plain}) @@ ("Old.md" :> {Plain, Missing})
    @@ ("GUIDE.md" :> {Missing}) @@ (README :> {Plain})

(* One path of each status, a preserved one and a tracked bystander. *)
MCExpected == ("new" :> "A") @@ ("old" :> "D") @@ ("doc" :> "M")
MCFirstMain == ("new" :> 0) @@ ("old" :> 1) @@ ("doc" :> 1) @@ ("tmp" :> 0) @@ ("other" :> 1)
MCFirstWork == ("new" :> 1) @@ ("old" :> 0) @@ ("doc" :> 2) @@ ("tmp" :> 1) @@ ("other" :> 1)
MCEdits == [p \in DOMAIN MCFirstMain |-> {0, 1, 2}]
MCMainTrees ==
  {[MCFirstMain EXCEPT !["other"] = 2], [MCFirstMain EXCEPT !["doc"] = 3], [MCFirstMain EXCEPT !["old"] = 0]}
=============================================================================
