------------------------------- MODULE WikiSync -------------------------------
(***************************************************************************)
(* Publication of docs/wiki through a local clone of the GitHub wiki       *)
(* (wiki_sync.py), gated by the audit of its links                         *)
(* (wiki_publication_check.py).                                            *)
(*                                                                         *)
(* A text is what the audit can tell: the links it holds and the anchors   *)
(* of its headings; a digest is the text.  Several sources may change      *)
(* between two steps of a run: people edit the source tree, somebody edits *)
(* the wiki on the web, and the run may fail, be interrupted or be killed. *)
(* The clone itself is the run's own.                                      *)
(***************************************************************************)
EXTENDS Naturals, Sequences, SequencesExt, FiniteSets

CONSTANTS
  WIKI_MANIFEST,               \* the pages docs/wiki must hold
  README_REQUIRED_WIKI_PAGES,  \* those the README must link
  PageNames,                   \* every page name, in alphabetical order
  Texts,                       \* for each file of the source, what it may hold
  FirstSource, FirstWiki,      \* the source tree and the wiki's pages at first
  MaxWikiEvents                \* bound: edits of the source, web edits and faults

ASSUME WikiPages ==
  LET names == {PageNames[i] : i \in DOMAIN PageNames}
  IN PageNames \in Seq(names) /\ FirstWiki = [n \in names |-> FirstWiki[n]]

Missing == [links |-> {"none"}]     \* in place of a text: there is no such file
README == "README.md"

VARIABLES
  source,   \* the source tree: docs/wiki and the files its pages link
  wiki,     \* the history of the published wiki, a sequence of commits
  clone,    \* the clone: log, upstream, index and work
  sync,     \* the run: its step and plan; what its last audit saw, if the source
            \* has not been edited since; was the last run on this clone killed?
  events

wikiVars == <<source, wiki, clone, sync, events>>

Names == {PageNames[i] : i \in DOMAIN PageNames}
Pages(files) == [n \in Names |-> files[n]]

-----------------------------------------------------------------------------
(* The audit.  A link names a file and perhaps an anchor in it; a wiki link  *)
(* must name a page of the manifest.  Links to other sites are not judged.   *)
_anchors(text) == text.anchors
_links(text) == text.links
_file_target(files, link) ==
  /\ files[link.to] # Missing
  /\ link.at = "" \/ link.at \in _anchors(files[link.to])
_audit_link(files, link) ==
  \/ link.kind = "elsewhere"
  \/ link.kind = "wiki" /\ link.to \in WIKI_MANIFEST /\ _file_target(files, link)
  \/ link.kind = "file" /\ _file_target(files, link)

_check_manifest(files) == {n \in Names : files[n] # Missing} = WIKI_MANIFEST
_read_regular_markdown(files, f) == files[f] # Missing

check_publication(files) ==
  /\ _check_manifest(files)
  /\ \A f \in WIKI_MANIFEST \cup {README} :
       /\ _read_regular_markdown(files, f)
       /\ \A link \in _links(files[f]) : _audit_link(files, link)
  /\ README_REQUIRED_WIKI_PAGES \subseteq {link.to : link \in {l \in _links(files[README]) : l.kind = "wiki"}}

-----------------------------------------------------------------------------
(* The plan: what turns the clone's pages into the source's, additions       *)
(* first, deletions last.                                                    *)
HeadPages(c) == Last(c.log).pages
CleanClone(c) == c.work = c.index /\ c.index = HeadPages(c)

(* Fault: the clone's cleanliness is not asked for. *)
_inspect_clone_dirty == clone.log = clone.upstream
_inspect_clone == CleanClone(clone) /\ clone.log = clone.upstream

Operation(n) ==
  IF n \notin WIKI_MANIFEST
  THEN IF clone.work[n] # Missing THEN "delete" ELSE "keep"
  ELSE IF clone.work[n] = Missing THEN "add"
  ELSE IF clone.work[n] # source[n] THEN "change" ELSE "keep"
Entry(n) == [name |-> n, op |-> Operation(n), text |-> source[n], was |-> clone.work[n]]
Planned == {Entry(n) : n \in {k \in Names : Operation(k) # "keep"}}
Place(n) == CHOOSE i \in DOMAIN PageNames : PageNames[i] = n
Order == [add |-> 1, change |-> 2, delete |-> 3]
Before(d, e) == Order[d.op] < Order[e.op] \/ (d.op = e.op /\ Place(d.name) < Place(e.name))
(* The one list of what is planned in this order. *)
build_plan ==
  {p \in SeqOf(Planned, Len(PageNames)) :
     ToSet(p) = Planned /\ \A i, j \in DOMAIN p : i < j => Before(p[i], p[j])}

Idle == [pc |-> "idle", plan |-> << >>, done |-> 0, seen |-> Missing, killed |-> FALSE]
Running(pc) == sync.pc = pc
Ends == sync' = [Idle EXCEPT !.killed = sync.killed]

(* The audit and the look at the clone, then the pages are read.  apply_plan *)
(* does both once more and wants the same plan.                              *)
plan_audit ==
  /\ Running("idle") /\ check_publication(source) /\ _inspect_clone
  /\ sync' = [sync EXCEPT !.pc = "plan"]
  /\ UNCHANGED <<source, wiki, clone, events>>
plan_read ==
  /\ Running("plan")
  /\ IF \E n \in WIKI_MANIFEST : source[n] = Missing THEN Ends
     ELSE \E p \in build_plan : sync' = [sync EXCEPT !.pc = "refresh", !.plan = p]
  /\ UNCHANGED <<source, wiki, clone, events>>
refresh_audit ==
  /\ Running("refresh")
  /\ IF check_publication(source) /\ _inspect_clone
     THEN sync' = [sync EXCEPT !.pc = "compare", !.seen = Pages(source)]
     ELSE Ends
  /\ UNCHANGED <<source, wiki, clone, events>>
refresh_read ==
  /\ Running("compare")
  /\ IF sync.plan \in build_plan /\ sync.plan # << >> THEN sync' = [sync EXCEPT !.pc = "copy"] ELSE Ends
  /\ UNCHANGED <<source, wiki, clone, events>>

-----------------------------------------------------------------------------
(* Applying it.  A failed check is a failure: the clone is put back. *)
PlannedNames == {sync.plan[i].name : i \in DOMAIN sync.plan}
Fails == sync' = [sync EXCEPT !.pc = "unstage"]

(* The next page: its text is read from the source again. *)
copy_page ==
  /\ Running("copy") /\ sync.done < Len(sync.plan)
  /\ LET e == sync.plan[sync.done + 1]
         next == [sync EXCEPT !.done = @ + 1]
     IN \/ /\ e.op # "delete" /\ source[e.name] # Missing
           /\ clone' = [clone EXCEPT !.work[e.name] = source[e.name]] /\ sync' = next
        \/ /\ e.op # "delete" /\ source[e.name] = Missing
           /\ Fails /\ UNCHANGED clone
        \/ /\ e.op = "delete" /\ clone.work[e.name] = e.was
           /\ clone' = [clone EXCEPT !.work[e.name] = Missing] /\ sync' = next
  /\ UNCHANGED <<source, wiki, events>>

stage_pages ==
  /\ Running("copy") /\ sync.done = Len(sync.plan)
  /\ clone' = [clone EXCEPT !.index = [n \in Names |-> IF n \in PlannedNames THEN clone.work[n] ELSE @[n]]]
  /\ sync' = [sync EXCEPT !.pc = "staged"]
  /\ UNCHANGED <<source, wiki, events>>

StagedAs(n) ==
  IF HeadPages(clone)[n] = Missing THEN "add" ELSE IF clone.index[n] = Missing THEN "delete" ELSE "change"
_cached_plan == {<<n, StagedAs(n)>> : n \in {k \in Names : clone.index[k] # HeadPages(clone)[k]}}
check_staged ==
  /\ Running("staged")
  /\ IF _cached_plan = {<<sync.plan[i].name, sync.plan[i].op>> : i \in DOMAIN sync.plan}
     THEN sync' = [sync EXCEPT !.pc = "commit"] ELSE Fails
  /\ UNCHANGED <<source, wiki, clone, events>>

(* The commit takes the planned names from the working tree. *)
Committed ==
  LET pages == [n \in Names |-> IF n \in PlannedNames THEN clone.work[n] ELSE HeadPages(clone)[n]]
  IN [clone EXCEPT !.log = Append(@, [pages |-> pages, audited |-> sync.seen])]
commit_pages ==
  /\ Running("commit")
  /\ clone' = Committed /\ sync' = [sync EXCEPT !.pc = "push"]
  /\ UNCHANGED <<source, wiki, events>>

(* A push appends to the history it knows or is refused. *)
FastForward == IsPrefix(wiki, clone.log)
Pushed == wiki' = clone.log /\ clone' = [clone EXCEPT !.upstream = clone.log]
push ==
  /\ Running("push")
  /\ IF FastForward THEN Pushed ELSE UNCHANGED <<wiki, clone>>
  /\ Ends
  /\ UNCHANGED <<source, events>>

-----------------------------------------------------------------------------
(* Rollback: the index of the planned names, then their texts. *)
(* Fault: the index keeps what was staged. *)
unstage_kept ==
  /\ Running("unstage")
  /\ sync' = [sync EXCEPT !.pc = "restore", !.done = 0]
  /\ UNCHANGED <<source, wiki, clone, events>>
unstage ==
  /\ Running("unstage")
  /\ clone' = [clone EXCEPT !.index = [n \in Names |-> IF n \in PlannedNames THEN HeadPages(clone)[n] ELSE @[n]]]
  /\ sync' = [sync EXCEPT !.pc = "restore", !.done = 0]
  /\ UNCHANGED <<source, wiki, events>>
_rollback ==
  /\ Running("restore")
  /\ IF sync.done = Len(sync.plan) THEN Ends /\ UNCHANGED clone
     ELSE LET e == sync.plan[sync.done + 1]
          IN /\ clone' = [clone EXCEPT !.work[e.name] = e.was]
             /\ sync' = [sync EXCEPT !.done = @ + 1]
  /\ UNCHANGED <<source, wiki, events>>

-----------------------------------------------------------------------------
(* The surroundings. *)
Happens == events < MaxWikiEvents /\ events' = events + 1

(* An error or an interrupt while the clone is being changed.  The commit    *)
(* may have been made by the time the program hears of it.                   *)
sync_fault ==
  /\ sync.pc \in {"copy", "staged", "commit"} /\ Happens
  /\ Fails
  /\ \/ UNCHANGED clone
     \/ Running("commit") /\ clone' = Committed
  /\ UNCHANGED <<source, wiki>>
(* The push times out, having arrived or not. *)
push_fault ==
  /\ Running("push") /\ Happens
  /\ Ends /\ wiki' \in {wiki, IF FastForward THEN clone.log ELSE wiki}
  /\ UNCHANGED <<source, clone>>
(* The process is killed, or putting the clone back fails as well. *)
sync_killed ==
  /\ sync.pc \notin {"idle", "plan"} /\ Happens
  /\ sync' = [Idle EXCEPT !.killed = TRUE] /\ UNCHANGED <<source, wiki, clone>>

edit_source(f, text) ==
  /\ Happens /\ text # source[f] /\ ~Running("idle")
  /\ source' = [source EXCEPT ![f] = text]
  /\ sync' = [sync EXCEPT !.seen = Missing]
  /\ UNCHANGED <<wiki, clone>>
edit_on_web(n, text) ==
  /\ Happens /\ text # Last(wiki).pages[n]
  /\ wiki' = Append(wiki, [pages |-> [Last(wiki).pages EXCEPT ![n] = text], audited |-> Missing])
  /\ UNCHANGED <<source, clone, sync>>

(* The operator: a commit whose push failed is pushed by hand, a clone that  *)
(* the tool refuses is replaced by a fresh one.                              *)
push_by_hand ==
  /\ Running("idle") /\ CleanClone(clone) /\ FastForward /\ clone.log # wiki
  /\ Pushed /\ UNCHANGED <<source, sync, events>>
fresh_clone ==
  /\ Running("idle") /\ (clone.log # wiki \/ ~CleanClone(clone))
  /\ clone' = [log |-> wiki, upstream |-> wiki, index |-> Last(wiki).pages, work |-> Last(wiki).pages]
  /\ sync' = Idle
  /\ UNCHANGED <<source, wiki, events>>

WikiInit ==
  /\ source = FirstSource
  /\ wiki = << [pages |-> FirstWiki, audited |-> Missing] >>
  /\ clone = [log |-> wiki, upstream |-> wiki, index |-> FirstWiki, work |-> FirstWiki]
  /\ sync = Idle /\ events = 0

WikiNext ==
  \/ plan_audit \/ plan_read \/ refresh_audit \/ refresh_read
  \/ copy_page \/ stage_pages \/ check_staged \/ commit_pages \/ push
  \/ unstage \/ _rollback
  \/ sync_fault \/ push_fault \/ sync_killed
  \/ \E f \in DOMAIN Texts : \E text \in Texts[f] : edit_source(f, text)
  \/ \E n \in Names : \E text \in Texts[n] : edit_on_web(n, text)
  \/ push_by_hand \/ fresh_clone

-----------------------------------------------------------------------------
(* A run that ends without being killed leaves an index that agrees with the *)
(* clone's commit and the pages of one commit, not a mixture: of the one it  *)
(* started from, or of its own.                                              *)
CloneWhole ==
  Running("idle") /\ ~sync.killed =>
    /\ clone.index = HeadPages(clone)
    /\ \E i \in DOMAIN clone.log : clone.work = clone.log[i].pages

(* Unless the source was edited while the run was on, a commit of the tool   *)
(* that reaches the wiki holds exactly the pages its last audit passed:      *)
(* nothing a killed run left behind, no retired page, none left out.         *)
PushedIsAudited ==
  \A i \in DOMAIN wiki : wiki[i].audited # Missing => wiki[i].pages = wiki[i].audited
=============================================================================
