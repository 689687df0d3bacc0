---------------------------- MODULE MCConnectivity ----------------------------
(* A project of one settings file, one IP file, two constraint files and two *)
(* sources.  Each can change in the ways the closure has to follow.          *)
EXTENDS Connectivity

MCAbsent == [kind |-> "absent"]
F(refs, rows) == [kind |-> "file", refs |-> refs, rows |-> rows, bad |-> FALSE]
MCKind == [qsf |-> "qsf", qip |-> "qip", sdc |-> "sdc", sub |-> "sdc", top |-> "hdl", ip |-> "hdl"]
MCContents ==
  [qsf |-> {F({"qip", "sdc", "top"}, {}), F({"sdc", "top"}, {})},
   qip |-> {F({"ip"}, {}), MCAbsent},
   sdc |-> {F({"sub"}, {}), F({}, {})},
   sub |-> {F({}, {}), F({"sdc"}, {})},
   top |-> {F({}, {"r1"}), F({}, {"r1", "r2"}), [F({}, {}) EXCEPT !.bad = TRUE]},
   ip  |-> {F({}, {}), F({}, {"r2"}), MCAbsent}]
MCFirstTree ==
  [qsf |-> F({"qip", "sdc", "top"}, {}), qip |-> F({"ip"}, {}), sdc |-> F({"sub"}, {}),
   sub |-> F({}, {}), top |-> F({}, {"r1"}), ip |-> F({}, {})]
MCFirstBound == {"top"}
=============================================================================
