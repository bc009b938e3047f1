---------------------------- MODULE MCRepository ----------------------------
(***************************************************************************)
(* ProjectRepository for TLC: two versions of a project and two others, of *)
(* which a record holds two, and every kind of call with its options.      *)
(***************************************************************************)
EXTENDS ProjectRepository, TLC

Version(id, v) == [id |-> id, version |-> v]
Old == Version("a", 1)
New == Version("a", 2)
Other == Version("b", 1)
More == Version("c", 1)
MCProjects == {Old, New, Other, More}
TabsAlike == Permutations(Clients)

Asks(op) == [op |-> op, projects |-> {}, project |-> New, guarded |-> FALSE, expected |-> 0, replace |-> FALSE]
MCRequests ==
    {Asks("load"), Asks("clear"), Asks("migrate"),
     Asks("import"), [Asks("import") EXCEPT !.replace = TRUE], [Asks("import") EXCEPT !.project = More],
     [Asks("save") EXCEPT !.projects = {Old}],
     [Asks("save") EXCEPT !.projects = {Old, Other}, !.guarded = TRUE, !.expected = 1]}
=============================================================================
