---------------------------- MODULE MCAppRuntime ----------------------------
(***************************************************************************)
(* AppSurface, AppInstalls and AppRuntime on a small instance: the core    *)
(* app and two builds of a process app, one that uses core and has an      *)
(* image, one that uses nothing and has none.                              *)
(***************************************************************************)
EXTENDS AppRuntime, TLC

CONSTANTS c1, c2
MCCalls == {c1, c2}

MCBuilds == {"core1", "notes1", "notes2"}
MCSlugOf == [b \in MCBuilds |-> IF b = "core1" THEN "core" ELSE "notes"]

MCSegsOf == "/entries" :> <<"entries">> @@ "/entries/{id}" :> <<"entries", "{id}">>
         @@ "/notes" :> <<"notes">> @@ "/notes/{id}" :> <<"notes", "{id}">>
         @@ "/notes/new" :> <<"notes", "new">> @@ "/{id}/{id}" :> <<"{id}", "{id}">>
         @@ "/notes/{id}/{key}" :> <<"notes", "{id}", "{key}">>
         @@ "/{id}/notes/new" :> <<"{id}", "notes", "new">>
MCCaptures == {"{id}", "{key}"}
MCPathOrder == <<"/entries", "/entries/{id}", "/notes", "/notes/new",
                 "/notes/{id}", "/notes/{id}/{key}", "/{id}/notes/new", "/{id}/{id}">>
MCRequests == [method : {"GET", "DELETE"},
               segs : {<<"notes">>, <<"notes", "new">>, <<"notes", "n1">>,
                       <<"notes", "notes", "new">>}]

Function(f)        == [what |-> "function", name |-> f]
Collection(c)      == [what |-> "collection", name |-> c, crud |-> TRUE]
UseOf(a, c)        == [what |-> "use", name |-> <<a, c>>]
Process(i)         == [what |-> "process", image |-> i]
Tool(n, f, h)      == [what |-> "tool", name |-> n, function |-> f, hidden |-> h]
RouteDef(m, p, f, h) == [what |-> "route", method |-> m, path |-> p, function |-> f, hidden |-> h]

MCDeclarations ==
  { Function("f"), Function("g"), Collection("notes"), UseOf("core", "entries"),
    UseOf("notes", "notes"), [what |-> "toolkind"],
    Tool(<<"find">>, "f", FALSE), Tool(<<"find">>, None, FALSE),
    Tool(<<"notes", "list">>, "f", FALSE), Tool(<<"notes", "list">>, None, TRUE),
    RouteDef("GET", "/notes/{id}", "f", FALSE), RouteDef("GET", "/notes/{id}", None, TRUE),
    RouteDef("GET", "/notes/new", "f", FALSE), RouteDef("GET", "/{id}/{id}", "f", FALSE),
    RouteDef("GET", "/notes/{id}/{key}", "f", FALSE),
    RouteDef("GET", "/{id}/notes/new", "f", FALSE) }

CoreManifest == <<Collection("entries")>>

\* Where the builds start when the app's life is explored, and its manifest.
Living == "core1" :> CoreManifest
       @@ "notes1" :> <<Function("f"), UseOf("core", "entries"), Process(TRUE),
                        Tool(<<"find">>, "f", FALSE), RouteDef("GET", "/notes/new", "f", FALSE)>>
       @@ "notes2" :> <<Function("f"), Process(FALSE), Tool(<<"find">>, "f", FALSE)>>
Writing == "core1" :> CoreManifest
        @@ "notes1" :> <<Function("f"), Collection("notes")>>
        @@ "notes2" :> <<>>

\* A manifest is written and installed; many administrative steps with nobody
\* calling; fewer the more callers there are.
MCBudgets ==
  { [start |-> Writing, decls |-> 3, admin |-> 1, callers |-> {}],
    [start |-> Living, decls |-> 0, admin |-> 5, callers |-> {}],
    [start |-> Living, decls |-> 0, admin |-> 2, callers |-> {c1}],
    [start |-> Living, decls |-> 0, admin |-> 1, callers |-> MCCalls] }
MCTokens == 1..2
=============================================================================
