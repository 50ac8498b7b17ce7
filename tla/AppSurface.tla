----------------------------- MODULE AppSurface -----------------------------
(***************************************************************************)
(* What an app exposes: hive-manifest's validate and derive, the checks of *)
(* hive-registry, and the look-ups of hive-mcp and hive-surfaces.          *)
(*                                                                         *)
(* A manifest is the sequence of an author's declarations: functions,      *)
(* collections, uses, tools and routes.  A collection with `crud` is given *)
(* five tools and five routes; the manifest's own replace the ones of the  *)
(* same name, or hide them.  The surface is derived from the build's       *)
(* manifest at every call, a tool found by its name and a route by the     *)
(* template with the most literal segments.                                *)
(*                                                                         *)
(* A tool's name is the sequence of its dotted parts.  A path is a string  *)
(* with its segments in SegsOf.                                            *)
(***************************************************************************)
EXTENDS Naturals, Sequences, FiniteSets

CONSTANTS
  None,
  App,            \* the app's name
  Exports,        \* what the compiled module exports
  SegsOf,         \* a path's segments, a trailing slash ignored
  CapturesIn,     \* the segments that are captures, {id}
  PathOrder,      \* the paths in the order of their strings
  Requests        \* methods and paths that are asked for

\* Where the declarations of a kind are, and what tells two of a kind apart.
Decl(d, what) == {i \in DOMAIN d : d[i].what = what}
Key(x)        == IF x.what = "route" THEN <<x.method, x.path>> ELSE x.name
Once(d, what) == \A i, j \in Decl(d, what) : Key(d[i]) = Key(d[j]) => i = j

\* CRUD_OPS.
CrudOps ==
  { [op |-> "list",   method |-> "GET",    byId |-> FALSE],
    [op |-> "get",    method |-> "GET",    byId |-> TRUE],
    [op |-> "create", method |-> "POST",   byId |-> FALSE],
    [op |-> "update", method |-> "PATCH",  byId |-> TRUE],
    [op |-> "delete", method |-> "DELETE", byId |-> TRUE] }

-----------------------------------------------------------------------------
(* Manifest::validate *)

FunctionsOf(d) == {d[i].name : i \in Decl(d, "function")}
Known(d, f)    == f = None \/ f \in FunctionsOf(d)
IsTool(d)      == Decl(d, "toolkind") # {}

\* A tool owns no data and mounts nothing, and has one function.
TierOK(d) ==
  IsTool(d) => /\ \A what \in {"collection", "use", "route", "process"} : Decl(d, what) = {}
               /\ \E i \in DOMAIN d : Decl(d, "function") = {i}

FunctionsOK(d) == Once(d, "function")

\* One entry per used collection, and none for the app's own.
UsesOK(d) == Once(d, "use") /\ \A i \in Decl(d, "use") : d[i].name[1] # App

CollectionsOK(d) == Once(d, "collection")

Crud(d)      == {i \in Decl(d, "collection") : d[i].crud}
Generated(d) == {<<d[i].name, o.op>> : i \in Crud(d), o \in CrudOps}

\* A tool of a generated name says what it does with it.
ToolsOK(d) ==
  /\ Once(d, "tool")
  /\ \A i \in Decl(d, "tool") :
       /\ d[i].name \in Generated(d) => d[i].function # None \/ d[i].hidden
       /\ Known(d, d[i].function)

\* check_pattern: no capture twice in one path.
PatternOK(p) == \A i, j \in DOMAIN SegsOf[p] :
  SegsOf[p][i] \in CapturesIn /\ SegsOf[p][i] = SegsOf[p][j] => i = j

\* Mutant: the same route may be declared twice.
RoutesOKTwice(d) ==
  \A i \in Decl(d, "route") : PatternOK(d[i].path) /\ Known(d, d[i].function)

RoutesOK(d) ==
  /\ \A i \in Decl(d, "route") : PatternOK(d[i].path) /\ Known(d, d[i].function)
  /\ Once(d, "route")

Validate(d) ==
  TierOK(d) /\ FunctionsOK(d) /\ UsesOK(d) /\ CollectionsOK(d) /\ ToolsOK(d) /\ RoutesOK(d)

\* check_exports: every function declared is there.
CheckExports(d) == FunctionsOf(d) \subseteq Exports

\* prepare: a manifest without functions needs no module.
Prepare(d) == Validate(d) /\ (FunctionsOf(d) # {} => CheckExports(d))

-----------------------------------------------------------------------------
(* Manifest::derive *)

Slot(key, entry) == [key |-> key, entry |-> entry]
CrudEntry(c, o)  == [impl |-> "crud", collection |-> c, op |-> o]
GuestEntry(f)    == [impl |-> "guest", function |-> f]

GeneratedTools(d) ==
  {Slot(<<d[i].name, o.op>>, CrudEntry(d[i].name, o.op)) : i \in Crud(d), o \in CrudOps}

CrudPath(c, byId) == CHOOSE p \in DOMAIN SegsOf :
  SegsOf[p] = IF byId THEN <<c, "{id}">> ELSE <<c>>

GeneratedRoutes(d) ==
  {Slot(<<o.method, CrudPath(d[i].name, o.byId)>>, CrudEntry(d[i].name, o.op)) :
     i \in Crud(d), o \in CrudOps}

\* The declarations that the loop over them leaves standing: a later one of the
\* same key takes the slot.
Standing(d, what) ==
  {i \in Decl(d, what) : \A j \in Decl(d, what) : Key(d[j]) = Key(d[i]) => j <= i}

\* The declarations over what was generated: one that is hidden clears the slot of
\* its key, any other replaces what is there or adds to it.
Overlay(generated, d, what) ==
  LET shown == {i \in Standing(d, what) : ~d[i].hidden}
  IN {s \in generated : \A i \in Decl(d, what) : Key(d[i]) # s.key}
     \cup {Slot(Key(d[i]), GuestEntry(d[i].function)) : i \in shown}

ToolSurface(d)  == Overlay(IF IsTool(d) THEN {} ELSE GeneratedTools(d), d, "tool")
RouteSurface(d) == Overlay(IF IsTool(d) THEN {} ELSE GeneratedRoutes(d), d, "route")

-----------------------------------------------------------------------------
(* The look-ups *)

\* split_tool_name takes the app off, call_tool finds the tool of that name.
CallTarget(d, qualified) ==
  {s.entry : s \in {s \in ToolSurface(d) : qualified = <<App>> \o s.key}}

Literals(p)   == Cardinality({i \in DOMAIN SegsOf[p] : SegsOf[p][i] \notin CapturesIn})
Fits(p, want) == /\ Len(SegsOf[p]) = Len(want)
                 /\ \A i \in DOMAIN want : SegsOf[p][i] \in CapturesIn \cup {want[i]}
RankOf(p)     == CHOOSE i \in DOMAIN PathOrder : PathOrder[i] = p

\* More literal segments, or as many and sorted before by derive.
Better(p, q) ==
  Literals(p) > Literals(q) \/ (Literals(p) = Literals(q) /\ RankOf(p) <= RankOf(q))

MatchRoute(d, req) ==
  LET fit == {s \in RouteSurface(d) : s.key[1] = req.method /\ Fits(s.key[2], req.segs)}
  IN IF fit = {} THEN None ELSE CHOOSE s \in fit : \A t \in fit : Better(s.key[2], t.key[2])

-----------------------------------------------------------------------------

VARIABLE manifest    \* the manifest a build was registered with, or None

Registered == {manifest[b] : b \in {b \in DOMAIN manifest : manifest[b] # None}}

Swap(d, i) == [d EXCEPT ![i] = d[i + 1], ![i + 1] = d[i]]

\* Two authors who declare the same things in another order get the same
\* surface: in nothing that validate lets through does "the last declaration
\* silently" win (`validate`, `derive`).
SurfaceIsOrderFree ==
  \A d \in Registered : \A i \in 1..(Len(d) - 1) :
    /\ Prepare(Swap(d, i))
    /\ ToolSurface(Swap(d, i)) = ToolSurface(d)
    /\ RouteSurface(Swap(d, i)) = RouteSurface(d)

\* Does not hold (README, "Divergences").  "The host checks the promise against
\* the compiled module at install rather than discovering a missing export on a
\* user's first call": whatever a live surface hands to the guest, the module
\* exports.
GuestEntriesAreExported ==
  \A d \in Registered : \A s \in ToolSurface(d) \cup RouteSurface(d) :
    s.entry.impl = "guest" => s.entry.function \in Exports
=============================================================================
