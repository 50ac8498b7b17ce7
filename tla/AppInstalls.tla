---------------------------- MODULE AppInstalls ----------------------------
(***************************************************************************)
(* How an app becomes live for one owner: hive-store/src/installs.rs,      *)
(* builds.rs, core.rs, appcred.rs and the install route of hive-httpapi.   *)
(*                                                                         *)
(* A build is registered, an install of it staged (disabled) and activated:*)
(* by the owner in person, who thereby grants what the manifest `uses`, or *)
(* under a standing authority a person delegated, for an app that uses     *)
(* nothing.  activate_install reads, then updates under conditions; builds *)
(* are withdrawn, installs disabled or torn down and authorities revoked   *)
(* at any time between the two.                                            *)
(***************************************************************************)
EXTENDS AppSurface

CONSTANTS
  Builds, SlugOf,         \* builds, and a build's app
  Core,                   \* the app every owner has
  Declarations,           \* what an author may add to a manifest
  Owner, Bot, Delegate,   \* the owner, an AI acting for the owner, another person
  Budgets                 \* bounds to explore: the manifests builds start from, how many
                          \* declarations are added, administrative operations, callers

\* All there is to declare: a manifest is a sequence of these.
Entries == Declarations \cup UNION {{bu.start[b][i] : i \in DOMAIN bu.start[b]} : bu \in Budgets, b \in Builds}

ASSUME StartsAreManifests == \A bu \in Budgets, b \in Builds : bu.start[b] \in Seq(Entries)

Apps         == {SlugOf[b] : b \in Builds}
Actors       == {Owner, Bot, Delegate}
Principal(a) == IF a = Bot THEN Owner ELSE a
IsHuman(a)   == a # Bot

VARIABLES
  build,   \* app_builds: "none", "registered" or "withdrawn"
  inst,    \* installs, by app: None, or its state, its build and whether it has an actor
  auth,    \* install_authorities, by app and holder: "none", "live" or "revoked"
  act,     \* an activation between its reads and its update, or None
  uses,    \* install grants: <<used app, using app>>
  admin,   \* administrative operations so far
  draft,   \* the declarations an author has added
  budget   \* the bounds of this behaviour

instVars == <<build, inst, auth, act, uses, admin, draft, manifest, budget>>

\* ensure_core_install: the manifest of core passes prepare, with no exports.
CorePrepared(d) == Validate(d) /\ FunctionsOf(d) = {}

\* bootstrap: the owner is created with the core app active.
InstInit ==
  /\ build = [b \in Builds |-> IF SlugOf[b] = Core THEN "registered" ELSE "none"]
  /\ inst = [a \in Apps |->
       IF a = Core
       THEN [state |-> "active", build |-> CHOOSE b \in Builds : SlugOf[b] = Core, actor |-> FALSE]
       ELSE None]
  /\ auth = [a \in Apps |-> [h \in {Owner, Delegate} |-> "none"]]
  /\ act = None /\ uses = {} /\ admin = 0 /\ draft = <<>> /\ budget \in Budgets
  /\ \A b \in Builds : SlugOf[b] = Core => CorePrepared(budget.start[b])
  /\ manifest = [b \in Builds |-> IF SlugOf[b] = Core THEN budget.start[b] ELSE None]

IsActive(app)    == inst[app] # None /\ inst[app].state = "active"
ActsFor(actor)   == Principal(actor) = Owner
Promotable(app)  == inst[app].state # "uninstalling" /\ build[inst[app].build] = "registered"
Administers      == admin < budget.admin /\ admin' = admin + 1 /\ UNCHANGED <<draft, budget>>

\* The manifest of a build that is about to be registered.
Written(b) == budget.start[b] \o draft

\* declared_uses, the used apps.
UsesIn(d) == {d[i].name[1] : i \in Decl(d, "use")}
UsesOf(b) == UsesIn(manifest[b])

\* Every used app resolves to an active install of the owner.
UsesMet(d) == \A used \in UsesIn(d) : IsActive(used)

-----------------------------------------------------------------------------

\* The author adds a declaration.
Declare(x) ==
  /\ Len(draft) < budget.decls
  /\ draft' = Append(draft, x)
  /\ UNCHANGED <<build, inst, auth, act, uses, admin, manifest, budget>>

\* prepare, then register_build: an insert, or the row that is there.
RegisterBuild(b) ==
  /\ Administers /\ build[b] = "none" /\ Prepare(Written(b))
  /\ build' = [build EXCEPT ![b] = "registered"]
  /\ manifest' = [manifest EXCEPT ![b] = Written(b)]
  /\ UNCHANGED <<inst, auth, act, uses>>

\* stage_install: whoever acts for the owner; one install per slug and owner.
StageInstall(b, actor) ==
  /\ Administers /\ build[b] # "none" /\ ActsFor(actor) /\ inst[SlugOf[b]] = None
  /\ inst' = [inst EXCEPT ![SlugOf[b]] = [state |-> "disabled", build |-> b, actor |-> FALSE]]
  /\ UNCHANGED <<build, auth, act, uses, manifest>>

\* grant_install_authority: the owner in person, once per holder.
GrantAuthority(app, holder) ==
  /\ Administers /\ inst[app] # None /\ auth[app][holder] = "none"
  /\ auth' = [auth EXCEPT ![app][holder] = "live"]
  /\ UNCHANGED <<build, inst, act, uses, manifest>>

RevokeAuthority(app, holder) ==
  /\ Administers /\ auth[app][holder] = "live"
  /\ auth' = [auth EXCEPT ![app][holder] = "revoked"]
  /\ UNCHANGED <<build, inst, act, uses, manifest>>

-----------------------------------------------------------------------------

\* Which of the two routes activate_install takes, if either.
Route(app, actor) ==
  IF IsHuman(actor) /\ ActsFor(actor)
  THEN IF UsesMet(manifest[inst[app].build]) THEN "person" ELSE None
  ELSE IF UsesOf(inst[app].build) = {} /\ auth[app][Principal(actor)] = "live"
       THEN "standing" ELSE None

\* activate_install, its reads.
ActivateReads(app, actor) ==
  /\ Administers /\ act = None /\ inst[app] # None
  /\ Route(app, actor) # None /\ Promotable(app)
  /\ act' = [app |-> app, route |-> Route(app, actor), holder |-> Principal(actor)]
  /\ UNCHANGED <<build, inst, auth, uses, manifest>>

\* Mutant: the update trusts what was read.
MayFlipAsRead == TRUE

\* The conditions of the UPDATE, and the trigger behind it.
MayFlip ==
  /\ Promotable(act.app)
  /\ act.route = "standing" => auth[act.app][act.holder] = "live"

\* activate, and the grants derive_use_grants wrote in the same unit of work.
ActivateWrites ==
  /\ act # None /\ act' = None
  /\ IF MayFlip
     THEN /\ inst' = [inst EXCEPT ![act.app].state = "active"]
          /\ uses' = uses \cup {<<u, act.app>> : u \in UsesOf(inst[act.app].build)}
     ELSE UNCHANGED <<inst, uses>>
  /\ UNCHANGED <<build, auth, admin, draft, manifest, budget>>

\* ensure_install_actor: the app's own actor, made by the person who installs it.
HasActor(d) == Decl(d, "process") # {}

\* POST /installs: register, stage, the app's actor, activate, in one
\* transaction; any refusal leaves nothing.
InstallApp(b) ==
  /\ Administers /\ inst[SlugOf[b]] = None
  /\ build[b] # "withdrawn" /\ Prepare(Written(b)) /\ UsesMet(Written(b))
  /\ build' = [build EXCEPT ![b] = "registered"]
  /\ manifest' = [manifest EXCEPT ![b] = Written(b)]
  /\ inst' = [inst EXCEPT ![SlugOf[b]] = [state |-> "active", build |-> b, actor |-> HasActor(Written(b))]]
  /\ uses' = uses \cup {<<u, SlugOf[b]>> : u \in UsesIn(Written(b))}
  /\ UNCHANGED <<auth, act>>

\* An operator withdraws a build, disables an install or begins its teardown.
Withdraw(b) ==
  /\ Administers /\ build[b] = "registered"
  /\ build' = [build EXCEPT ![b] = "withdrawn"]
  /\ UNCHANGED <<inst, auth, act, uses, manifest>>

LeaveLive(app, state) ==
  /\ Administers /\ inst[app] # None /\ inst[app].state \notin {state, "uninstalling"}
  /\ inst' = [inst EXCEPT ![app].state = state]
  /\ UNCHANGED <<build, auth, act, uses, manifest>>

InstNext ==
  \/ \E x \in Declarations : Declare(x)
  \/ \E b \in Builds : RegisterBuild(b) \/ InstallApp(b) \/ Withdraw(b)
  \/ \E b \in Builds, a \in Actors : StageInstall(b, a)
  \/ \E app \in Apps, h \in {Owner, Delegate} : GrantAuthority(app, h) \/ RevokeAuthority(app, h)
  \/ \E app \in Apps, a \in Actors : ActivateReads(app, a)
  \/ ActivateWrites
  \/ \E app \in Apps, s \in {"disabled", "uninstalling"} : LeaveLive(app, s)

-----------------------------------------------------------------------------

\* Whatever falls between an activation's reads and its update, an install only
\* goes live on a build nobody withdrew, out of no teardown, with everything it
\* uses granted to it, and on a delegated authority that is still live when it
\* was not the owner in person (`activate_install`, `activate`, the triggers).
OnlyApprovedGoesLive ==
  [][\A app \in Apps : ~IsActive(app) /\ IsActive(app)'
       => /\ build'[inst'[app].build] = "registered"
          /\ inst[app] # None => inst[app].state # "uninstalling"
          /\ \A u \in UsesIn(manifest'[inst'[app].build]) : <<u, app>> \in uses'
          /\ act # None /\ act' = None /\ act.route = "standing"
               => auth[app][act.holder] = "live"]_instVars
=============================================================================
