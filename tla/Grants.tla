------------------------------- MODULE Grants -------------------------------
(***************************************************************************)
(* Who may see what: the grants table, the one predicate that reads it and *)
(* the guard that audits overrides (hive-store/src/grants.rs and           *)
(* predicate.rs, with the triggers of the grants table in migration one).  *)
(*                                                                         *)
(* A subject is [kind, id, name]; a credential is [actor, principal]; a    *)
(* principal is a user or an org; an AI actor belongs to one principal.    *)
(* Grants are written, inherited from a parent subject to a child, narrowed*)
(* (tombstoned), revoked (deleted, with everything that inherited from     *)
(* them) and opened for a time as break-glass overrides.  The clock moves  *)
(* between any two statements, membership changes under the grants, and an *)
(* unshare or a list read is several statements others come between.       *)
(***************************************************************************)
EXTENDS Naturals, FiniteSets, FiniteSetsExt

CONSTANTS
  Users, Orgs,      \* the principals
  Founder,          \* the user bootstrap made admin
  AIs,              \* the principal each AI actor belongs to
  Owner,            \* subject_owners: the principal that owns each subject
  Offers,           \* [subj, target, access, cred, life] grants somebody may try to write
  Lineage,          \* the <<parent, child>> subjects grants are inherited along
  Readers,          \* credentials that read
  Installs,         \* the apps that may ask for a collection
  Disabled,         \* actors with disabled_at set
  MaxGrants,        \* grants ever written, and so ids
  MaxClock          \* ticks of the clock

\* An actor is a person or an AI.
ASSUME GrantConstants == Users \cap DOMAIN AIs = {}

Subjects   == DOMAIN Owner
Principals == Users \cup Orgs
Never      == MaxClock + 1   \* expires_at of a grant without one
Nil       == "none"

VARIABLES
  grants,    \* the rows
  nextId,    \* the id the next row gets
  members,   \* org_members: <<org, user, role>>
  clock,
  list,      \* a list read: the rows an override let in, not yet audited
  unsharing, \* an unshare between its check and its writes
  unaudited, \* history: what an override let out of a guard with no audit row naming the grant
  narrowed   \* history: the inherited grants somebody unshared

readVars == <<list, unaudited>>
vars == <<grants, nextId, members, clock, unsharing, narrowed, readVars>>

Init ==
  /\ grants = {} /\ nextId = 1
  /\ members = Orgs \X {Founder} \X {"admin"}   \* as bootstrap leaves it
  /\ clock = 0
  /\ list = {} /\ unsharing = Nil
  /\ unaudited = {} /\ narrowed = {}

-----------------------------------------------------------------------------
(* The predicate.                                                          *)

Member(org, user) == \E role \in {"admin", "member"} : <<org, user, role>> \in members

\* Mutant: an AI may act for any principal.
ActingKindUnbound(cred) ==
  IF cred.actor \in Disabled THEN Nil
  ELSE IF cred.actor \in DOMAIN AIs THEN "ai"
  ELSE IF cred.principal = cred.actor \/ (cred.principal \in Orgs /\ Member(cred.principal, cred.actor))
       THEN "human" ELSE Nil

\* acting_kind: the kind of an actor that may act for this principal, or none.
ActingKind(cred) ==
  IF cred.actor \in Disabled THEN Nil
  ELSE IF cred.actor \in DOMAIN AIs
       THEN IF AIs[cred.actor] = cred.principal THEN "ai" ELSE Nil
  ELSE IF cred.principal = cred.actor \/ (cred.principal \in Orgs /\ Member(cred.principal, cred.actor))
       THEN "human" ELSE Nil

Satisfies(held, required) == held = required \/ (required = "read" /\ held = "write")

Live(g) == ~g.revoked /\ g.expires > clock

On(subj, access) == {g \in grants : g.subj = subj /\ Live(g) /\ Satisfies(g.access, access)}

\* The live grants each branch of the predicate looks for.
ToPrincipal(cred, subj, access) ==
  {g \in On(subj, access) : g.source # "override" /\ g.target = cred.principal}
ToOrgOf(cred, subj, access) ==
  {g \in On(subj, access) : /\ g.source # "override" /\ cred.principal \in Users
                            /\ g.target \in Orgs /\ Member(g.target, cred.principal)}

ByOverride(cred, subj, access) ==
  {g \in On(subj, access) : /\ g.source = "override" /\ Owner[subj] \in Orgs
                            /\ ActingKind(cred) = "human" /\ g.target = cred.actor
                            /\ <<Owner[subj], cred.actor, "admin">> \in members}

\* The reasons that allow this, in the order the predicate tries them.
PrincipalReason(cred, subj, access) ==
  IF ActingKind(cred) = Nil THEN Nil
  ELSE IF Owner[subj] = cred.principal            THEN "owner"
  ELSE IF ToPrincipal(cred, subj, access) # {}    THEN "grant"
  ELSE IF ToOrgOf(cred, subj, access) # {}        THEN "org_grant"
  ELSE IF ByOverride(cred, subj, access) # {}     THEN "override"
  ELSE Nil

\* D33: a collection reached through another install needs that install's grant too.
ForInstall(subj, acting, access) ==
  {g \in On(subj, access) : subj.kind = "collection" /\ g.target = acting}

Reason(cred, subj, access, acting) ==
  LET mine  == PrincipalReason(cred, subj, access)
      gated == subj.kind = "collection" /\ acting # Nil /\ acting # subj.id
  IN  IF mine = Nil \/ ~gated THEN mine
      ELSE IF ForInstall(subj, acting, access) = {} THEN Nil ELSE "install_grant"

Allowed(cred, subj, access) == Reason(cred, subj, access, Nil) # Nil

\* has_allowlist and named_reason: with a live call grant on some name of this
\* kind exactly the granted names are callable, without one the install decides.
HasAllowlist(cred, subj) ==
  \E g \in grants :
    /\ g.subj.kind = subj.kind /\ g.subj.id = subj.id
    /\ g.source # "override" /\ g.access = "call" /\ Live(g)
    /\ \/ g.target = cred.principal
       \/ cred.principal \in Users /\ g.target \in Orgs /\ Member(g.target, cred.principal)

InstallOf(subj) == [kind |-> "install", id |-> subj.id, name |-> Nil]

NamedReason(cred, subj) ==
  Reason(cred, IF HasAllowlist(cred, subj) THEN subj ELSE InstallOf(subj), "call", Nil)

-----------------------------------------------------------------------------
(* Who may write a grant: the grants_issue_policy trigger.                 *)

\* Mutant: whoever may act at all may grant.
IssueAllowedUnowned(subj, target, cred) == ActingKind(cred) # Nil

\* An AI shares with its principal, an org of its principal's, or a fellow member.
AIMayShareWith(principal, target) ==
  \/ target = principal
  \/ target \in Orgs  /\ principal \in Users /\ Member(target, principal)
  \/ target \in Users /\ principal \in Users
       /\ \E org \in Orgs : Member(org, principal) /\ Member(org, target)

IssueAllowed(subj, target, cred) ==
  /\ ActingKind(cred) # Nil
  /\ Owner[subj] = cred.principal
  /\ ActingKind(cred) = "ai" => AIMayShareWith(cred.principal, target)

OverrideAllowed(subj, cred) ==
  /\ ActingKind(cred) = "human"
  /\ Owner[subj] \in Orgs /\ <<Owner[subj], cred.actor, "admin">> \in members

\* grants_identity_uq
Key(g)     == <<g.subj, g.target, g.access, g.parent>>
IsFree(g)  == \A h \in grants : h.source # "override" => Key(h) # Key(g)

\* parent_grant_id is <<>> where it is NULL.
Row(id, subj, target, access, source, parent, cred, expires) ==
  [id |-> id, subj |-> subj, target |-> target, access |-> access, source |-> source,
   parent |-> parent, by |-> cred, expires |-> expires, revoked |-> FALSE]

Expiry(life) == IF life = 0 THEN Never ELSE Min({clock + life, Never})

-----------------------------------------------------------------------------
(* Writers.  A statement the trigger or the index refuses changes nothing. *)

Insert(rows) == grants' = grants \cup rows /\ nextId' = nextId + Cardinality(rows)

\* write_grant, direct; write_install_grant when the target is an install, which
\* returns the live grant it finds instead of writing a second one.
WriteGrant(o) ==
  LET row == Row(nextId, o.subj, o.target, o.access, "direct", <<>>, o.cred, Expiry(o.life))
  IN  /\ nextId <= MaxGrants
      /\ IssueAllowed(o.subj, o.target, o.cred) /\ IsFree(row)
      /\ Insert({row})
      /\ UNCHANGED <<members, clock, unsharing, narrowed, readVars>>

\* materialize_inherited: one statement, so one refused row refuses them all;
\* a row whose key is taken (by a tombstone too) is skipped.
Materialize(parent, child, cred) ==
  LET from  == {p \in grants : p.subj = parent /\ p.source # "override" /\ Live(p)}
      copy(id, p) == Row(id, child, p.target, p.access, "inherited", <<p.id>>, cred, p.expires)
      fresh == {p \in from : IsFree(copy(0, p))}
      rows  == {copy(nextId + Cardinality({q \in fresh : q.id < p.id}), p) : p \in fresh}
  IN  /\ \A p \in from : p.target \in Principals /\ IssueAllowed(child, p.target, cred)
      /\ rows # {} /\ nextId + Cardinality(rows) <= MaxGrants + 1
      /\ Insert(rows)
      /\ UNCHANGED <<members, clock, unsharing, narrowed, readVars>>

\* Every row a delete of `roots` takes with it (ON DELETE CASCADE).
Cascade(roots) ==
  LET down[n \in 0..MaxGrants] ==
        IF n = 0 THEN roots
        ELSE down[n-1] \cup {g \in grants : \E p \in down[n-1] : g.parent = <<p.id>>}
  IN  down[MaxGrants]

Delete(roots) ==
  /\ grants' = grants \ Cascade(roots)
  /\ narrowed' = narrowed \ {Key(g) : g \in Cascade(roots)}

RevokeGrant(g) ==
  /\ Delete({g})
  /\ UNCHANGED <<nextId, members, clock, unsharing, readVars>>

\* enter_break_glass: reap the dead overrides of this admin here, then write one.
BreakGlass(subj, cred, window) ==
  LET dead == {g \in grants : /\ g.source = "override" /\ g.subj = subj
                              /\ g.target = cred.actor /\ ~Live(g)}
      row  == Row(nextId, subj, cred.actor, "read", "override", <<>>, cred, Min({clock + window, Never - 1}))
  IN  /\ nextId <= MaxGrants /\ clock < MaxClock
      /\ OverrideAllowed(subj, cred)
      /\ grants' = (grants \ dead) \cup {row}
      /\ nextId' = nextId + 1
      /\ UNCHANGED <<members, clock, unsharing, narrowed, readVars>>

-----------------------------------------------------------------------------
(* unshare: count the direct grants, then narrow and delete.  The two are  *)
(* one transaction; on Postgres others commit between the statements.      *)

Between(subj, target, source) ==
  {g \in grants : g.subj = subj /\ g.target = target /\ g.source = source /\ ~g.revoked}

UnshareChecks(subj, target, deleteDirect) ==
  /\ unsharing = Nil
  /\ deleteDirect \/ Between(subj, target, "direct") = {}
  /\ unsharing' = <<subj, target, deleteDirect>>
  /\ UNCHANGED <<grants, nextId, members, clock, narrowed, readVars>>

\* Mutant: an inherited grant is deleted like a direct one.
UnshareActsDeleting ==
  /\ unsharing # Nil
  /\ LET gone == Between(unsharing[1], unsharing[2], "inherited")
     IN  /\ grants' = grants \ Cascade(gone)
         /\ narrowed' = narrowed \cup {Key(g) : g \in gone}
  /\ unsharing' = Nil
  /\ UNCHANGED <<nextId, members, clock, readVars>>

UnshareActs ==
  /\ unsharing # Nil
  /\ LET soft   == Between(unsharing[1], unsharing[2], "inherited")
         hard   == IF unsharing[3] THEN Cascade(Between(unsharing[1], unsharing[2], "direct")) ELSE {}
         buried == {[g EXCEPT !.revoked = TRUE] : g \in soft}
     IN  /\ grants' = (((grants \ soft) \cup buried) \ hard)
                       \ {[g EXCEPT !.revoked = TRUE] : g \in soft \cap hard}
         /\ narrowed' = (narrowed \cup {Key(g) : g \in soft}) \ {Key(g) : g \in hard}
  /\ unsharing' = Nil
  /\ UNCHANGED <<nextId, members, clock, readVars>>

-----------------------------------------------------------------------------
(* The guard: every access an override let through is written down first.  *)

Shown(cred, subj, acting) == [cred |-> cred, subj |-> subj, acting |-> acting]
OnlyByOverride(cred, subj, access) == PrincipalReason(cred, subj, access) = "override"

\* authorize (acting = None), authorize_collection and as_person: decide, write
\* the audit row if the reason is the override, and only then return.
Authorize(cred, subj, access, acting) ==
  /\ subj.kind # "collection" => acting = Nil
  /\ Reason(cred, subj, access, acting) # Nil
  /\ OnlyByOverride(cred, subj, access)
  /\ unaudited' = IF Reason(cred, subj, access, acting) = "override" THEN unaudited
                  ELSE unaudited \cup {Shown(cred, subj, acting)}
  /\ UNCHANGED <<grants, nextId, members, clock, unsharing, narrowed, list>>

\* visible_entity_ids, visible_conversation_ids: one query, then visible_ids
\* decides again about every row an override let in, for the grant to audit.
ListRead(cred) ==
  /\ list = {}
  /\ list' = {Shown(cred, s, Nil) :
               s \in {s \in Subjects : s.kind \in {"entity", "conversation"} /\ OnlyByOverride(cred, s, "read")}}
  /\ UNCHANGED <<grants, nextId, members, clock, unsharing, narrowed, unaudited>>

ListAudits(r) ==
  /\ list' = list \ {r}
  /\ unaudited' = IF OnlyByOverride(r.cred, r.subj, "read") THEN unaudited ELSE unaudited \cup {r}
  /\ UNCHANGED <<grants, nextId, members, clock, unsharing, narrowed>>

-----------------------------------------------------------------------------
(* The world around the table.                                             *)

Tick ==
  /\ clock < MaxClock /\ clock' = clock + 1
  /\ UNCHANGED <<grants, nextId, members, unsharing, narrowed, readVars>>

MembershipChanges(org, user) ==
  /\ members' = IF Member(org, user) THEN {m \in members : m[1] # org \/ m[2] # user}
                ELSE members \cup {<<org, user, "member">>}
  /\ UNCHANGED <<grants, nextId, clock, unsharing, narrowed, readVars>>

Next ==
  \/ \E o \in Offers : WriteGrant(o)
  \/ \E l \in Lineage, cred \in Readers : Materialize(l[1], l[2], cred)
  \/ \E g \in grants : RevokeGrant(g)
  \/ \E subj \in Subjects, cred \in Readers : BreakGlass(subj, cred, 1)
  \/ \E l \in Lineage, target \in Principals, deleteDirect \in BOOLEAN :
       UnshareChecks(l[2], target, deleteDirect)
  \/ UnshareActs
  \/ \E cred \in Readers, subj \in Subjects, acting \in Installs \cup {Nil} :
       Authorize(cred, subj, "read", acting)
  \/ \E cred \in Readers : ListRead(cred)
  \/ \E r \in list : ListAudits(r)
  \/ Tick
  \/ \E org \in Orgs, user \in Users : MembershipChanges(org, user)

Spec == Init /\ [][Next]_vars

-----------------------------------------------------------------------------
(* Properties.                                                             *)

\* An inherited grant somebody narrowed with unshare stays narrowed, however
\* often the parent is materialized again, until the row or the parent it came
\* from is deleted: the tombstone of `unshare` holds the key that
\* `materialize_inherited` would insert.
NarrowedStaysNarrowed ==
  \A g \in grants : Key(g) \in narrowed => g.revoked

\* An AI is never allowed what its principal is not: whatever principal it
\* claims to act for, each subject it may reach and each tool it may call (the
\* allowlist rule of `named_reason` included) is one its principal's own
\* credential reaches.
AINeverExceeds ==
  \A ai \in DOMAIN AIs : AIs[ai] \in Users \ Disabled =>
    LET own == [actor |-> AIs[ai], principal |-> AIs[ai]]
    IN  \A p \in Principals :
          LET cred == [actor |-> ai, principal |-> p]
          IN  \A subj \in Subjects :
                /\ \A access \in {"read", "write", "call"} :
                     Allowed(cred, subj, access) => Allowed(own, subj, access)
                /\ subj.kind = "tool" /\ NamedReason(cred, subj) # Nil => NamedReason(own, subj) # Nil

\* Writing a grant never gives the writer anything: what the credential that
\* granted may reach after the step by ownership or by an ordinary grant it
\* could reach before, for rows written one by one and for rows inherited.
NoWriterGains ==
  [][\A g \in grants' \ grants : g.source # "override" /\ ~g.revoked =>
       \A subj \in Subjects, access \in {"read", "write", "call"} :
         PrincipalReason(g.by, subj, access)' \in {"owner", "grant", "org_grant"}
           => PrincipalReason(g.by, subj, access) # Nil]_vars

\* Does not hold for a collection (README, "Divergences").  Everything a guard
\* hands out only because of an override is in the audit file with the grant
\* that let it out, whether one subject was asked for, a list of them, or a
\* collection through another app.
OverrideIsAudited == unaudited = {}
=============================================================================
