--------------------------- MODULE Tables_proofs ----------------------------
(***************************************************************************)
(* Theorems about three of the store's tables and the loops over them: the *)
(* grants (Grants), for any principals, subjects, offers and bounds,       *)
(* Documents, for any documents, blobs, bodies, batch and page sizes and   *)
(* number of writes, and the worker of the model jobs (ModelJobs), for any *)
(* number of workers, jobs, attempts and faults.                           *)
(*                                                                         *)
(* NamedBytesStay says nothing of references.  HeldInv does: every blob a  *)
(* stored document names is held by a reference whose source is that       *)
(* document, and what is referenced is stored.  A relink by one principal  *)
(* leaves the references another principal holds through the same          *)
(* document, which is why the last writer's suffice.                       *)
(*                                                                         *)
(* LateAnswerDiscarded says nothing of a job that is not answered yet, so  *)
(* it is not inductive.  ClaimInv adds why the answer that lands is that   *)
(* of the last attempt: a worker that still holds its job works for the    *)
(* row's attempt, the claim cannot pass to another between the two         *)
(* statements of finish, since finish has the write lock, and a job with   *)
(* an answer has ended and is never claimed again.                         *)
(***************************************************************************)
EXTENDS Documents, ModelJobs, Grants, FiniteSetTheorems, WellFoundedInduction, TLAPS

\* An AI is never allowed what its principal is not, whatever is granted and
\* whoever is a member of what: it holds in every state (`acting_kind`, the
\* branches of the predicate, `named_reason`).
THEOREM AIBounded == AINeverExceeds
<1> SUFFICES ASSUME NEW ai \in DOMAIN AIs, AIs[ai] \in Users \ Disabled, NEW p \in Principals
             PROVE  LET own == [actor |-> AIs[ai], principal |-> AIs[ai]]
                        cred == [actor |-> ai, principal |-> p]
                    IN  \A subj \in Subjects :
                          /\ \A access \in {"read", "write", "call"} :
                               Allowed(cred, subj, access) => Allowed(own, subj, access)
                          /\ subj.kind = "tool" /\ NamedReason(cred, subj) # Nil
                               => NamedReason(own, subj) # Nil
  BY Zenon DEF AINeverExceeds
<1> DEFINE own  == [actor |-> AIs[ai], principal |-> AIs[ai]]
           cred == [actor |-> ai, principal |-> p]
<1>1. ActingKind(own) = "human"
  BY GrantConstants, Zenon DEF ActingKind, Nil
<1>2. ActingKind(cred) # Nil => ActingKind(cred) = "ai" /\ own.principal = cred.principal
  BY Zenon DEF ActingKind
<1>3. own.principal = AIs[ai] /\ cred.principal = p
  BY Zenon
<1> HIDE DEF own, cred
<1>4. \A subj, access : PrincipalReason(cred, subj, access) # Nil
        => PrincipalReason(own, subj, access) # Nil
  BY <1>1, <1>2, Zenon DEF PrincipalReason, ToPrincipal, ToOrgOf, ByOverride, Nil
<1>5. \A subj, access : Allowed(cred, subj, access) => Allowed(own, subj, access)
  BY <1>4, Zenon DEF Allowed, Reason, Nil
<1>6. \A subj : NamedReason(cred, subj) # Nil => NamedReason(own, subj) # Nil
  <2> SUFFICES ASSUME NEW subj, NamedReason(cred, subj) # Nil
               PROVE  NamedReason(own, subj) # Nil
    BY Zenon
  <2> DEFINE asked == IF HasAllowlist(cred, subj) THEN subj ELSE InstallOf(subj)
  <2>1. PrincipalReason(cred, asked, "call") # Nil /\ PrincipalReason(own, asked, "call") # Nil
    BY <1>4 DEF NamedReason, Reason, Nil
  <2>2. own.principal = cred.principal
    BY <2>1, <1>2, Zenon DEF PrincipalReason
  <2>3. HasAllowlist(own, subj) = HasAllowlist(cred, subj)
    BY <2>2, Zenon DEF HasAllowlist
  <2> QED BY <2>1, <2>3, Zenon DEF NamedReason, Reason, Nil
<1> QED BY <1>5, <1>6, Zenon DEF own, cred

COROLLARY AIBoundedAlways == Spec => []AINeverExceeds
BY AIBounded, PTL

-----------------------------------------------------------------------------

\* A row has its columns; exactly the inherited ones have a parent.
IsRow(g) ==
  /\ DOMAIN g = {"id", "subj", "target", "access", "source", "parent", "by", "expires", "revoked"}
  /\ g.source = "inherited" <=> g.parent # <<>>

\* Behind every narrowed key there is its tombstone.  It is an inherited row, so
\* neither a direct grant nor an override has its key, and it is revoked.
TombInv ==
  /\ \A g \in grants : IsRow(g)
  /\ \A k \in narrowed : \E g \in grants : Key(g) = k /\ g.source = "inherited"
  /\ NarrowedStaysNarrowed

LEMMA TombInit == Init => TombInv
BY Zenon DEF Init, TombInv, NarrowedStaysNarrowed

\* Rows that are added with keys nobody has leave the tombstones alone.
LEMMA InsertKeepsTombs ==
  ASSUME TombInv, NEW more, Insert(more), narrowed' = narrowed,
         \A g \in more : IsRow(g) /\ IsFree(g)
  PROVE  TombInv'
<1>1. grants' = grants \cup more
  BY Zenon DEF Insert
<1>2. ASSUME NEW g \in more PROVE Key(g) \notin narrowed
  BY <1>2, Zenon DEF TombInv, IsFree
<1> QED BY <1>1, <1>2, Zenon DEF TombInv, NarrowedStaysNarrowed, IsRow, Key

\* A delete forgets the keys it takes with it.
LEMMA DeleteKeepsTombs ==
  ASSUME TombInv, NEW roots, Delete(roots)
  PROVE  TombInv'
<1> DEFINE gone == Cascade(roots)
<1>1. grants' = grants \ gone /\ narrowed' = narrowed \ {Key(g) : g \in gone}
  BY Zenon DEF Delete
<1> HIDE DEF gone
<1> QED BY <1>1, ZenonT(40) DEF TombInv, NarrowedStaysNarrowed, IsRow, Key

\* Narrowing buries the inherited rows between the two and deletes the direct
\* ones: what is left with a narrowed key is a tombstone.
LEMMA UnshareKeepsTombs == TombInv /\ UnshareActs => TombInv'
<1> SUFFICES ASSUME TombInv, UnshareActs PROVE TombInv'
  BY Zenon
<1> DEFINE soft == Between(unsharing[1], unsharing[2], "inherited")
           hard == IF unsharing[3] THEN Cascade(Between(unsharing[1], unsharing[2], "direct")) ELSE {}
           Bury(g) == [g EXCEPT !.revoked = TRUE]
<1>1. /\ grants' = (((grants \ soft) \cup {Bury(g) : g \in soft}) \ hard) \ {Bury(g) : g \in soft \cap hard}
      /\ narrowed' = (narrowed \cup {Key(g) : g \in soft}) \ {Key(g) : g \in hard}
  BY Zenon DEF UnshareActs
<1>2. ASSUME NEW g \in soft
      PROVE  /\ g \in grants /\ g.source = "inherited" /\ ~g.revoked
             /\ g.subj = unsharing[1] /\ g.target = unsharing[2]
  BY <1>2, Zenon DEF Between
<1>3. ASSUME NEW g \in grants, g.source = "inherited", g.subj = unsharing[1], g.target = unsharing[2],
             g \notin soft
      PROVE  g.revoked
  BY <1>3, Zenon DEF Between
<1> HIDE DEF soft, hard
<1>4. ASSUME NEW g \in grants
      PROVE  IsRow(Bury(g)) /\ Key(Bury(g)) = Key(g) /\ Bury(g).source = g.source /\ Bury(g).revoked
  <2>1. IsRow(g)
    BY <1>4, Zenon DEF TombInv
  <2>2. /\ DOMAIN Bury(g) = DOMAIN g /\ Bury(g).revoked
        /\ Bury(g).subj = g.subj /\ Bury(g).target = g.target /\ Bury(g).access = g.access
        /\ Bury(g).source = g.source /\ Bury(g).parent = g.parent
    BY <2>1, Zenon DEF IsRow
  <2> HIDE DEF Bury
  <2> QED BY <2>1, <2>2, Zenon DEF IsRow, Key
<1> HIDE DEF Bury
<1>5. \A g \in grants' : IsRow(g)
  BY <1>1, <1>2, <1>4, Zenon DEF TombInv
<1>6. ASSUME NEW k \in narrowed' PROVE \E g \in grants' : Key(g) = k /\ g.source = "inherited"
  <2>1. \A g \in hard : Key(g) # k
    BY <1>1, <1>6, Zenon
  <2>2. \A g \in soft \cap hard : Key(Bury(g)) # k
    BY <1>2, <1>4, <2>1, Zenon
  <2>3. CASE \E g \in soft : Key(g) = k
    <3>1. PICK g \in soft : Key(g) = k
      BY <2>3, Zenon
    <3>2. Bury(g) \in grants' /\ Key(Bury(g)) = k /\ Bury(g).source = "inherited"
      BY <3>1, <2>1, <2>2, <1>1, <1>2, <1>4, Zenon
    <3> QED BY <3>2, Zenon
  <2>4. CASE \A g \in soft : Key(g) # k
    <3>1. k \in narrowed
      BY <1>1, <2>4, <1>6, Zenon
    <3>2. PICK g \in grants : Key(g) = k /\ g.source = "inherited"
      BY <3>1, Zenon DEF TombInv
    <3>3. g \in grants'
      BY <3>2, <2>1, <2>2, <2>4, <1>1, Zenon
    <3> QED BY <3>2, <3>3, Zenon
  <2> QED BY <2>3, <2>4, Zenon
<1>7. ASSUME NEW g \in grants', Key(g) \in narrowed' PROVE g.revoked
  <2>1. CASE \E s \in soft : g = Bury(s)
    BY <2>1, <1>2, <1>4, Zenon
  <2>2. CASE g \in grants \ soft
    <3>1. CASE Key(g) \in narrowed
      BY <2>2, <3>1, Zenon DEF TombInv, NarrowedStaysNarrowed
    <3>2. CASE \E s \in soft : Key(g) = Key(s)
      <4>1. PICK s \in soft : Key(g) = Key(s)
        BY <3>2, Zenon
      <4>2. g.subj = s.subj /\ g.target = s.target /\ g.parent = s.parent
        BY <4>1, Zenon DEF Key
      <4>3. g.source = "inherited"
        BY <4>2, <1>2, <2>2, Zenon DEF TombInv, IsRow
      <4> QED BY <4>2, <4>3, <1>2, <1>3, <2>2, Zenon
    <3> QED BY <3>1, <3>2, <1>1, <1>7, Zenon
  <2> QED BY <1>1, <2>1, <2>2, Zenon
<1> QED BY <1>5, <1>6, <1>7, Zenon DEF TombInv, NarrowedStaysNarrowed, Key, IsRow

\* What materialize_inherited inserts: rows of the child whose keys are free,
\* written by a credential that may share the child.
LEMMA InheritedRows ==
  ASSUME NEW parent, NEW child, NEW cred, Materialize(parent, child, cred)
  PROVE  \E more : /\ Insert(more) /\ narrowed' = narrowed /\ UNCHANGED <<members, clock>>
                   /\ \A g \in more : IsRow(g) /\ IsFree(g) /\ g.subj = child /\ g.by = cred
                   /\ more # {} => ActingKind(cred) # Nil /\ Owner[child] = cred.principal
<1> DEFINE from  == {p \in grants : p.subj = parent /\ p.source # "override" /\ Live(p)}
           copy(id, p) == Row(id, child, p.target, p.access, "inherited", <<p.id>>, cred, p.expires)
           fresh == {p \in from : IsFree(copy(0, p))}
           more  == {copy(nextId + Cardinality({q \in fresh : q.id < p.id}), p) : p \in fresh}
<1>1. /\ \A p \in from : IssueAllowed(child, p.target, cred)
      /\ Insert(more) /\ narrowed' = narrowed /\ UNCHANGED <<members, clock>>
  BY Zenon DEF Materialize
<1>2. \A id, p : /\ IsRow(copy(id, p)) /\ copy(id, p).subj = child /\ copy(id, p).by = cred
                 /\ Key(copy(id, p)) = Key(copy(0, p))
  BY ZenonT(40) DEF Row, IsRow, Key
<1>3. \A p \in fresh : IsFree(copy(0, p)) /\ p \in from
  BY Zenon
<1>4. \A id, p : IsFree(copy(0, p)) => IsFree(copy(id, p))
  BY <1>2, Zenon DEF IsFree
<1>5. \A g \in more : \E id, p : p \in fresh /\ g = copy(id, p)
  BY ZenonT(30)
<1> HIDE DEF more, fresh, from, copy
<1>6. \A g \in more : IsRow(g) /\ IsFree(g) /\ g.subj = child /\ g.by = cred
  BY <1>2, <1>3, <1>4, <1>5
<1>7. more # {} => ActingKind(cred) # Nil /\ Owner[child] = cred.principal
  BY <1>1, <1>3, <1>5, Zenon DEF IssueAllowed
<1> QED BY <1>1, <1>6, <1>7, Zenon

LEMMA TombNext == TombInv /\ [Next]_vars => TombInv'
<1> SUFFICES ASSUME TombInv, [Next]_vars PROVE TombInv'
  BY Zenon
<1>1. CASE UNCHANGED <<grants, narrowed>>
  BY <1>1, Zenon DEF TombInv, NarrowedStaysNarrowed, IsRow, Key
<1>2. ASSUME NEW o \in Offers, WriteGrant(o) PROVE TombInv'
  <2> DEFINE new == Row(nextId, o.subj, o.target, o.access, "direct", <<>>, o.cred, Expiry(o.life))
  <2>1. Insert({new}) /\ IsFree(new) /\ narrowed' = narrowed
    BY <1>2, Zenon DEF WriteGrant
  <2>2. IsRow(new)
    BY Zenon DEF Row, IsRow
  <2> HIDE DEF new
  <2> QED BY <2>1, <2>2, InsertKeepsTombs, Zenon
<1>3. ASSUME NEW l \in Lineage, NEW cred \in Readers, Materialize(l[1], l[2], cred) PROVE TombInv'
  <2>1. PICK more : Insert(more) /\ narrowed' = narrowed /\ \A g \in more : IsRow(g) /\ IsFree(g)
    BY <1>3, InheritedRows, Zenon
  <2> QED BY <2>1, InsertKeepsTombs, Zenon
<1>4. ASSUME NEW g \in grants, RevokeGrant(g) PROVE TombInv'
  BY <1>4, DeleteKeepsTombs, Zenon DEF RevokeGrant
<1>5. ASSUME NEW subj \in Subjects, NEW cred \in Readers, BreakGlass(subj, cred, 1) PROVE TombInv'
  <2> DEFINE dead == {g \in grants : /\ g.source = "override" /\ g.subj = subj
                                     /\ g.target = cred.actor /\ ~Live(g)}
             new == Row(nextId, subj, cred.actor, "read", "override", <<>>, cred, Min({clock + 1, Never - 1}))
  <2>1. grants' = (grants \ dead) \cup {new} /\ narrowed' = narrowed
    BY <1>5, Zenon DEF BreakGlass
  <2>2. IsRow(new) /\ new.parent = <<>>
    BY Zenon DEF Row, IsRow
  <2>3. \A g \in dead : g.source = "override"
    BY Zenon
  <2> HIDE DEF new, dead
  <2>4. Key(new) \notin narrowed
    BY <2>2 DEF TombInv, IsRow, Key
  <2> QED BY <2>1, <2>2, <2>3, <2>4, Zenon DEF TombInv, NarrowedStaysNarrowed, IsRow, Key
<1>6. CASE UnshareActs
  BY <1>6, UnshareKeepsTombs, Zenon
<1>7. (\/ \E l \in Lineage, to \in Principals, deleteDirect \in BOOLEAN :
            UnshareChecks(l[2], to, deleteDirect)
       \/ \E cred \in Readers, subj \in Subjects, acting \in Installs \cup {Nil} :
            Authorize(cred, subj, "read", acting)
       \/ \E cred \in Readers : ListRead(cred)
       \/ \E r \in list : ListAudits(r)
       \/ Tick
       \/ \E org \in Orgs, user \in Users : MembershipChanges(org, user)) => UNCHANGED <<grants, narrowed>>
  BY Zenon DEF UnshareChecks, Authorize, ListRead, ListAudits, Tick, MembershipChanges
<1> QED BY <1>1, <1>2, <1>3, <1>4, <1>5, <1>6, <1>7, Zenon DEF Next, vars

\* An inherited grant somebody narrowed with `unshare` stays narrowed, however
\* often the parent is materialized again, for any subjects, grants and bounds.
THEOREM NarrowedStays == Spec => []NarrowedStaysNarrowed
<1>1. TombInv => NarrowedStaysNarrowed
  BY Zenon DEF TombInv
<1> QED BY TombInit, TombNext, <1>1, PTL DEF Spec

-----------------------------------------------------------------------------

\* What a credential reaches by ownership or an ordinary grant after rows are
\* added to a subject its principal owns, it reached before.
LEMMA OwnerGainsNothing ==
  ASSUME NEW more, Insert(more), UNCHANGED <<members, clock>>,
         NEW cred, NEW child, Owner[child] = cred.principal,
         \A g \in more : g.subj = child,
         NEW subj, NEW access,
         PrincipalReason(cred, subj, access)' \in {"owner", "grant", "org_grant"}
  PROVE  PrincipalReason(cred, subj, access) # Nil
<1>1. grants' = grants \cup more
  BY Zenon DEF Insert
<1>2. ActingKind(cred)' = ActingKind(cred) /\ ActingKind(cred) # Nil
  BY Zenon DEF PrincipalReason, ActingKind, Member, Nil
<1>3. CASE subj = child
  BY <1>2, <1>3, Zenon DEF PrincipalReason, Nil
<1>4. CASE subj # child
  <2>1. On(subj, access)' = On(subj, access)
    BY <1>1, <1>4, Zenon DEF On, Live
  <2>2. /\ ToPrincipal(cred, subj, access)' = ToPrincipal(cred, subj, access)
        /\ ToOrgOf(cred, subj, access)' = ToOrgOf(cred, subj, access)
    BY <2>1, Zenon DEF ToPrincipal, ToOrgOf, Member
  <2> QED BY <1>2, <2>2, Zenon DEF PrincipalReason, Nil
<1> QED BY <1>3, <1>4, Zenon

\* Writing a grant never gives the writer anything, for rows written one by one
\* and for rows inherited (the grants_issue_policy trigger, `write_grant`,
\* `materialize_inherited`, `unshare`).
THEOREM WriterGainsNothing == Spec => NoWriterGains
<1> DEFINE Gainless(g) ==
      \A subj \in Subjects, access \in {"read", "write", "call"} :
        PrincipalReason(g.by, subj, access)' \in {"owner", "grant", "org_grant"}
          => PrincipalReason(g.by, subj, access) # Nil
<1>1. TombInv /\ [Next]_vars =>
        [\A g \in grants' \ grants : g.source # "override" /\ ~g.revoked => Gainless(g)]_vars
  <2> SUFFICES ASSUME TombInv, Next, NEW g \in grants' \ grants, g.source # "override", ~g.revoked
               PROVE  Gainless(g)
    BY Zenon
  <2>1. ASSUME NEW o \in Offers, WriteGrant(o) PROVE Gainless(g)
    <3> DEFINE new == Row(nextId, o.subj, o.target, o.access, "direct", <<>>, o.cred, Expiry(o.life))
    <3>1. Insert({new}) /\ UNCHANGED <<members, clock>> /\ Owner[o.subj] = o.cred.principal
      BY <2>1, Zenon DEF WriteGrant, IssueAllowed
    <3>2. new.subj = o.subj /\ new.by = o.cred
      BY Zenon DEF Row
    <3> HIDE DEF new
    <3>3. g = new
      BY <3>1, Zenon DEF Insert
    <3> QED BY <3>1, <3>2, <3>3, OwnerGainsNothing
  <2>2. ASSUME NEW l \in Lineage, NEW cred \in Readers, Materialize(l[1], l[2], cred) PROVE Gainless(g)
    <3> DEFINE child == l[2]
    <3>1. PICK more : /\ Insert(more) /\ UNCHANGED <<members, clock>>
                      /\ \A r \in more : r.subj = child /\ r.by = cred
                      /\ more # {} => Owner[child] = cred.principal
      BY <2>2, InheritedRows
    <3> HIDE DEF child
    <3>2. g \in more
      BY <3>1, Zenon DEF Insert
    <3> QED BY <3>1, <3>2, OwnerGainsNothing
  <2>3. ASSUME NEW r \in grants, RevokeGrant(r) PROVE FALSE
    BY <2>3, Zenon DEF RevokeGrant, Delete
  <2>4. ASSUME NEW subj \in Subjects, NEW cred \in Readers, BreakGlass(subj, cred, 1) PROVE FALSE
    BY <2>4 DEF BreakGlass, Row
  <2>5. CASE UnshareActs
    <3>1. PICK s \in grants : g = [s EXCEPT !.revoked = TRUE]
      BY <2>5, Zenon DEF UnshareActs, Between
    <3>2. g.revoked
      BY <3>1, Zenon DEF TombInv, IsRow
    <3> QED BY <3>2, Zenon
  <2>6. (\/ \E l \in Lineage, to \in Principals, deleteDirect \in BOOLEAN :
              UnshareChecks(l[2], to, deleteDirect)
         \/ \E cred \in Readers, subj \in Subjects, acting \in Installs \cup {Nil} :
              Authorize(cred, subj, "read", acting)
         \/ \E cred \in Readers : ListRead(cred)
         \/ \E r \in list : ListAudits(r)
         \/ Tick
         \/ \E org \in Orgs, user \in Users : MembershipChanges(org, user)) => grants' = grants
    BY Zenon DEF UnshareChecks, Authorize, ListRead, ListAudits, Tick, MembershipChanges
  <2> HIDE DEF Gainless
  <2> QED BY <2>1, <2>2, <2>3, <2>4, <2>5, <2>6, Zenon DEF Next
<1>2. Spec => []TombInv
  BY TombInit, TombNext, PTL DEF Spec
<1> QED BY <1>1, <1>2, PTL DEF Spec, NoWriterGains

-----------------------------------------------------------------------------
(***************************************************************************)
(* Documents, and the jobs.                                                *)
(***************************************************************************)

HeldInv ==
  /\ \A d \in Stored : \A b \in Named(doc[d].body) :
       \E who \in Parties : <<who, b, d>> \in refs
  /\ \A r \in refs : r[2] \in bytes

TypeOK ==
  /\ doc = [d \in Docs |-> doc[d]]
  /\ tx = [p \in Parties |-> tx[p]]
  /\ \A p \in Parties : tx[p] # None =>
       tx[p].d \in Docs /\ tx[p].body \in Bodies /\ tx[p].trust \in Levels

-----------------------------------------------------------------------------

\* Linking what a body names keeps HeldInv; the document written is d.
LEMMA RelinkKeeps ==
  ASSUME HeldInv, TypeOK, NEW who \in Parties, NEW d \in Docs, NEW body, NEW t,
         CanLink(who, d, Named(body)),
         doc' = [doc EXCEPT ![d] = [body |-> body, trust |-> t]],
         refs' = Relinked(who, d, Named(body)),
         bytes' = bytes
  PROVE  HeldInv'
<1> DEFINE named == Named(body)
<1>1. \A b \in named : b \in bytes
  BY ZenonT(30) DEF CanLink, HeldBySource, HoldsRef, HeldInv
<1>2. \A b \in named : <<who, b, d>> \in refs'
  BY Zenon DEF Relinked
<1>3. \A r \in refs' : r \in refs \/ \E b \in named : r = <<who, b, d>>
  BY Zenon DEF Relinked
<1>4. \A r \in refs' : r[2] \in bytes'
  BY <1>1, <1>3 DEF HeldInv
<1>5. \A e \in Docs \ {d} : doc'[e] = doc[e]
  BY Zenon DEF TypeOK
<1>6. doc'[d].body = body
  BY Zenon DEF TypeOK
<1>7. \A e \in Docs \ {d} : \A b, p : <<p, b, e>> \in refs => <<p, b, e>> \in refs'
  BY Zenon DEF Relinked
<1>8. ASSUME NEW e \in Stored', NEW b \in Named(doc'[e].body)
      PROVE  \E p \in Parties : <<p, b, e>> \in refs'
  <2>1. CASE e = d
    BY <1>2, <1>6, <2>1, Zenon
  <2>2. CASE e # d
    BY <1>5, <1>7, <1>8, <2>2, Zenon DEF HeldInv, Stored
  <2> QED
    BY <2>1, <2>2, Zenon
<1> QED
  BY <1>4, <1>8, Zenon DEF HeldInv, Named

\* Every step keeps HeldInv.
LEMMA HeldStep == TypeOK /\ HeldInv /\ [DocsNext]_docsVars => TypeOK' /\ HeldInv'
<1> SUFFICES ASSUME TypeOK, HeldInv, [DocsNext]_docsVars PROVE TypeOK' /\ HeldInv'
  BY Zenon
<1>1. ASSUME UNCHANGED <<doc, refs, bytes, tx>> PROVE TypeOK' /\ HeldInv'
  BY <1>1, ZenonT(30) DEF TypeOK, HeldInv, Stored
<1>2. ASSUME NEW d \in Docs, NEW body \in Bodies, InsertDoc(d, body)
      PROVE  TypeOK' /\ HeldInv'
  <2>1. TypeOK'
    BY <1>2, Zenon DEF InsertDoc, TypeOK
  <2>2. HeldInv'
    BY <1>2, RelinkKeeps, ZenonT(30) DEF InsertDoc, Parties
  <2> QED
    BY <2>1, <2>2, Zenon
<1>3. ASSUME NEW d \in Docs, NEW body \in Bodies, NEW who \in Parties,
             UpdateReads(who, d, body)
      PROVE  TypeOK' /\ HeldInv'
  BY <1>3, ZenonT(30) DEF UpdateReads, TypeOK, HeldInv, Stored, Weaker, Levels
<1>4. ASSUME NEW who \in Parties, UpdateWrites(who) PROVE TypeOK' /\ HeldInv'
  <2>1. TypeOK'
    BY <1>4, Zenon DEF UpdateWrites, TypeOK
  <2> DEFINE d == tx[who].d
             body == tx[who].body
             t == tx[who].trust
  <2>0. d \in Docs /\ bytes' = bytes
    BY <1>4, Zenon DEF UpdateWrites, TypeOK
  <2>2. CASE UNCHANGED <<doc, refs>>
    BY <2>0, <2>1, <2>2, ZenonT(30) DEF HeldInv, Stored
  <2>3. CASE /\ CanLink(who, d, Named(body))
             /\ doc' = [doc EXCEPT ![d] = [body |-> body, trust |-> t]]
             /\ refs' = Relinked(who, d, Named(body))
    <3> HIDE DEF d, body, t
    <3> QED
      BY <2>0, <2>1, <2>3, RelinkKeeps, ZenonT(30)
  <2> QED
    BY <1>4, <2>1, <2>2, <2>3, Zenon DEF UpdateWrites
<1>5. ASSUME NEW d \in Docs, DeleteDoc(d) PROVE TypeOK' /\ HeldInv'
  <2>1. TypeOK'
    BY <1>5, Zenon DEF DeleteDoc, TypeOK
  <2>2. \A e \in Stored' : e \in Stored /\ e # d /\ doc'[e] = doc[e]
    BY <1>5, Zenon DEF DeleteDoc, TypeOK, Stored
  <2>3. \A e \in Docs \ {d} : \A b, p : <<p, b, e>> \in refs => <<p, b, e>> \in refs'
    BY <1>5, Zenon DEF DeleteDoc
  <2> QED
    BY <1>5, <2>1, <2>2, <2>3, Zenon DEF DeleteDoc, HeldInv, Stored
<1>6. ASSUME NEW d \in Docs, Share(d) PROVE TypeOK' /\ HeldInv'
  BY <1>1, <1>6, Zenon DEF Share
<1>7. ASSUME NEW who \in Parties, NEW b \in Blobs, AppendBlob(who, b) \/ ReleaseUpload(who, b)
      PROVE  TypeOK' /\ HeldInv'
  <2>1. UNCHANGED <<doc, tx>> /\ bytes \subseteq bytes'
    BY <1>7, Zenon DEF AppendBlob, ReleaseUpload
  <2>2. \A e \in Docs : \A x, p : <<p, x, e>> \in refs => <<p, x, e>> \in refs'
    BY <1>7, DocumentConstants, Zenon DEF AppendBlob, ReleaseUpload
  <2>3. \A r \in refs' : r \in refs \/ r[2] \in bytes'
    BY <1>7 DEF AppendBlob, ReleaseUpload
  <2> QED
    BY <2>1, <2>2, <2>3, ZenonT(30) DEF TypeOK, HeldInv, Stored
<1>8. ASSUME NEW b \in Blobs, Sweep(b) PROVE TypeOK' /\ HeldInv'
  BY <1>8, ZenonT(30) DEF Sweep, TypeOK, HeldInv, Stored
<1>9. CASE \/ \E field \in Plans : RegisterBuild(field)
           \/ \E search \in BOOLEAN : BeginListing(search)
           \/ ReadBatch \/ EndListing
  BY <1>1, <1>9, ZenonT(30) DEF RegisterBuild, BeginListing, ReadBatch, EndListing
<1>10. CASE UNCHANGED docsVars
  BY <1>1, <1>10, Zenon DEF docsVars
<1> QED
  BY <1>2, <1>3, <1>4, <1>5, <1>6, <1>7, <1>8, <1>9, <1>10, Zenon DEF DocsNext

\* Whatever is updated, deleted, released and swept, in whatever order and by
\* whom, the blobs a stored document names are stored.
THEOREM NamedStay == DocsSpec => []NamedBytesStay
<1>1. DocsInit => TypeOK /\ HeldInv
  BY Zenon DEF DocsInit, TypeOK, HeldInv, Stored
<1>2. HeldInv => NamedBytesStay
  BY ZenonT(30) DEF HeldInv, NamedBytesStay
<1> QED
  BY <1>1, <1>2, HeldStep, PTL DEF DocsSpec

-----------------------------------------------------------------------------

\* Until a build is registered nothing can be inserted.
MirrorInv ==
  /\ index = None => Stored = {} /\ mirror = {}
  /\ index \in Plans \cup {None}
  /\ SearchIsExact

\* Writing one document moves it in or out of the mirror and leaves the rest.
LEMMA MirrorWritten ==
  ASSUME TypeOK, MirrorInv, index # None, NEW d \in Docs, NEW body \in Bodies, NEW t \in Levels,
         doc' = [doc EXCEPT ![d] = [body |-> body, trust |-> t]],
         mirror' = MirrorUpdated(d, body), index' = index
  PROVE  MirrorInv'
<1>1. \A e \in Docs : doc'[e] = IF e = d THEN [body |-> body, trust |-> t] ELSE doc[e]
  BY Zenon DEF TypeOK
<1>2. \A e \in Docs : e \in mirror' <=> e \in Stored' /\ index' \in doc'[e].body.has
  BY <1>1, DocumentConstants DEF MirrorInv, SearchIsExact, MirrorUpdated, InMirror, Stored
<1>3. mirror' \subseteq Docs
  BY Zenon DEF MirrorInv, SearchIsExact, MirrorUpdated, Stored
<1> QED
  BY <1>2, <1>3, Zenon DEF MirrorInv, SearchIsExact, Stored

\* Every step keeps the mirror, if every build indexes the same field.
LEMMA MirrorStep ==
  ASSUME \A f, g \in Plans : f = g
  PROVE  TypeOK /\ MirrorInv /\ [DocsNext]_docsVars => MirrorInv'
<1> SUFFICES ASSUME TypeOK, MirrorInv, [DocsNext]_docsVars PROVE MirrorInv'
  BY Zenon
<1>1. ASSUME UNCHANGED <<doc, index, mirror>> PROVE MirrorInv'
  BY <1>1, Zenon DEF MirrorInv, SearchIsExact, Stored
<1>2. ASSUME NEW d \in Docs, NEW body \in Bodies, InsertDoc(d, body) PROVE MirrorInv'
  BY <1>2, MirrorWritten, DocumentConstants, ZenonT(30) DEF InsertDoc
<1>3. ASSUME NEW who \in Parties, UpdateWrites(who) PROVE MirrorInv'
  <2> DEFINE d == tx[who].d
             body == tx[who].body
             t == tx[who].trust
  <2>1. d \in Docs /\ body \in Bodies /\ t \in Levels /\ index' = index
    BY <1>3, Zenon DEF UpdateWrites, TypeOK
  <2>2. CASE UNCHANGED <<doc, mirror>>
    BY <1>1, <2>1, <2>2, Zenon
  <2>3. CASE /\ doc[d] # None
             /\ doc' = [doc EXCEPT ![d] = [body |-> body, trust |-> t]]
             /\ mirror' = MirrorUpdated(d, body)
    <3>1. index # None
      BY <2>1, <2>3, Zenon DEF MirrorInv, Stored
    <3> HIDE DEF d, body, t
    <3> QED
      BY <2>1, <2>3, <3>1, MirrorWritten, ZenonT(30)
  <2> QED
    BY <1>3, <2>2, <2>3, Zenon DEF UpdateWrites
<1>4. ASSUME NEW d \in Docs, DeleteDoc(d) PROVE MirrorInv'
  <2>1. \A e \in Docs : doc'[e] = IF e = d THEN None ELSE doc[e]
    BY <1>4, Zenon DEF DeleteDoc, TypeOK
  <2> QED
    BY <1>4, <2>1, Zenon DEF DeleteDoc, MirrorInv, SearchIsExact, Stored
<1>5. ASSUME NEW field \in Plans, RegisterBuild(field) PROVE MirrorInv'
  <2>1. index = None /\ index' = field
    BY <1>5, Zenon DEF RegisterBuild, MirrorInv, Indexed
  <2> QED
    BY <1>5, <2>1, Zenon DEF RegisterBuild, MirrorInv, SearchIsExact, Stored
<1>6. ASSUME NEW d \in Docs, NEW body \in Bodies, NEW who \in Parties,
             UpdateReads(who, d, body)
      PROVE  MirrorInv'
  BY <1>1, <1>6, Zenon DEF UpdateReads
<1>7. ASSUME NEW who \in Parties, NEW b \in Blobs, AppendBlob(who, b) \/ ReleaseUpload(who, b)
      PROVE  MirrorInv'
  BY <1>1, <1>7, Zenon DEF AppendBlob, ReleaseUpload
<1>8. CASE (\E d \in Docs : Share(d)) \/ (\E b \in Blobs : Sweep(b))
  BY <1>1, <1>8, Zenon DEF Share, Sweep
<1>9. CASE \/ \E search \in BOOLEAN : BeginListing(search)
           \/ ReadBatch \/ EndListing
  BY <1>1, <1>9, ZenonT(30) DEF BeginListing, ReadBatch, EndListing
<1>10. CASE UNCHANGED docsVars
  BY <1>1, <1>10, Zenon DEF docsVars
<1> QED
  BY <1>2, <1>3, <1>4, <1>5, <1>6, <1>7, <1>8, <1>9, <1>10, Zenon DEF DocsNext

\* As long as no build indexes another field, a search finds exactly the
\* documents that hold the word, after any sequence of writes.
THEOREM SearchExact ==
  ASSUME \A f, g \in Plans : f = g
  PROVE  DocsSpec => []SearchIsExact
<1>1. DocsInit => TypeOK /\ HeldInv /\ MirrorInv
  BY Zenon DEF DocsInit, TypeOK, HeldInv, MirrorInv, SearchIsExact, Stored
<1>2. MirrorInv => SearchIsExact
  BY Zenon DEF MirrorInv
<1>3. TypeOK /\ MirrorInv /\ [DocsNext]_docsVars => MirrorInv'
  BY MirrorStep, Zenon
<1> QED
  BY <1>1, <1>2, <1>3, HeldStep, PTL DEF DocsSpec

-----------------------------------------------------------------------------
(* Listings.                                                                *)

Less == {p \in Nat \X Nat : p[1] < p[2]}

\* A set of naturals has a least element, and a finite one of documents a last.
LEMMA LeastExists ==
  ASSUME NEW T, T \subseteq Nat, T # {}
  PROVE  \E x \in T : \A y \in T : x <= y
<1>1. IsWellFoundedOn(Less, Nat)
  BY NatLessThanWellFounded, Zenon DEF OpToRel, Less
<1>2. PICK x \in T : \A y \in T : ~(<<y, x>> \in Less)
  BY <1>1, WFMin, Zenon
<1>3. \A a, b \in Nat : a < b => <<a, b>> \in Less
  BY Zenon DEF Less
<1>4. \A y \in T : ~(y < x)
  BY <1>2, <1>3, ZenonT(30)
<1> QED BY <1>4

LEMMA LastExists ==
  ASSUME born \in [Docs -> Nat], NEW S, S \subseteq Docs, S # {}
  PROVE  LastOf(S) \in S /\ \A e \in S : born[LastOf(S)] <= born[e]
<1> DEFINE T == {born[d] : d \in S}
<1>1. T \subseteq Nat /\ T # {}
  BY Zenon
<1>2. PICK x \in T : \A y \in T : x <= y
  <2> HIDE DEF T
  <2> QED BY <1>1, LeastExists, ZenonT(30)
<1>3. PICK d \in S : x = born[d]
  BY Zenon
<1>4. \A e \in S : born[d] <= born[e]
  BY <1>2, <1>3, Zenon
<1> QED BY <1>4, Zenon DEF LastOf

LEMMA NewestExists ==
  ASSUME born \in [Docs -> Nat], created \in Nat, \A d \in Docs : born[d] <= created, NEW S, S \subseteq Docs, S # {}
  PROVE  \E d \in S : \A e \in S : born[e] <= born[d]
<1> DEFINE T == {created - born[d] : d \in S}
<1>1. T \subseteq Nat /\ T # {}
  <2>1. \A d \in S : created - born[d] \in Nat
    OBVIOUS
  <2> QED BY <2>1, Zenon
<1>2. PICK x \in T : \A y \in T : x <= y
  <2> HIDE DEF T
  <2> QED BY <1>1, LeastExists, ZenonT(30)
<1>3. PICK d \in S : x = created - born[d]
  BY Zenon
<1>4. ASSUME NEW e \in S PROVE born[e] <= born[d]
  <2>1. created - born[d] <= created - born[e]
    BY <1>2, <1>3, Zenon
  <2>2. born[d] \in Nat /\ born[e] \in Nat
    BY Zenon
  <2> QED BY <2>1, <2>2
<1> QED BY <1>4, Zenon

\* What LIMIT leaves out is older than all it returns.
LEMMA NewestFirst ==
  ASSUME born \in [Docs -> Nat], NEW S, S \subseteq Docs, IsFiniteSet(S), NEW n \in Nat,
         NEW d \in S, d \notin Newest(S, n), NEW e \in Newest(S, n)
  PROVE  born[d] < born[e]
<1> DEFINE Above(x) == {f \in S : born[f] > born[x]}
<1>1. e \in S /\ Cardinality(Above(e)) < n /\ ~(Cardinality(Above(d)) < n)
  BY Zenon DEF Newest
<1>2. SUFFICES ASSUME born[e] <= born[d] PROVE FALSE
  BY <1>1
<1>3. Above(d) \in SUBSET Above(e)
  BY <1>1, <1>2
<1>4. IsFiniteSet(Above(e))
  BY FS_Subset, Zenon
<1>5. IsFiniteSet(Above(d)) /\ Cardinality(Above(d)) <= Cardinality(Above(e))
  BY <1>3, <1>4, FS_Subset, Zenon
<1>6. Cardinality(Above(d)) \in Nat /\ Cardinality(Above(e)) \in Nat
  BY <1>4, <1>5, FS_CardinalityType, Zenon
<1> QED BY <1>1, <1>5, <1>6

\* A read that is not full returned everything.
LEMMA NewestIsAll ==
  ASSUME born \in [Docs -> Nat], created \in Nat, \A d \in Docs : born[d] <= created,
         NEW S, S \subseteq Docs, IsFiniteSet(S), NEW n \in Nat, Cardinality(Newest(S, n)) < n
  PROVE  Newest(S, n) = S
<1> DEFINE R == S \ Newest(S, n)
<1>1. SUFFICES ASSUME R # {} PROVE FALSE
  BY Zenon DEF Newest
<1>2. PICK e \in R : \A f \in R : born[f] <= born[e]
  <2>1. R \subseteq Docs
    BY Zenon
  <2> HIDE DEF R
  <2> QED BY <1>1, <2>1, NewestExists, Zenon
<1> DEFINE B == {f \in S : born[f] > born[e]}
<1>3. B \in SUBSET Newest(S, n)
  <2>1. \A f \in S : born[f] \in Nat
    BY Zenon
  <2> QED BY <1>2, <2>1
<1>4. IsFiniteSet(Newest(S, n))
  BY FS_Subset, ZenonT(30) DEF Newest
<1>5. IsFiniteSet(B) /\ Cardinality(B) <= Cardinality(Newest(S, n))
  <2> HIDE DEF B
  <2> QED BY <1>3, <1>4, FS_Subset, Zenon
<1>6. Cardinality(B) \in Nat /\ Cardinality(Newest(S, n)) \in Nat
  BY <1>4, <1>5, FS_CardinalityType, Zenon
<1>7. Cardinality(B) < n
  BY <1>5, <1>6
<1> QED BY <1>2, <1>7, Zenon DEF Newest

LEMMA NewestOfFew ==
  ASSUME NEW S, IsFiniteSet(S), NEW n \in Nat, Cardinality(S) < n
  PROVE  Newest(S, n) = S
<1> SUFFICES ASSUME NEW d \in S PROVE Cardinality({e \in S : born[e] > born[d]}) < n
  BY Zenon DEF Newest
<1> DEFINE B == {e \in S : born[e] > born[d]}
<1>1. B \in SUBSET S
  BY Zenon
<1>2. IsFiniteSet(B) /\ Cardinality(B) <= Cardinality(S)
  <2> HIDE DEF B
  <2> QED BY <1>1, FS_Subset, Zenon
<1>3. Cardinality(B) \in Nat /\ Cardinality(S) \in Nat
  BY <1>2, FS_CardinalityType, Zenon
<1> QED BY <1>2, <1>3

PageType ==
  page \in [state : {"idle", "reading", "done"}, search : BOOLEAN, after : Docs \cup {None},
            out : SUBSET Docs, got : SUBSET Docs, due : SUBSET Docs, cut : BOOLEAN]

BornInv ==
  /\ created \in Nat /\ born \in [Docs -> Nat] /\ \A d \in Docs : born[d] <= created
  /\ IsFiniteSet(Stored)

\* What is due is still there for the statement to find.
DueInv == \A d \in page.due : d \in Stored /\ doc[d].body.match /\ (page.search => d \in mirror)

\* A page that is being filled has room.
RoomInv == IsFiniteSet(page.out) /\ Cardinality(page.out) < Limit

\* What is due was returned or is past the cursor, whose document is there.
ReachInv ==
  page.state # "idle" /\ ~page.cut =>
    /\ page.after # None => page.after \in Stored
    /\ page.state = "reading" =>
         \A d \in page.due : d \in page.got \cup page.out \/ page.after = None \/ born[d] < born[page.after]
    /\ page.state = "done" => page.due \subseteq page.got

ListInv == PageType /\ BornInv /\ DueInv /\ RoomInv /\ ReachInv

\* One read: what is due and not yet returned is in the rows past the cursor, so it
\* is taken, or older than the cursor the read leaves.
LEMMA ReadBatchKeeps ==
  ASSUME TypeOK, ListInv, ReadBatch
  PROVE  ListInv'
<1> DEFINE S     == Searched(PastCursor(page.after))
           batch == Rows(page.after)
           hits  == Matching(batch)
           room  == Limit - Cardinality(page.out)
           full  == Cardinality(hits) >= room
           taken == Newest(hits, room)
           short == Cardinality(batch) < Batch
           after == IF full THEN LastOf(taken) ELSE IF batch = {} THEN page.after ELSE LastOf(batch)
<1>0. Limit \in Nat /\ Limit > 0 /\ Batch \in Nat /\ Batch > 0 /\ None \notin Docs
  BY DocumentConstants
<1>1. /\ page.state = "reading" /\ UNCHANGED <<doc, born, created, mirror>>
      /\ page' = [page EXCEPT !.state = IF short /\ ~full THEN "done" ELSE "reading",
                              !.after = after,
                              !.out   = IF full THEN {} ELSE page.out \cup taken,
                              !.got   = IF full \/ short THEN page.got \cup page.out \cup taken ELSE page.got]
  BY Zenon DEF ReadBatch
<1>2. PageType /\ BornInv /\ DueInv /\ RoomInv /\ ReachInv
  BY Zenon DEF ListInv
<1>3. S \subseteq Stored /\ S \subseteq Docs /\ IsFiniteSet(S)
  <2>1. S \subseteq Stored
    BY Zenon DEF Searched, PastCursor
  <2> QED BY <1>2, <2>1, FS_Subset, Zenon DEF BornInv, Stored
<1>4. batch \subseteq S /\ hits \subseteq batch /\ IsFiniteSet(batch) /\ IsFiniteSet(hits) /\ hits \subseteq Docs /\ batch \subseteq Docs
  <2>1. batch \subseteq S /\ hits \subseteq batch
    BY Zenon DEF Rows, Newest, Matching
  <2> HIDE DEF S, batch, hits
  <2> QED BY <1>3, <2>1, FS_Subset, Zenon
<1>5. room \in Nat /\ room > 0 /\ Cardinality(hits) \in Nat /\ Cardinality(page.out) \in Nat
  <2>1. Cardinality(hits) \in Nat /\ Cardinality(page.out) \in Nat /\ Cardinality(page.out) < Limit
    <3> HIDE DEF hits
    <3> QED BY <1>2, <1>4, FS_CardinalityType, Zenon DEF RoomInv
  <2> QED BY <1>0, <2>1
<1>6. /\ born \in [Docs -> Nat] /\ created \in Nat /\ \A d \in Docs : born[d] <= created
      /\ page.out \subseteq Docs /\ page.got \subseteq Docs /\ page.due \subseteq Docs
  BY <1>2, Zenon DEF BornInv, PageType
<1>7. taken \subseteq hits /\ IsFiniteSet(taken)
  <2>1. taken \subseteq hits
    BY Zenon DEF Newest
  <2> HIDE DEF hits, taken
  <2> QED BY <1>4, <2>1, FS_Subset, Zenon
<1>8. ~full => taken = hits
  <2>1. ~full => Cardinality(hits) < room
    <3> HIDE DEF hits, room
    <3> QED BY <1>5
  <2> HIDE DEF hits, room, full
  <2> QED BY <1>4, <1>5, <2>1, NewestOfFew, Zenon
<1>9. full => taken # {}
  <2> SUFFICES ASSUME full, taken = {} PROVE FALSE
    BY Zenon
  <2>1. Cardinality(taken) = 0
    BY FS_EmptySet, Zenon
  <2>2. taken = hits
    <3> HIDE DEF hits, room
    <3> QED BY <1>4, <1>5, <1>6, <2>1, NewestIsAll, Zenon
  <2>3. Cardinality(hits) = 0
    BY <2>1, <2>2, Zenon
  <2> QED
    <3> HIDE DEF hits, room
    <3> QED BY <1>5, <2>3
<1> HIDE DEF S, hits, room, full, taken, short, after
<1>10. short => batch = S
  <2>1. batch = Newest(S, Batch)
    BY Zenon DEF Rows, S
  <2> HIDE DEF batch
  <2> QED BY <1>0, <1>3, <1>6, <2>1, NewestIsAll, Zenon DEF short
<1>11. batch = {} => short
  BY <1>0, FS_EmptySet, Zenon DEF short
<1>12. \A d \in S : d \notin batch => \A e \in batch : born[d] < born[e]
  <2>1. batch = Newest(S, Batch)
    BY Zenon DEF Rows, S
  <2> HIDE DEF batch
  <2> QED BY <1>0, <1>3, <1>6, <2>1, NewestFirst, Zenon
<1>13. \A d \in hits : d \notin taken => \A e \in taken : born[d] < born[e]
  BY <1>4, <1>5, <1>6, NewestFirst, Zenon DEF taken
<1> HIDE DEF batch
<1>14. /\ full => after \in taken
       /\ ~full /\ batch # {} => after \in batch
       /\ ~full /\ batch = {} => after = page.after
  <2>1. full => LastOf(taken) \in taken
    BY <1>4, <1>6, <1>7, <1>9, LastExists, Zenon
  <2>2. batch # {} => LastOf(batch) \in batch
    BY <1>4, <1>6, LastExists, Zenon
  <2> QED BY <2>1, <2>2, Zenon DEF after
<1>15. PageType'
  <2>1. after \in Docs \cup {None}
    BY <1>2, <1>4, <1>7, <1>14, Zenon DEF PageType
  <2> QED BY <1>1, <1>2, <1>4, <1>7, <2>1, ZenonT(30) DEF PageType
<1>16. /\ page'.due = page.due /\ page'.search = page.search /\ page'.cut = page.cut /\ page'.after = after
       /\ page'.state = (IF short /\ ~full THEN "done" ELSE "reading")
       /\ page'.out = (IF full THEN {} ELSE page.out \cup taken)
       /\ page'.got = (IF full \/ short THEN page.got \cup page.out \cup taken ELSE page.got)
  BY <1>1, <1>2, Zenon DEF PageType
<1>17. BornInv' /\ DueInv'
  <2>1. Stored' = Stored
    BY <1>1, Zenon DEF Stored
  <2> QED BY <1>1, <1>2, <1>16, <2>1, Zenon DEF BornInv, DueInv
<1>18. RoomInv'
  <2>1. CASE full
    BY <1>0, <1>16, <2>1, FS_EmptySet, Zenon DEF RoomInv
  <2>2. CASE ~full
    <3>1. IsFiniteSet(page.out \cup hits) /\ Cardinality(page.out \cup hits) <= Cardinality(page.out) + Cardinality(hits)
      <4>1. IsFiniteSet(page.out) /\ IsFiniteSet(hits)
        BY <1>2, <1>4, Zenon DEF RoomInv
      <4>2. /\ IsFiniteSet(page.out \cup hits) /\ IsFiniteSet(page.out \cap hits)
            /\ Cardinality(page.out \cup hits) =
                 Cardinality(page.out) + Cardinality(hits) - Cardinality(page.out \cap hits)
        BY <4>1, FS_Union, FS_Intersection, Zenon
      <4>3. Cardinality(page.out \cap hits) \in Nat
        BY <4>2, FS_CardinalityType, Zenon
      <4> QED BY <1>5, <4>2, <4>3
    <3>2. Cardinality(hits) < Limit - Cardinality(page.out)
      BY <1>0, <1>5, <2>2 DEF full, room
    <3>3. Cardinality(page.out \cup hits) \in Nat
      BY <3>1, FS_CardinalityType, Zenon
    <3>4. Cardinality(page.out \cup hits) < Limit
      BY <1>0, <1>5, <3>1, <3>2, <3>3
    <3> QED BY <1>8, <1>16, <2>2, <3>1, <3>4, Zenon DEF RoomInv
  <2> QED BY <2>1, <2>2, Zenon
<1>19. ASSUME ~page.cut PROVE
         /\ page.after # None => page.after \in Stored
         /\ \A d \in page.due : d \in page.got \cup page.out \/ d \in S
  <2>1. /\ page.after # None => page.after \in Stored
        /\ \A d \in page.due : d \in page.got \cup page.out \/ page.after = None \/ born[d] < born[page.after]
    BY <1>1, <1>2, <1>19, Zenon DEF ReachInv
  <2>2. \A d \in page.due : d \in Stored /\ (page.search => d \in mirror)
    BY <1>2, Zenon DEF DueInv
  <2> QED BY <2>1, <2>2, Zenon DEF S, Searched, PastCursor, Stored
<1>20. \A d \in batch : d \in page.due => d \in hits
  BY <1>2, Zenon DEF hits, Matching, DueInv
<1>21. ASSUME ~page.cut, NEW d \in page.due, d \notin page.got \cup page.out, d \notin taken
       PROVE  batch # {} /\ born[d] < born[after] /\ ~(short /\ ~full)
  <2>1. d \in S
    BY <1>19, <1>21, Zenon
  <2>2. CASE full
    <3>1. after \in taken /\ after \in batch
      BY <1>4, <1>7, <1>14, <2>2, Zenon
    <3>2. CASE d \in batch
      BY <1>13, <1>20, <1>21, <2>2, <3>1, <3>2, Zenon
    <3>3. CASE d \notin batch
      BY <1>12, <2>1, <2>2, <3>1, <3>3, Zenon
    <3> QED BY <3>2, <3>3, Zenon
  <2>3. CASE ~full
    <3>1. d \notin batch
      BY <1>8, <1>20, <1>21, <2>3, Zenon
    <3>2. ~short /\ batch # {}
      BY <1>10, <1>11, <2>1, <3>1, Zenon
    <3> QED BY <1>12, <1>14, <2>1, <2>3, <3>1, <3>2, Zenon
  <2> QED BY <2>2, <2>3, Zenon
<1>22. ReachInv'
  <2> SUFFICES ASSUME ~page.cut
               PROVE  /\ after # None => after \in Stored'
                      /\ page'.state = "reading" =>
                           \A d \in page.due : d \in page'.got \cup page'.out \/ after = None \/ born'[d] < born'[after]
                      /\ page'.state = "done" => page.due \subseteq page'.got
    BY <1>16, Zenon DEF ReachInv
  <2>1. after # None => after \in Stored'
    BY <1>1, <1>3, <1>4, <1>7, <1>14, <1>19, Zenon DEF Stored
  <2>2. page.got \cup page.out \cup taken \subseteq page'.got \cup page'.out
    BY <1>16, Zenon
  <2>3. page'.state = "done" => page.due \subseteq page'.got
    BY <1>16, <1>21, Zenon
  <2> QED BY <1>1, <1>21, <2>1, <2>2, <2>3, Zenon
<1> QED BY <1>15, <1>17, <1>18, <1>22, Zenon DEF ListInv

\* A write to one document: it stays due only if the statement still finds it, and
\* the listing is cut only if it stood there.
LEMMA WrittenKeeps ==
  ASSUME TypeOK, ListInv, index # None, NEW d \in Docs, NEW body, NEW t, [body |-> body, trust |-> t] # None, d \in Stored,
         doc' = [doc EXCEPT ![d] = [body |-> body, trust |-> t]],
         mirror' = MirrorUpdated(d, body), StillDue(d, body), UNCHANGED <<born, created, index>>
  PROVE  ListInv'
<1>1. PageType /\ BornInv /\ DueInv /\ RoomInv /\ ReachInv
  BY Zenon DEF ListInv
<1>2. /\ \A e \in Docs : e # d => doc'[e] = doc[e]
      /\ doc'[d] = [body |-> body, trust |-> t] /\ doc'[d].body = body
  BY Zenon DEF TypeOK
<1>3. Stored' = Stored
  BY <1>2, Zenon DEF Stored
<1>4. /\ PageType' /\ page'.state = page.state /\ page'.search = page.search /\ page'.after = page.after
      /\ page'.out = page.out /\ page'.got = page.got /\ page'.due \subseteq page.due
      /\ d \in page'.due => body.match /\ (page.search => InMirror(body))
      /\ ~page'.cut => ~page.cut
  BY <1>1, ZenonT(30) DEF PageType, StillDue
<1>5. \A e \in page.due : e # d /\ e \in mirror => e \in mirror'
  BY Zenon DEF MirrorUpdated
<1>6. InMirror(body) => d \in mirror'
  BY Zenon DEF MirrorUpdated
<1>7. DueInv'
  <2> SUFFICES ASSUME NEW e \in page'.due
               PROVE  e \in Stored' /\ doc'[e].body.match /\ (page'.search => e \in mirror')
    BY Zenon DEF DueInv
  <2>1. e \in Docs /\ e \in page.due
    BY <1>1, <1>4, Zenon DEF PageType
  <2>2. CASE e = d
    BY <1>2, <1>3, <1>4, <1>6, <2>2, Zenon
  <2>3. CASE e # d
    BY <1>1, <1>2, <1>3, <1>4, <1>5, <2>1, <2>3, Zenon DEF DueInv
  <2> QED BY <2>2, <2>3, Zenon
<1>8. BornInv' /\ RoomInv'
  BY <1>1, <1>3, <1>4, Zenon DEF BornInv, RoomInv
<1>9. ReachInv'
  BY <1>1, <1>3, <1>4, Zenon DEF ReachInv
<1> QED BY <1>4, <1>7, <1>8, <1>9, Zenon DEF ListInv

\* A new document is due to no listing that has begun.
LEMMA InsertKeeps ==
  ASSUME TypeOK, ListInv, NEW d \in Docs, NEW body \in Bodies, InsertDoc(d, body)
  PROVE  ListInv'
<1>1. PageType /\ BornInv /\ DueInv /\ RoomInv /\ ReachInv
  BY Zenon DEF ListInv
<1>2. /\ doc[d] = None /\ doc' = [doc EXCEPT ![d] = [body |-> body, trust |-> body.trust]]
      /\ created' = created + 1 /\ born' = [born EXCEPT ![d] = created + 1]
      /\ mirror' = MirrorUpdated(d, body) /\ UNCHANGED <<index, page>>
  BY Zenon DEF InsertDoc
<1>3. [body |-> body, trust |-> body.trust] # None
  BY DocumentConstants, Zenon
<1>4. /\ Stored' = Stored \cup {d} /\ d \notin Stored
      /\ \A e \in Stored : doc'[e] = doc[e] /\ born'[e] = born[e] /\ (e \in mirror => e \in mirror')
  BY <1>1, <1>2, <1>3, Zenon DEF Stored, TypeOK, BornInv, MirrorUpdated
<1>5. BornInv'
  <2>1. IsFiniteSet(Stored')
    BY <1>1, <1>4, FS_AddElement, Zenon DEF BornInv
  <2>2. created \in Nat /\ born \in [Docs -> Nat] /\ \A e \in Docs : born[e] <= created
    BY <1>1, Zenon DEF BornInv
  <2>3. created' \in Nat /\ born' \in [Docs -> Nat] /\ \A e \in Docs : born'[e] <= created'
    BY <1>2, <2>2
  <2> QED BY <2>1, <2>3, Zenon DEF BornInv
<1>6. DueInv'
  BY <1>1, <1>2, <1>4, Zenon DEF DueInv
<1>7. PageType' /\ RoomInv'
  BY <1>1, <1>2, Zenon DEF PageType, RoomInv
<1>8. ReachInv'
  <2>1. \A e \in page.due : e \in Stored
    BY <1>1, Zenon DEF DueInv
  <2> QED BY <1>1, <1>2, <1>4, <2>1, Zenon DEF ReachInv
<1> QED BY <1>5, <1>6, <1>7, <1>8, Zenon DEF ListInv

LEMMA DeleteKeeps ==
  ASSUME TypeOK, ListInv, NEW d \in Docs, DeleteDoc(d)
  PROVE  ListInv'
<1>1. PageType /\ BornInv /\ DueInv /\ RoomInv /\ ReachInv
  BY Zenon DEF ListInv
<1>2. /\ doc' = [doc EXCEPT ![d] = None] /\ mirror' = mirror \ {d} /\ StillDue(d, None)
      /\ UNCHANGED <<born, created, index>>
  BY Zenon DEF DeleteDoc
<1>3. Stored' = Stored \ {d} /\ \A e \in Stored : e # d => doc'[e] = doc[e]
  BY <1>2, Zenon DEF Stored, TypeOK
<1>4. /\ PageType' /\ page'.state = page.state /\ page'.search = page.search /\ page'.after = page.after
      /\ page'.out = page.out /\ page'.got = page.got /\ page'.due = page.due \ {d}
      /\ page.state # "idle" /\ ~page'.cut => ~page.cut /\ page.after # d
  BY <1>1, <1>2, ZenonT(30) DEF PageType, StillDue
<1>5. BornInv'
  <2>1. Stored' \in SUBSET Stored
    BY <1>3, Zenon
  <2> QED BY <1>1, <1>2, <2>1, FS_Subset, Zenon DEF BornInv
<1>6. DueInv'
  BY <1>1, <1>2, <1>3, <1>4, Zenon DEF DueInv
<1>7. RoomInv'
  BY <1>1, <1>4, Zenon DEF RoomInv
<1>8. ReachInv'
  BY <1>1, <1>2, <1>3, <1>4, Zenon DEF ReachInv
<1> QED BY <1>4, <1>5, <1>6, <1>7, <1>8, Zenon DEF ListInv

LEMMA UpdateWritesKeeps ==
  ASSUME TypeOK, MirrorInv, ListInv, NEW who \in Parties, UpdateWrites(who)
  PROVE  ListInv'
<1> DEFINE d == tx[who].d
           body == tx[who].body
           t == tx[who].trust
<1>1. d \in Docs /\ body \in Bodies /\ t \in Levels /\ UNCHANGED <<born, created, index>>
  BY Zenon DEF UpdateWrites, TypeOK
<1>2. CASE UNCHANGED <<doc, mirror, page>>
  BY <1>1, <1>2, Zenon DEF ListInv, PageType, BornInv, DueInv, RoomInv, ReachInv, Stored
<1>3. CASE /\ doc[d] # None
           /\ doc' = [doc EXCEPT ![d] = [body |-> body, trust |-> t]]
           /\ mirror' = MirrorUpdated(d, body) /\ StillDue(d, body)
  <2>1. d \in Stored /\ index # None
    BY <1>1, <1>3, Zenon DEF Stored, MirrorInv
  <2>2. [body |-> body, trust |-> t] # None
    BY <1>1, DocumentConstants, Zenon
  <2> HIDE DEF d, body, t
  <2> QED BY <1>1, <1>3, <2>1, <2>2, WrittenKeeps, ZenonT(30)
<1> QED BY <1>2, <1>3, Zenon DEF UpdateWrites

LEMMA BeginListingKeeps ==
  ASSUME TypeOK, MirrorInv, ListInv, NEW search \in BOOLEAN, BeginListing(search)
  PROVE  ListInv'
<1> DEFINE due == {d \in Stored : doc[d].body.match /\ (search => InMirror(doc[d].body))}
<1>1. PageType /\ BornInv
  BY Zenon DEF ListInv
<1>2. /\ page' = [state |-> "reading", search |-> search, after |-> None, out |-> {}, got |-> {},
                  due |-> due, cut |-> FALSE]
      /\ UNCHANGED <<doc, born, created, index, mirror>>
  BY ZenonT(30) DEF BeginListing, Idle
<1>3. Stored' = Stored
  BY <1>2, Zenon DEF Stored
<1>4. \A d \in due : d \in Stored /\ d \in Docs /\ doc[d].body.match /\ (search => d \in mirror)
  BY Zenon DEF MirrorInv, SearchIsExact, InMirror, Stored
<1> HIDE DEF due
<1>5. PageType' /\ BornInv' /\ DueInv' /\ ReachInv'
  BY <1>1, <1>2, <1>3, <1>4, Zenon DEF PageType, BornInv, DueInv, ReachInv
<1>6. RoomInv'
  BY <1>2, FS_EmptySet, DocumentConstants DEF RoomInv
<1> QED BY <1>5, <1>6, Zenon DEF ListInv

LEMMA ListStep ==
  ASSUME \A f, g \in Plans : f = g
  PROVE  TypeOK /\ MirrorInv /\ ListInv /\ [DocsNext]_docsVars => ListInv'
<1> SUFFICES ASSUME TypeOK, MirrorInv, ListInv, [DocsNext]_docsVars PROVE ListInv'
  BY Zenon
<1>1. ASSUME UNCHANGED <<doc, born, created, mirror, page>> PROVE ListInv'
  BY <1>1, Zenon DEF ListInv, PageType, BornInv, DueInv, RoomInv, ReachInv, Stored
<1>2. CASE EndListing
  <2>1. page' = Idle /\ UNCHANGED <<doc, born, created, mirror>>
    BY <1>2, Zenon DEF EndListing
  <2>2. RoomInv'
    BY <2>1, FS_EmptySet, DocumentConstants DEF RoomInv, Idle
  <2>3. PageType' /\ BornInv' /\ DueInv' /\ ReachInv'
    BY <2>1, Zenon DEF ListInv, PageType, BornInv, DueInv, ReachInv, Stored, Idle
  <2> QED BY <2>2, <2>3, Zenon DEF ListInv
<1>3. CASE \/ \E d \in Docs, body \in Bodies, who \in Parties : UpdateReads(who, d, body)
           \/ \E d \in Docs : Share(d)
           \/ \E who \in Parties, b \in Blobs : AppendBlob(who, b) \/ ReleaseUpload(who, b)
           \/ \E b \in Blobs : Sweep(b)
           \/ \E field \in Plans : RegisterBuild(field)
           \/ UNCHANGED docsVars
  BY <1>1, <1>3, ZenonT(30) DEF UpdateReads, Share, AppendBlob, ReleaseUpload, Sweep, RegisterBuild, docsVars
<1> QED BY <1>2, <1>3, InsertKeeps, UpdateWritesKeeps, DeleteKeeps, BeginListingKeeps, ReadBatchKeeps, Zenon DEF DocsNext

\* A listing that ran to its end returned every document that was stored and
\* matched throughout, whatever was written between its reads, for any batch and
\* page size (query_inner); only a cursor whose document went away cuts it short.
THEOREM ListingComplete ==
  ASSUME \A f, g \in Plans : f = g
  PROVE  DocsSpec => []ListingIsComplete
<1>1. DocsInit => TypeOK /\ HeldInv /\ MirrorInv /\ ListInv
  <2> SUFFICES ASSUME DocsInit PROVE TypeOK /\ HeldInv /\ MirrorInv /\ ListInv
    BY Zenon
  <2>1. TypeOK /\ HeldInv /\ MirrorInv
    BY Zenon DEF DocsInit, TypeOK, HeldInv, MirrorInv, SearchIsExact, Stored
  <2>2. Stored = {}
    BY Zenon DEF DocsInit, Stored
  <2>3. PageType /\ DueInv /\ ReachInv
    BY Zenon DEF DocsInit, Idle, PageType, DueInv, ReachInv
  <2>4. BornInv
    BY <2>2, FS_EmptySet DEF DocsInit, BornInv
  <2>5. RoomInv
    BY FS_EmptySet, DocumentConstants DEF DocsInit, Idle, RoomInv
  <2> QED BY <2>1, <2>3, <2>4, <2>5, Zenon DEF ListInv
<1>2. ListInv => ListingIsComplete
  BY Zenon DEF ListInv, ReachInv, ListingIsComplete
<1>3. TypeOK /\ MirrorInv /\ [DocsNext]_docsVars => MirrorInv'
  BY MirrorStep, Zenon
<1>4. TypeOK /\ MirrorInv /\ ListInv /\ [DocsNext]_docsVars => ListInv'
  BY ListStep, Zenon
<1> QED
  BY <1>1, <1>2, <1>3, <1>4, HeldStep, PTL DEF DocsSpec

-----------------------------------------------------------------------------
(* The model jobs                                                           *)

States == {"none", "pending", "claimed", "done", "failed"}
Places == {"idle", "claim", "call", "land", "finish"}

JobTypes ==
  /\ state \in [Jobs -> States]
  /\ by \in [Jobs -> Workers \cup {NoWorker}]
  /\ attempts \in [Jobs -> Nat] /\ answer \in [Jobs -> Nat]
  /\ pc \in [Workers -> Places]
  /\ job \in [Workers -> Nat]
  /\ attempt \in [Workers -> Nat]
  /\ outcome \in [Workers -> {"done", "failed"}]
  /\ \A w \in Workers : pc[w] # "idle" => job[w] \in Jobs

ClaimInv ==
  /\ \A w \in Workers : pc[w] \in {"claim", "finish"} => lock = w
  /\ \A w \in Workers : pc[w] = "claim" => state[job[w]] = "pending"
  /\ \A w \in Workers : pc[w] = "finish" => Holds(w)
  /\ \A w \in Workers :
       pc[w] \in {"call", "land", "finish"} /\ Holds(w) => attempt[w] = attempts[job[w]]
  /\ \A j \in Jobs : answer[j] # 0 => Ended(j) /\ answer[j] = attempts[j]

\* Whatever the engine, a worker that has claimed works for some attempt.
AnswerInv ==
  /\ \A w \in Workers : pc[w] \in {"call", "land", "finish"} => attempt[w] # 0
  /\ AnnouncedIffAnswered

-----------------------------------------------------------------------------

\* Every step keeps the types.
LEMMA JobTypesStep == JobTypes /\ [JobsNext]_jobsVars => JobTypes'
<1> SUFFICES ASSUME JobTypes, [JobsNext]_jobsVars PROVE JobTypes'
  BY Zenon
<1> USE DEF JobTypes, States, Places, rows, loop, Goto
<1>1. ASSUME NEW j \in Jobs, Submit(j) \/ LeaseLapses(j) PROVE JobTypes'
  BY <1>1, Zenon DEF Submit, LeaseLapses
<1>2. ASSUME NEW w \in Workers, Work(w) PROVE JobTypes'
  <2>1. CASE ClaimReads(w)
    BY <2>1 DEF ClaimReads, Jobs
  <2>2. CASE ClaimCommits(w)
    BY <2>2 DEF ClaimCommits
  <2>3. CASE CallReturns(w)
    BY <2>3, Zenon DEF CallReturns
  <2>4. CASE FinishReads(w)
    BY <2>4, Zenon DEF FinishReads
  <2>5. CASE FinishCommits(w)
    BY <2>5, Zenon DEF FinishCommits
  <2> QED
    BY <1>2, <2>1, <2>2, <2>3, <2>4, <2>5, Zenon DEF Work
<1>3. ASSUME NEW w \in Workers, Heartbeat(w) \/ HeartbeatFails(w) \/ WorkerStops(w)
      PROVE  JobTypes'
  BY <1>3, Zenon DEF Heartbeat, HeartbeatFails, WorkerStops
<1>4. CASE ReclaimFails
  BY <1>4, Zenon DEF ReclaimFails
<1>5. CASE ReclaimRequeues
  BY <1>5, Zenon DEF ReclaimRequeues
<1>6. CASE UNCHANGED jobsVars
  BY <1>6, Zenon DEF jobsVars
<1> QED
  BY <1>1, <1>2, <1>3, <1>4, <1>5, <1>6, Zenon DEF JobsNext

\* A claim and a finish each read and write under one lock.
LEMMA ClaimWork ==
  ASSUME Immediate, JobTypes, ClaimInv, NEW w \in Workers, Work(w)
  PROVE  ClaimInv'
<1> USE JobConstants DEF JobTypes, ClaimInv, Holds, Ended, Writable, BeginTx, EndTx, Goto, rows
<1>1. CASE ClaimReads(w)
  <2>1. PICK j \in Jobs : state[j] = "pending" /\ job' = [job EXCEPT ![w] = j]
    BY <1>1, ZenonT(30) DEF ClaimReads
  <2>2. /\ pc[w] = "idle" /\ BeginTx(w) /\ Goto(w, "claim")
        /\ UNCHANGED <<rows, attempt>>
    BY <1>1, Zenon DEF ClaimReads
  <2> QED
    BY <2>1, <2>2, SMTT(30)
<1>2. CASE ClaimCommits(w)
  BY <1>2, SMTT(30) DEF ClaimCommits
<1>3. CASE CallReturns(w)
  BY <1>3 DEF CallReturns
<1>4. CASE FinishReads(w)
  BY <1>4 DEF FinishReads
<1>5. CASE FinishCommits(w)
  BY <1>5 DEF FinishCommits
<1> QED
  BY <1>1, <1>2, <1>3, <1>4, <1>5, Zenon DEF Work

\* ClaimInv is inductive with one writer.
LEMMA ClaimStep == Immediate /\ JobTypes /\ ClaimInv /\ [JobsNext]_jobsVars => ClaimInv'
<1> SUFFICES ASSUME Immediate, JobTypes, ClaimInv, [JobsNext]_jobsVars PROVE ClaimInv'
  BY Zenon
<1> USE JobConstants DEF JobTypes, ClaimInv, Holds, Ended, Writable, Goto, rows, loop
<1>1. ASSUME NEW j \in Jobs, Submit(j) PROVE ClaimInv'
  BY <1>1 DEF Submit
<1>2. ASSUME NEW j \in Jobs, LeaseLapses(j) PROVE ClaimInv'
  BY <1>2, Zenon DEF LeaseLapses
<1>3. ASSUME NEW w \in Workers, Heartbeat(w) \/ HeartbeatFails(w) PROVE ClaimInv'
  BY <1>3 DEF Heartbeat, HeartbeatFails
<1>4. ASSUME NEW w \in Workers, WorkerStops(w) PROVE ClaimInv'
  BY <1>4 DEF WorkerStops, EndTx
<1>5. CASE ReclaimFails
  BY <1>5 DEF ReclaimFails
<1>6. CASE ReclaimRequeues
  BY <1>6 DEF ReclaimRequeues
<1>7. CASE UNCHANGED jobsVars
  BY <1>7, Zenon DEF jobsVars
<1> HIDE DEF JobTypes, ClaimInv
<1> QED
  BY <1>1, <1>2, <1>3, <1>4, <1>5, <1>6, <1>7, ClaimWork, Zenon DEF JobsNext

\* With one writer, the answer a row carries is that of the last attempt that
\* claimed it, whoever lapsed, was requeued or answered late in between.
THEOREM LateDiscarded == ASSUME Immediate PROVE JobsSpec => []LateAnswerDiscarded
<1>1. JobsInit => JobTypes /\ ClaimInv
  BY DEF JobsInit, JobTypes, States, Places, ClaimInv
<1>2. JobTypes /\ ClaimInv => LateAnswerDiscarded
  BY Zenon DEF ClaimInv, LateAnswerDiscarded
<1>3. JobTypes /\ ClaimInv /\ [JobsNext]_jobsVars => ClaimInv'
  BY ClaimStep, Zenon
<1> QED
  BY <1>1, <1>2, <1>3, JobTypesStep, PTL DEF JobsSpec

-----------------------------------------------------------------------------

\* AnswerInv is inductive on either engine.
LEMMA AnswerStep == JobTypes /\ AnswerInv /\ [JobsNext]_jobsVars => AnswerInv'
<1> SUFFICES ASSUME JobTypes, AnswerInv, [JobsNext]_jobsVars PROVE AnswerInv'
  BY Zenon
<1> USE DEF JobTypes, AnswerInv, AnnouncedIffAnswered, Goto, rows, loop
<1>1. ASSUME NEW j \in Jobs, Submit(j) \/ LeaseLapses(j) PROVE AnswerInv'
  BY <1>1, Zenon DEF Submit, LeaseLapses
<1>2. ASSUME NEW w \in Workers, Work(w) PROVE AnswerInv'
  <2>1. CASE ClaimReads(w) \/ CallReturns(w) \/ FinishReads(w)
    BY <2>1, Zenon DEF ClaimReads, CallReturns, FinishReads
  <2>2. CASE ClaimCommits(w)
    BY <2>2 DEF ClaimCommits
  <2>3. CASE FinishCommits(w)
    BY <2>3, Zenon DEF FinishCommits
  <2> QED
    BY <1>2, <2>1, <2>2, <2>3, Zenon DEF Work
<1>3. ASSUME NEW w \in Workers, Heartbeat(w) \/ HeartbeatFails(w) \/ WorkerStops(w)
      PROVE  AnswerInv'
  BY <1>3, Zenon DEF Heartbeat, HeartbeatFails, WorkerStops
<1>4. CASE ReclaimFails \/ ReclaimRequeues
  BY <1>4, Zenon DEF ReclaimFails, ReclaimRequeues
<1>5. CASE UNCHANGED jobsVars
  BY <1>5, Zenon DEF jobsVars
<1> HIDE DEF JobTypes, AnswerInv
<1> QED
  BY <1>1, <1>2, <1>3, <1>4, <1>5, Zenon DEF JobsNext

\* On either engine, a job is announced exactly if a worker's answer landed.
THEOREM AnsweredAnnounced == JobsSpec => []AnnouncedIffAnswered
<1>1. JobsInit => JobTypes /\ AnswerInv
  BY DEF JobsInit, JobTypes, States, Places, AnswerInv, AnnouncedIffAnswered
<1>2. AnswerInv => AnnouncedIffAnswered
  BY Zenon DEF AnswerInv
<1> QED
  BY <1>1, <1>2, JobTypesStep, AnswerStep, PTL DEF JobsSpec
=============================================================================
