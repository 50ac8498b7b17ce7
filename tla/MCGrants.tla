------------------------------ MODULE MCGrants ------------------------------
(* Two people and an org, two AIs of one of them, an install with a tool and  *)
(* a collection, and an entity that inherits from the install.                *)
EXTENDS Grants

App  == [kind |-> "install",    id |-> "i1", name |-> "none"]
Tool == [kind |-> "tool",       id |-> "i1", name |-> "t"]
Coll == [kind |-> "collection", id |-> "i1", name |-> "c"]
Note == [kind |-> "entity",     id |-> "n1", name |-> "none"]

MCOwner   == [s \in {App, Tool, Note} |-> "co"]
CollOwner == [s \in {Coll, App, Note} |-> "co"]
MCAIs   == [bot |-> "bo", old |-> "bo"]
Cred(a, p) == [actor |-> a, principal |-> p]
Offer(s, t, acc, c, life) == [subj |-> s, target |-> t, access |-> acc, cred |-> c, life |-> life]
MCOffers == {Offer(App, "bo", "call", Cred("ana", "co"), 0),
             Offer(App, "bo", "write", Cred("bo", "bo"), 0),
             Offer(Tool, "co", "call", Cred("ana", "co"), 1),
             Offer(Note, "bo", "read", Cred("ana", "co"), 0)}
MCLineage == {<<App, Note>>}
MCReaders == {Cred("ana", "ana"), Cred("ana", "co"), Cred("bo", "bo")}
CollOffers == {Offer(Coll, "i2", "read", Cred("ana", "co"), 0)}
=============================================================================
