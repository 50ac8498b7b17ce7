----------------------------- MODULE MCWasmHost -----------------------------
EXTENDS WasmHost

MCImports == [m1 |-> {"kv"}]

Req(p, caps, pages, stop, untrusted) ==
  [module |-> "m1", principal |-> p, caps |-> caps, pages |-> pages, terminate |-> stop,
   untrusted |-> untrusted]

\* Two principals, one of them with a module that may sanitize and cannot be
\* stopped, and a request whose grant does not cover the module's imports.
MCCallArgs == {Req("ana", {"kv"}, 1, TRUE, FALSE), Req("ana", {}, 2, TRUE, FALSE),
               Req("bo", {"kv", "sanitize"}, 2, FALSE, TRUE)}
MCTiers == {2}
=============================================================================
