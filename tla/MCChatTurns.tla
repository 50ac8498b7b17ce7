----------------------------- MODULE MCChatTurns -----------------------------
(* Two daemons with one work loop each.  Two messages of one thread, so     *)
(* the second has to wait for the first.                                    *)
EXTENDS ChatTurns, TLC
CONSTANTS c1, t1, t2, p1, p2, l1, l2
MCConversations == {c1}
MCTurns == {t1, t2}
MCConvOf == t1 :> c1 @@ t2 :> c1
MCProcs == {p1, p2}
MCLoops == {l1, l2}
MCProcOf == l1 :> p1 @@ l2 :> p2
=============================================================================
