----------------------------- MODULE TurnLedger -----------------------------
(***************************************************************************)
(* What the chat promises about a user message, without workers, leases or *)
(* failures: it waits its turn in its conversation, is taken once, pays    *)
(* for at most one agent process, and ends done (with an answer in the     *)
(* thread) or failed, for good.                                            *)
(***************************************************************************)
EXTENDS Naturals

CONSTANTS Turns, ConvOf

VARIABLES
  turn,      \* where a message stands
  place,     \* its place in the order of posting; 0 before it is posted
  starts,    \* how many agent processes it paid for
  answered   \* the messages whose answer is in the thread

lvars == <<turn, place, starts, answered>>

LedgerInit ==
  /\ turn = [t \in Turns |-> "absent"]
  /\ place = [t \in Turns |-> 0]
  /\ starts = [t \in Turns |-> 0]
  /\ answered = {}

\* A new message goes behind everything posted before it.
Open(t) ==
  /\ turn[t] = "absent"
  /\ turn' = [turn EXCEPT ![t] = "pending"]
  /\ \A u \in Turns : place[u] < place'[t]
  /\ place' = [place EXCEPT ![t] = place'[t]]
  /\ UNCHANGED <<starts, answered>>

\* A message is taken when nothing before it in its conversation is open.
Take(t) ==
  /\ turn[t] = "pending"
  /\ \A u \in Turns :
       ConvOf[u] = ConvOf[t] /\ place[u] < place[t] => turn[u] \notin {"pending", "claimed"}
  /\ turn' = [turn EXCEPT ![t] = "claimed"]
  /\ UNCHANGED <<place, starts, answered>>

\* The one process of a message; it may start after the message was failed,
\* when its worker was too slow, but never twice.
Start(t) ==
  /\ turn[t] \in {"claimed", "failed"}
  /\ starts[t] = 0
  /\ starts' = [starts EXCEPT ![t] = 1]
  /\ UNCHANGED <<turn, place, answered>>

\* Its answer, if it gives one.
Answer(t) ==
  /\ turn[t] \in {"claimed", "failed"}
  /\ starts[t] = 1
  /\ t \notin answered
  /\ answered' = answered \cup {t}
  /\ UNCHANGED <<turn, place, starts>>

\* A taken message is done when it is answered.
Done(t) ==
  /\ turn[t] = "claimed"
  /\ t \in answered
  /\ turn' = [turn EXCEPT ![t] = "done"]
  /\ UNCHANGED <<place, starts, answered>>

\* Taken messages that are given up, several at once by the reclaimer.
GiveUp(S) ==
  /\ \A t \in S : turn[t] = "claimed"
  /\ turn' = [t \in Turns |-> IF t \in S THEN "failed" ELSE turn[t]]
  /\ UNCHANGED <<place, starts, answered>>

LedgerNext ==
  \/ \E t \in Turns : Open(t) \/ Take(t) \/ Start(t) \/ Answer(t) \/ Done(t)
  \/ \E S \in SUBSET Turns : GiveUp(S)

LedgerSpec == LedgerInit /\ [][LedgerNext]_lvars
=============================================================================
