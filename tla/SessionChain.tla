---------------------------- MODULE SessionChain ----------------------------
(***************************************************************************)
(* What a session promises its holder and everybody else, whatever races:  *)
(* at any time it has at most one token that can be exchanged; an exchange *)
(* hands the session on to a token never seen before; and a session that   *)
(* has ended is never exchangeable again.  A session is named by its first *)
(* token.  Sessions implements it with rows, locks and transactions.       *)
(***************************************************************************)
CONSTANT Tokens

VARIABLES
  live,    \* for each session, the tokens that an exchange would accept
  minted   \* every token handed out so far

vars == <<live, minted>>

Init ==
  /\ live = [f \in Tokens |-> {}]
  /\ minted = {}

\* A sign-in opens a session with a token of its own.
Open(t) ==
  /\ t \notin minted
  /\ minted' = minted \cup {t}
  /\ live' = [live EXCEPT ![t] = {t}]

\* The holder exchanges the session's only token for a fresh one.
Exchange(f, t, n) ==
  /\ live[f] = {t}
  /\ n \notin minted
  /\ minted' = minted \cup {n}
  /\ live' = [live EXCEPT ![f] = {n}]

\* A replay, a sign-out, a reset or a closed account ends some sessions.
EndSessions(F) ==
  /\ live' = [f \in Tokens |-> IF f \in F THEN {} ELSE live[f]]
  /\ UNCHANGED minted

Next ==
  \/ \E t \in Tokens : Open(t)
  \/ \E f, t, n \in Tokens : Exchange(f, t, n)
  \/ \E F \in SUBSET Tokens : EndSessions(F)

Spec == Init /\ [][Next]_vars

-----------------------------------------------------------------------------
\* A session that was opened and has no exchangeable token never has one again:
\* who is signed out stays signed out (US-023).
NoneReturns == \A f \in minted : live[f] = {} => live'[f] = {}

EndedForGood == [][NoneReturns]_vars
=============================================================================
