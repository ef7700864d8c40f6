------------------------ MODULE PortalSessionProofs ------------------------
(***************************************************************************)
(* Proofs about PortalSession, for any number of tabs, tokens and requests *)
(* in flight.  IInv is inductive: a token has one holder, the tab that     *)
(* stores it or the answer that brings it (OneHolder), so that an exchange *)
(* spends nobody else's; whatever makes a second holder is unsure.         *)
(***************************************************************************)
EXTENDS PortalSession, TLAPS

Screens == {"closed", "restoring", "login", "mfa", "shell"}

AtRest(b) == screen[b] \in {"login", "mfa", "shell"}

LEMMA TokensApart ==
  ASSUME NEW t \in Tokens
  PROVE  t # None /\ t \notin {"none", "challenge", "refused", "lost"}
  BY PortalSessionAssumption

LEMMA SentType ==
  ASSUME NEW b \in Tabs, NEW k \in {"signIn", "verify", "refresh", "api"},
         NEW t \in Tokens \cup {None}
  PROVE  /\ Sent(b, k, t) \in Call /\ Sent(b, k, t).tab = b /\ Sent(b, k, t).kind = k
         /\ Sent(b, k, t).token = t /\ Sent(b, k, t).answer = "none"
  BY DEF Sent, Call

\* Who is spent is a matter of the server.
LEMMA SpentSame ==
  ASSUME UNCHANGED server
  PROVE  /\ ServerSound => ServerSound'
         /\ \A t : Spent(t)' <=> Spent(t)
  BY DEF server, ServerSound, Spent

LEMMA InitIInv == Init => IInv
<1> SUFFICES ASSUME Init PROVE IInv
  OBVIOUS
<1> USE DEF Init, Server!Init
<1>1. TypeOK
  BY DEF TypeOK
<1>2. ServerSound
  BY DEF ServerSound
<1>3. HoldingsMinted /\ RestoresSound /\ CredentialsShown
  BY DEF HoldingsMinted, RestoresSound, CredentialsShown
<1>4. OneHolder /\ AnswersCurrent
  BY TokensApart DEF OneHolder, AnswersCurrent
<1>5. TabsHoldTheCurrentToken /\ ReplaysAreAccountedFor
  BY DEF TabsHoldTheCurrentToken, ReplaysAreAccountedFor
<1> QED BY <1>1, <1>2, <1>3, <1>4, <1>5 DEF IInv

-----------------------------------------------------------------------------
\* The server

\* A session is opened, or handed on to a token nobody has seen.
LEMMA MintedSound ==
  ASSUME TypeOK, ServerSound, NEW n \in Tokens \ minted, NEW f \in minted \cup {n},
         f = n \/ live[f] # {},
         live' = [live EXCEPT ![f] = {n}], minted' = minted \cup {n},
         family' = [family EXCEPT ![n] = f]
  PROVE  /\ live' \in [Tokens -> SUBSET Tokens] /\ minted' \subseteq Tokens
         /\ family' \in [Tokens -> Tokens \cup {None}]
         /\ ServerSound' /\ ~Spent(n)'
         /\ \A u \in minted : family'[u] = family[u]
         /\ \A u \in minted : Spent(u)' => Spent(u) \/ u \in live[f]
<1>1. f \in Tokens /\ n # None /\ f # None
  BY TokensApart DEF TypeOK
<1>2. /\ live' \in [Tokens -> SUBSET Tokens] /\ minted' \subseteq Tokens
      /\ family' \in [Tokens -> Tokens \cup {None}]
  BY <1>1 DEF TypeOK
<1>3. /\ live'[f] = {n} /\ \A t \in Tokens \ {f} : live'[t] = live[t]
      /\ family'[n] = f /\ \A t \in Tokens \ {n} : family'[t] = family[t]
  BY <1>1 DEF TypeOK
<1>4. ServerSound'
  <2> SUFFICES ASSUME NEW t \in Tokens
               PROVE  /\ family'[t] # None <=> t \in minted'
                      /\ family'[t] \in minted' \cup {None}
                      /\ \A u \in live'[t] : u \in minted' /\ family'[u] = t /\ live'[t] = {u}
    BY DEF ServerSound
  <2>1. /\ family[t] # None <=> t \in minted
        /\ family[t] \in minted \cup {None}
        /\ \A u \in live[t] : u \in minted /\ family[u] = t /\ live[t] = {u}
    BY DEF ServerSound
  <2>2. ASSUME NEW u \in live'[t]
        PROVE  u \in minted' /\ family'[u] = t /\ live'[t] = {u}
    <3>1. CASE t = f
      BY <1>3, <2>2, <3>1
    <3>2. CASE t # f
      <4>1. u \in minted /\ u \in Tokens /\ u # n
        BY <1>3, <2>1, <2>2, <3>2 DEF TypeOK
      <4> QED BY <1>3, <2>1, <2>2, <3>2, <4>1
    <3> QED BY <3>1, <3>2
  <2> QED BY <1>1, <1>3, <2>1, <2>2
<1>5. ~Spent(n)'
  BY <1>3 DEF Spent
<1>6. ASSUME NEW u \in minted
      PROVE  family'[u] = family[u] /\ (Spent(u)' => Spent(u) \/ u \in live[f])
  <2>1. u \in Tokens /\ u # n /\ family[u] \in minted
    BY DEF TypeOK, ServerSound
  <2>2. family[u] \in Tokens /\ family'[u] = family[u]
    BY <1>3, <2>1 DEF TypeOK
  <2>3. CASE family[u] = f /\ live[f] # {}
    BY <2>2, <2>3 DEF Spent
  <2>4. CASE family[u] = f /\ live[f] = {}
    <3>1. f # n
      BY <2>1, <2>4
    <3> QED BY <2>4, <3>1
  <2>5. CASE family[u] # f
    BY <1>3, <2>2, <2>5 DEF Spent
  <2> QED BY <2>2, <2>3, <2>4, <2>5
<1> QED BY <1>2, <1>4, <1>5, <1>6

\* Sessions end; what is no longer exchangeable is not spent but over.
LEMMA EndedSound ==
  ASSUME TypeOK, ServerSound, NEW F \in SUBSET Tokens, Server!EndSessions(F), UNCHANGED family
  PROVE  /\ live' \in [Tokens -> SUBSET Tokens] /\ minted' = minted
         /\ ServerSound'
         /\ \A u \in minted : Spent(u)' => Spent(u)
<1>1. /\ live' = [f \in Tokens |-> IF f \in F THEN {} ELSE live[f]]
      /\ minted' = minted /\ family' = family
  BY DEF Server!EndSessions
<1>2. live' \in [Tokens -> SUBSET Tokens] /\ ServerSound'
  BY <1>1 DEF TypeOK, ServerSound
<1>3. ASSUME NEW u \in minted PROVE Spent(u)' => Spent(u)
  <2>1. family[u] \in Tokens
    BY DEF TypeOK, ServerSound
  <2> QED BY <1>1, <2>1 DEF Spent
<1> QED BY <1>1, <1>2, <1>3

\* A token that is not unsure has no more than one holder.
LEMMA Holders ==
  ASSUME OneHolder, NEW t \in Tokens, t \notin unsure
  PROVE  /\ \A b, d \in Tabs : stored[b] = t /\ stored[d] = t => b = d
         /\ \A x \in calls, b \in Tabs : x.answer = t => stored[b] # t
         /\ \A x, y \in calls : x.answer = t /\ y.answer = t => x = y
  BY DEF OneHolder

\* The server answers request x with a.  Of the tokens people know it may have
\* spent the one x carries, and no other holder has that one.
LEMMA AnswerStep ==
  ASSUME IInv, NEW x \in calls, NEW a \in Tokens \cup {"challenge", "refused", "lost"},
         Answer(x, a), UNCHANGED <<page, stray, unsure>>,
         a = "challenge" => x.kind # "refresh",
         a \in Tokens => a \in minted' \ minted /\ ~Spent(a)',
         live' \in [Tokens -> SUBSET Tokens], family' \in [Tokens -> Tokens \cup {None}],
         minted \subseteq minted', minted' \subseteq Tokens, ServerSound',
         \A u \in minted :
           /\ family'[u] = family[u]
           /\ Spent(u)' => Spent(u) \/ (x.kind = "refresh" /\ u = x.token)
  PROVE  IInv'
<1> DEFINE y == [x EXCEPT !.answer = a]
<1>x. x \in Call
  BY DEF IInv, TypeOK
<1>y. /\ y \in Call /\ y.tab = x.tab /\ y.kind = x.kind /\ y.token = x.token /\ y.answer = a
  BY <1>x DEF Call
<1>c. calls' = (calls \ {x}) \cup {y} /\ y \in calls' /\ \A z \in calls' : z # y => z \in calls /\ z # x
  BY DEF Answer
<1> HIDE DEF y
<1>p. UNCHANGED <<stored, access, shown, identity, challenge, screen, stray, unsure>>
  BY DEF page
<1>a. a # "none" /\ (a \in Tokens <=> a \notin {"challenge", "refused", "lost"})
  BY TokensApart
<1>1. TypeOK'
  BY <1>c, <1>p, <1>y DEF IInv, TypeOK
<1>2. HoldingsMinted'
  BY <1>c, <1>p, <1>y DEF IInv, HoldingsMinted
<1>3. RestoresSound'
  <2>1. \A z \in calls' :
          /\ screen[z.tab] # "closed"
          /\ z.kind = "refresh" => screen[z.tab] = "restoring" /\ stored[z.tab] = z.token
          /\ z.kind # "refresh" => screen[z.tab] # "restoring"
          /\ z.answer = "challenge" => z.kind # "refresh"
    BY <1>c, <1>y DEF IInv, RestoresSound
  <2>2. \A w, z \in calls' : w.kind = "refresh" /\ z.kind = "refresh" /\ w.tab = z.tab => w = z
    BY <1>c, <1>y DEF IInv, RestoresSound
  <2>3. ASSUME NEW b \in Tabs, screen[b] = "restoring"
        PROVE  \E z \in CallsOf(b)' : z.kind = "refresh"
    <3>1. PICK z \in calls : z.tab = b /\ z.kind = "refresh"
      BY <2>3 DEF IInv, RestoresSound, CallsOf
    <3>2. CASE z = x
      BY <1>c, <1>y, <3>1, <3>2 DEF CallsOf
    <3>3. CASE z # x
      BY <1>c, <3>1, <3>3 DEF CallsOf
    <3> QED BY <3>2, <3>3
  <2> QED BY <1>p, <2>1, <2>2, <2>3 DEF IInv, RestoresSound
<1>4. CredentialsShown'
  <2>1. \A b \in Tabs : access[b] # None => family'[access[b]] = family[access[b]]
    BY DEF IInv, HoldingsMinted
  <2> QED BY <1>p, <2>1 DEF IInv, CredentialsShown
<1>5. ASSUME a \in Tokens
      PROVE  /\ \A b \in Tabs : stored[b] # a
             /\ \A z \in calls : z.answer # a
             /\ a \notin unsure => \A z \in calls' : z.answer = a => z = y
  <2>1. (\A b \in Tabs : stored[b] # a) /\ \A z \in calls : z.answer # a
    BY <1>5, TokensApart DEF IInv, HoldingsMinted
  <2> QED BY <1>c, <2>1
<1>6. OneHolder'
  <2> SUFFICES ASSUME NEW t \in Tokens, t \notin unsure
               PROVE  /\ \A b, d \in Tabs : stored[b] = t /\ stored[d] = t => b = d
                      /\ \A w \in calls', b \in Tabs : w.answer = t => stored[b] # t
                      /\ \A w, z \in calls' : w.answer = t /\ z.answer = t => w = z
    BY <1>p DEF OneHolder
  <2>1. CASE t = a
    BY <1>c, <1>5, <2>1, Holders DEF IInv
  <2>2. CASE t # a
    BY <1>c, <1>y, <2>2, Holders DEF IInv
  <2> QED BY <2>1, <2>2
<1>7. AnswersCurrent'
  <2> SUFFICES ASSUME NEW z \in calls', z.answer \in Tokens, z.answer \notin unsure
               PROVE  ~Spent(z.answer)'
    BY <1>p DEF AnswersCurrent
  <2>1. CASE z = y
    BY <1>y, <2>1
  <2>2. CASE z # y
    <3>1. z \in calls /\ z.answer \in minted /\ ~Spent(z.answer)
      BY <1>c, <2>2 DEF IInv, HoldingsMinted, AnswersCurrent
    <3>2. ~(x.kind = "refresh" /\ z.answer = x.token)
      BY <1>x, <3>1, Holders DEF IInv, RestoresSound, Call
    <3> QED BY <3>1, <3>2
  <2> QED BY <2>1, <2>2
<1>8. TabsHoldTheCurrentToken'
  <2> SUFFICES ASSUME NEW b \in Tabs, AtRest(b), stored[b] # None, stored[b] \notin unsure
               PROVE  ~Spent(stored[b])'
    BY <1>p DEF TabsHoldTheCurrentToken, AtRest
  <2>1. stored[b] \in minted /\ stored[b] \in Tokens /\ ~Spent(stored[b])
    BY DEF IInv, TypeOK, HoldingsMinted, TabsHoldTheCurrentToken, AtRest
  <2>2. ~(x.kind = "refresh" /\ stored[b] = x.token)
    BY <1>x, <2>1, Holders DEF IInv, RestoresSound, Call, AtRest
  <2>3. Spent(stored[b])' => Spent(stored[b])
    BY <1>p, <2>1, <2>2
  <2> QED BY <1>p, <2>1, <2>3
<1>9. ReplaysAreAccountedFor'
  <2>1. ASSUME NEW z \in calls', z.kind = "refresh", z.answer = "none", z.token \notin unsure
        PROVE  ~Spent(z.token)'
    <3>1. z \in calls /\ z # x /\ z.token \in minted /\ ~Spent(z.token)
      BY <1>a, <1>c, <1>y, <2>1 DEF IInv, HoldingsMinted, ReplaysAreAccountedFor
    <3>2. z \in Call /\ z.token \in Tokens
      BY <3>1 DEF IInv, TypeOK
    <3>3. ~(x.kind = "refresh" /\ z.token = x.token)
      BY <1>x, <2>1, <3>1, <3>2, Holders DEF IInv, RestoresSound, Call
    <3> QED BY <3>1, <3>3
  <2> QED BY <1>p, <2>1 DEF IInv, ReplaysAreAccountedFor
<1> QED BY <1>1, <1>2, <1>3, <1>4, <1>6, <1>7, <1>8, <1>9 DEF IInv

\* What happens at the server alone spends unsure tokens at most.
LEMMA ServerStep ==
  ASSUME IInv, UNCHANGED <<page, unsure>>, stray' \subseteq stray,
         calls' \subseteq calls, \A z \in calls : z.kind = "refresh" => z \in calls',
         live' \in [Tokens -> SUBSET Tokens], family' \in [Tokens -> Tokens \cup {None}],
         minted \subseteq minted', minted' \subseteq Tokens, ServerSound',
         \A u \in minted :
           /\ family'[u] = family[u]
           /\ Spent(u)' => Spent(u) \/ u \in unsure
  PROVE  IInv'
<1>p. UNCHANGED <<stored, access, shown, identity, challenge, screen, unsure>>
  BY DEF page
<1>1. TypeOK'
  BY <1>p DEF IInv, TypeOK
<1>2. HoldingsMinted'
  BY <1>p DEF IInv, HoldingsMinted
<1>3. RestoresSound'
  BY <1>p DEF IInv, RestoresSound, CallsOf
<1>4. CredentialsShown'
  <2>1. \A b \in Tabs : access[b] # None => family'[access[b]] = family[access[b]]
    BY DEF IInv, HoldingsMinted
  <2> QED BY <1>p, <2>1 DEF IInv, CredentialsShown
<1>6. OneHolder'
  BY <1>p DEF IInv, OneHolder
<1>7. AnswersCurrent'
  <2> SUFFICES ASSUME NEW z \in calls, z.answer \in Tokens, z.answer \notin unsure
               PROVE  ~Spent(z.answer)'
    BY <1>p DEF AnswersCurrent
  <2> QED BY DEF IInv, HoldingsMinted, AnswersCurrent
<1>8. TabsHoldTheCurrentToken'
  <2> SUFFICES ASSUME NEW b \in Tabs, AtRest(b), stored[b] # None, stored[b] \notin unsure
               PROVE  ~Spent(stored[b])'
    BY <1>p DEF TabsHoldTheCurrentToken, AtRest
  <2>1. stored[b] \in minted /\ ~Spent(stored[b])
    BY DEF IInv, HoldingsMinted, TabsHoldTheCurrentToken, AtRest
  <2>2. ~Spent(stored[b])'
    BY <1>p, <2>1
  <2> QED BY <2>2
<1>9. ReplaysAreAccountedFor'
  <2>1. ASSUME NEW z \in calls', z.kind = "refresh", z.answer = "none", z.token \notin unsure
        PROVE  ~Spent(z.token)'
    BY <2>1 DEF IInv, HoldingsMinted, ReplaysAreAccountedFor
  <2> QED BY <1>p, <2>1 DEF IInv, ReplaysAreAccountedFor
<1> QED BY <1>1, <1>2, <1>3, <1>4, <1>6, <1>7, <1>8, <1>9 DEF IInv

LEMMA ServeSteps ==
  ASSUME IInv, NEW x \in calls, Serve(x) PROVE IInv'
<1>t. TypeOK /\ ServerSound /\ x \in Call
  BY DEF IInv, TypeOK
<1>same. ASSUME UNCHANGED server
         PROVE  /\ live' \in [Tokens -> SUBSET Tokens] /\ family' \in [Tokens -> Tokens \cup {None}]
                /\ minted \subseteq minted' /\ minted' \subseteq Tokens /\ ServerSound'
                /\ \A u \in minted : family'[u] = family[u] /\ (Spent(u)' => Spent(u))
  BY <1>same, <1>t, SpentSame DEF server, TypeOK
<1>1. ASSUME NEW t \in Tokens, ServeSignIn(x, t) PROVE IInv'
  <2>1. /\ t \notin minted /\ minted' = minted \cup {t} /\ live' = [live EXCEPT ![t] = {t}]
        /\ family' = [family EXCEPT ![t] = t] /\ Answer(x, t) /\ UNCHANGED <<page, stray, unsure>>
    BY <1>1 DEF ServeSignIn, Server!Open
  <2>2. live[t] = {}
    <3>1. \A u \in live[t] : family[u] = t /\ u \in minted
      BY <1>t DEF ServerSound
    <3>2. \A u \in live[t] : family[u] \in minted
      BY <1>t, <3>1, TokensApart DEF ServerSound, TypeOK
    <3> QED BY <2>1, <3>1, <3>2
  <2>3. /\ live' \in [Tokens -> SUBSET Tokens] /\ minted' \subseteq Tokens
        /\ family' \in [Tokens -> Tokens \cup {None}]
        /\ ServerSound' /\ ~Spent(t)'
        /\ \A u \in minted : family'[u] = family[u] /\ (Spent(u)' => Spent(u) \/ u \in live[t])
    BY <1>t, <2>1, MintedSound
  <2> QED BY <2>1, <2>2, <2>3, TokensApart, AnswerStep
<1>2. CASE ServeChallenge(x)
  BY <1>2, <1>same, TokensApart, AnswerStep DEF ServeChallenge
<1>3. CASE ServeRefresh(x)
  <2>x. x.kind = "refresh" /\ x.token \in minted /\ x.token \in Tokens
    BY <1>3, <1>t DEF ServeRefresh, IInv, HoldingsMinted, TypeOK
  <2>f. family[x.token] \in minted /\ family[x.token] \in Tokens
    BY <2>x, <1>t DEF ServerSound, TypeOK
  <2>1. ASSUME NEW n \in Tokens, Exchanged(x.token, n), Answer(x, n) PROVE IInv'
    <3> DEFINE f == family[x.token]
    <3>1. /\ live[f] = {x.token} /\ n \notin minted /\ minted' = minted \cup {n}
          /\ live' = [live EXCEPT ![f] = {n}] /\ family' = [family EXCEPT ![n] = f]
      BY <2>1 DEF Exchanged, Server!Exchange
    <3> HIDE DEF f
    <3>2. f \in minted \cup {n}
      BY <2>f DEF f
    <3>3. /\ live' \in [Tokens -> SUBSET Tokens] /\ minted' \subseteq Tokens
          /\ family' \in [Tokens -> Tokens \cup {None}]
          /\ ServerSound' /\ ~Spent(n)'
          /\ \A u \in minted : family'[u] = family[u] /\ (Spent(u)' => Spent(u) \/ u \in live[f])
      BY <1>t, <3>1, <3>2, MintedSound
    <3>4. \A u \in minted : Spent(u)' => Spent(u) \/ u = x.token
      BY <3>1, <3>3
    <3> QED BY <1>3, <2>1, <2>x, <3>1, <3>3, <3>4, TokensApart, AnswerStep DEF ServeRefresh
  <2>2. ASSUME Turned(x.token), Answer(x, "refused") PROVE IInv'
    <3>1. CASE UNCHANGED <<live, minted, family>>
      BY <1>3, <2>2, <3>1, <1>same, TokensApart, AnswerStep DEF ServeRefresh, server
    <3>2. CASE Server!EndSessions({family[x.token]}) /\ UNCHANGED family
      BY <1>3, <1>t, <2>2, <2>f, <3>2, EndedSound, TokensApart, AnswerStep DEF ServeRefresh, TypeOK
    <3> QED BY <2>2, <3>1, <3>2 DEF Turned
  <2> QED BY <1>3, <2>1, <2>2 DEF ServeRefresh
<1>4. CASE ServeRefusal(x)
  BY <1>4, <1>same, TokensApart, AnswerStep DEF ServeRefusal
<1>5. CASE Lose(x)
  <2>1. CASE x.kind = "refresh"
    BY <1>5, <2>1, <1>same, TokensApart, AnswerStep DEF Lose
  <2>2. CASE x.kind # "refresh"
    BY <1>5, <2>2, <1>same, ServerStep DEF Lose
  <2> QED BY <2>1, <2>2
<1> QED BY <1>1, <1>2, <1>3, <1>4, <1>5 DEF Serve

LEMMA ServeStrayStep ==
  ASSUME IInv, NEW t \in stray, ServeStray(t) PROVE IInv'
<1>t. /\ TypeOK /\ ServerSound /\ t \in minted /\ t \in Tokens /\ t \in unsure
      /\ family[t] \in minted /\ family[t] \in Tokens
  BY DEF IInv, TypeOK, HoldingsMinted, ReplaysAreAccountedFor, ServerSound
<1>s. UNCHANGED <<page, calls, unsure>> /\ stray' \subseteq stray
  BY DEF ServeStray
<1>1. ASSUME NEW n \in Tokens, Exchanged(t, n) PROVE IInv'
  <2> DEFINE f == family[t]
  <2>1. /\ live[f] = {t} /\ n \notin minted /\ minted' = minted \cup {n}
        /\ live' = [live EXCEPT ![f] = {n}] /\ family' = [family EXCEPT ![n] = f]
        /\ f \in minted
    BY <1>1, <1>t DEF Exchanged, Server!Exchange
  <2> HIDE DEF f
  <2>2. /\ live' \in [Tokens -> SUBSET Tokens] /\ minted' \subseteq Tokens
        /\ family' \in [Tokens -> Tokens \cup {None}] /\ ServerSound'
        /\ \A u \in minted : family'[u] = family[u] /\ (Spent(u)' => Spent(u) \/ u \in live[f])
    BY <1>t, <2>1, MintedSound
  <2> QED BY <1>s, <1>t, <2>1, <2>2, ServerStep
<1>2. CASE UNCHANGED server
  BY <1>2, <1>s, <1>t, SpentSame, ServerStep DEF server, TypeOK
<1>3. CASE Server!EndSessions({family[t]}) /\ UNCHANGED family
  BY <1>3, <1>s, <1>t, EndedSound, ServerStep DEF TypeOK
<1> QED BY <1>1, <1>2, <1>3 DEF ServeStray, Turned, server

LEMMA SessionEndsStep ==
  ASSUME IInv, NEW f \in Tokens, SessionEnds(f) PROVE IInv'
<1>1. TypeOK /\ ServerSound /\ Server!EndSessions({f}) /\ UNCHANGED <<family, page, calls, stray, unsure>>
  BY DEF IInv, SessionEnds
<1> QED BY <1>1, EndedSound, ServerStep DEF TypeOK

-----------------------------------------------------------------------------
\* The page

\* A tab takes what an answer brings, and is its only holder from then on.
LEMMA SetStep ==
  ASSUME IInv, UNCHANGED <<server, stray, unsure>>, challenge' \in [Tabs -> BOOLEAN],
         NEW x \in calls, x.answer \in Tokens,
         Set(x.tab, x.answer), Show(x.tab, "shell"), calls' = calls \ {x}
  PROVE  IInv'
<1> DEFINE b == x.tab
           n == x.answer
<1>1. b \in Tabs /\ n \in Tokens /\ n \in minted /\ n # None
  BY TokensApart DEF IInv, TypeOK, Call, HoldingsMinted
<1>2. family[n] # None /\ family[n] \in Tokens
  BY <1>1 DEF IInv, TypeOK, ServerSound
<1>3. /\ stored'[b] = n /\ access'[b] = n /\ shown'[b] = family[n] /\ screen'[b] = "shell"
      /\ \A d \in Tabs \ {b} : /\ stored'[d] = stored[d] /\ access'[d] = access[d]
                               /\ shown'[d] = shown[d] /\ screen'[d] = screen[d]
  BY <1>1 DEF Set, Show, IInv, TypeOK
<1>4. TypeOK'
  BY <1>1, <1>2 DEF Set, Show, server, IInv, TypeOK
<1>x. x \in calls /\ x.tab = b /\ x.answer = n /\ calls' = calls \ {x}
  OBVIOUS
<1> HIDE DEF b, n
<1>s. UNCHANGED <<live, minted, family, stray, unsure>> /\ ServerSound' /\ \A t : Spent(t)' <=> Spent(t)
  BY SpentSame DEF server, IInv
<1>5. HoldingsMinted'
  BY <1>1, <1>3, <1>x, <1>s DEF IInv, HoldingsMinted
<1>6. RestoresSound'
  <2>1. \A z \in calls' : z.tab = b => z.kind # "refresh"
    BY <1>x DEF IInv, RestoresSound
  <2>t. \A z \in calls : z.tab \in Tabs
    BY DEF IInv, TypeOK, Call
  <2>2. \A z \in calls' :
          /\ screen'[z.tab] # "closed"
          /\ z.kind = "refresh" => screen'[z.tab] = "restoring" /\ stored'[z.tab] = z.token
          /\ z.kind # "refresh" => screen'[z.tab] # "restoring"
          /\ z.answer = "challenge" => z.kind # "refresh"
    BY <1>3, <1>x, <2>1, <2>t DEF IInv, RestoresSound
  <2>3. \A w, z \in calls' : w.kind = "refresh" /\ z.kind = "refresh" /\ w.tab = z.tab => w = z
    BY <1>x DEF IInv, RestoresSound
  <2>4. ASSUME NEW d \in Tabs
        PROVE  /\ screen'[d] = "restoring" => \E z \in CallsOf(d)' : z.kind = "refresh"
               /\ screen'[d] = "closed" => stored'[d] = None
    BY <1>3, <1>x DEF IInv, RestoresSound, CallsOf
  <2> QED BY <2>2, <2>3, <2>4 DEF RestoresSound
<1>7. CredentialsShown'
  BY <1>1, <1>3, <1>s DEF IInv, CredentialsShown
<1>8. OneHolder'
  <2> SUFFICES ASSUME NEW t \in Tokens, t \notin unsure
               PROVE  /\ \A c, d \in Tabs : stored'[c] = t /\ stored'[d] = t => c = d
                      /\ \A w \in calls', d \in Tabs : w.answer = t => stored'[d] # t
                      /\ \A w, z \in calls' : w.answer = t /\ z.answer = t => w = z
    BY <1>s DEF OneHolder
  <2>1. CASE t = n
    BY <1>1, <1>3, <1>x, <2>1, Holders DEF IInv
  <2>2. CASE t # n
    BY <1>1, <1>3, <1>x, <2>2, Holders DEF IInv
  <2> QED BY <2>1, <2>2
<1>9. AnswersCurrent'
  BY <1>x, <1>s DEF IInv, AnswersCurrent
<1>10. TabsHoldTheCurrentToken'
  <2> SUFFICES ASSUME NEW d \in Tabs, screen'[d] \in {"login", "mfa", "shell"},
                      stored'[d] # None, stored'[d] \notin unsure
               PROVE  ~Spent(stored[d])'
    BY <1>s DEF TabsHoldTheCurrentToken
  <2>1. ~Spent(stored'[d])
    BY <1>1, <1>3, <1>x DEF IInv, TabsHoldTheCurrentToken, AnswersCurrent
  <2> QED BY <1>s, <2>1 DEF Spent
<1>11. ReplaysAreAccountedFor'
  BY <1>x, <1>s DEF IInv, ReplaysAreAccountedFor
<1> QED BY <1>s, <1>4, <1>5, <1>6, <1>7, <1>8, <1>9, <1>10, <1>11 DEF IInv

\* Everything a tab has is cleared, and no exchange of it is under way.
LEMMA ClearStep ==
  ASSUME IInv, UNCHANGED <<server, challenge, stray, unsure>>, NEW b \in Tabs,
         Clear(b), Show(b, "login"), calls' \subseteq calls,
         \A z \in calls \ calls' : z.tab = b, \A z \in calls' : z.tab = b => z.kind # "refresh"
  PROVE  IInv'
<1>3. /\ stored'[b] = None /\ access'[b] = None /\ shown'[b] = None /\ screen'[b] = "login"
      /\ \A d \in Tabs \ {b} : /\ stored'[d] = stored[d] /\ access'[d] = access[d]
                               /\ shown'[d] = shown[d] /\ screen'[d] = screen[d]
  BY DEF Clear, Show, IInv, TypeOK
<1>4. TypeOK'
  BY DEF Clear, Show, server, IInv, TypeOK
<1>s. UNCHANGED <<live, minted, family, stray, unsure>> /\ ServerSound' /\ \A t : Spent(t)' <=> Spent(t)
  BY SpentSame DEF server, IInv
<1>5. HoldingsMinted'
  BY <1>3, <1>s DEF IInv, HoldingsMinted
<1>6. RestoresSound'
  <2>t. \A z \in calls : z.tab \in Tabs
    BY DEF IInv, TypeOK, Call
  <2>2. \A z \in calls' :
          /\ screen'[z.tab] # "closed"
          /\ z.kind = "refresh" => screen'[z.tab] = "restoring" /\ stored'[z.tab] = z.token
          /\ z.kind # "refresh" => screen'[z.tab] # "restoring"
          /\ z.answer = "challenge" => z.kind # "refresh"
    BY <1>3, <2>t DEF IInv, RestoresSound
  <2>3. \A w, z \in calls' : w.kind = "refresh" /\ z.kind = "refresh" /\ w.tab = z.tab => w = z
    BY DEF IInv, RestoresSound
  <2>4. ASSUME NEW d \in Tabs
        PROVE  /\ screen'[d] = "restoring" => \E z \in CallsOf(d)' : z.kind = "refresh"
               /\ screen'[d] = "closed" => stored'[d] = None
    BY <1>3 DEF IInv, RestoresSound, CallsOf
  <2> QED BY <2>2, <2>3, <2>4 DEF RestoresSound
<1>7. CredentialsShown'
  BY <1>3, <1>s DEF IInv, CredentialsShown
<1>8. OneHolder'
  <2> SUFFICES ASSUME NEW t \in Tokens, t \notin unsure
               PROVE  /\ \A c, d \in Tabs : stored'[c] = t /\ stored'[d] = t => c = d
                      /\ \A w \in calls', d \in Tabs : w.answer = t => stored'[d] # t
                      /\ \A w, z \in calls' : w.answer = t /\ z.answer = t => w = z
    BY <1>s DEF OneHolder
  <2>1. t # None
    BY TokensApart
  <2> QED BY <1>3, <2>1, Holders DEF IInv
<1>9. AnswersCurrent'
  BY <1>s DEF IInv, AnswersCurrent
<1>10. TabsHoldTheCurrentToken'
  <2> SUFFICES ASSUME NEW d \in Tabs, screen'[d] \in {"login", "mfa", "shell"},
                      stored'[d] # None, stored'[d] \notin unsure
               PROVE  ~Spent(stored[d])'
    BY <1>s DEF TabsHoldTheCurrentToken
  <2>1. ~Spent(stored'[d])
    BY <1>3 DEF IInv, TabsHoldTheCurrentToken
  <2> QED BY <1>s, <2>1 DEF Spent
<1>11. ReplaysAreAccountedFor'
  BY <1>s DEF IInv, ReplaysAreAccountedFor
<1> QED BY <1>s, <1>4, <1>5, <1>6, <1>7, <1>8, <1>9, <1>10, <1>11 DEF IInv

\* A page at rest sends a request, takes an answer that concerns no token, or
\* shows another screen.
LEMMA RestStep ==
  ASSUME IInv, UNCHANGED <<server, stored, access, shown, identity, stray, unsure>>,
         challenge' \in [Tabs -> BOOLEAN], NEW b \in Tabs, AtRest(b),
         NEW s \in {"login", "mfa", "shell"}, screen' = [screen EXCEPT ![b] = s],
         s = "login" => access[b] = None, s = "shell" => access[b] # None,
         calls' \subseteq Call, \A z \in calls' : z \notin calls => z.tab = b /\ z.kind # "refresh"
                                                         /\ z.answer = "none",
         \A z \in calls : z \notin calls' => z.kind # "refresh"
  PROVE  IInv'
<1>3. screen'[b] = s /\ \A d \in Tabs \ {b} : screen'[d] = screen[d]
  BY DEF IInv, TypeOK
<1>4. TypeOK'
  BY DEF server, IInv, TypeOK
<1>s. /\ UNCHANGED <<live, minted, family, stored, access, shown, stray, unsure>>
      /\ ServerSound' /\ \A t : Spent(t)' <=> Spent(t)
  BY SpentSame DEF server, IInv
<1>n. \A z \in calls' : z.answer \in Tokens => z \in calls
  BY TokensApart
<1>5. HoldingsMinted'
  BY <1>n, <1>s DEF IInv, HoldingsMinted
<1>6. RestoresSound'
  <2>t. \A z \in calls : z.tab \in Tabs
    BY DEF IInv, TypeOK, Call
  <2>2. \A z \in calls' :
          /\ screen'[z.tab] # "closed"
          /\ z.kind = "refresh" => screen'[z.tab] = "restoring" /\ stored'[z.tab] = z.token
          /\ z.kind # "refresh" => screen'[z.tab] # "restoring"
          /\ z.answer = "challenge" => z.kind # "refresh"
    BY <1>3, <1>s, <2>t DEF IInv, RestoresSound, AtRest
  <2>3. \A w, z \in calls' : w.kind = "refresh" /\ z.kind = "refresh" /\ w.tab = z.tab => w = z
    BY DEF IInv, RestoresSound
  <2>4. ASSUME NEW d \in Tabs
        PROVE  /\ screen'[d] = "restoring" => \E z \in CallsOf(d)' : z.kind = "refresh"
               /\ screen'[d] = "closed" => stored'[d] = None
    BY <1>3, <1>s DEF IInv, RestoresSound, CallsOf
  <2> QED BY <2>2, <2>3, <2>4 DEF RestoresSound
<1>7. CredentialsShown'
  BY <1>3, <1>s DEF IInv, CredentialsShown
<1>8. OneHolder'
  BY <1>n, <1>s DEF IInv, OneHolder
<1>9. AnswersCurrent'
  BY <1>n, <1>s DEF IInv, AnswersCurrent
<1>10. TabsHoldTheCurrentToken'
  <2> SUFFICES ASSUME NEW d \in Tabs, screen'[d] \in {"login", "mfa", "shell"},
                      stored[d] # None, stored[d] \notin unsure
               PROVE  ~Spent(stored[d])
    BY <1>s DEF TabsHoldTheCurrentToken
  <2> QED BY <1>3 DEF IInv, TabsHoldTheCurrentToken, AtRest
<1>11. ReplaysAreAccountedFor'
  BY <1>s DEF IInv, ReplaysAreAccountedFor
<1> QED BY <1>s, <1>4, <1>5, <1>6, <1>7, <1>8, <1>9, <1>10, <1>11 DEF IInv

\* A page starts anew, or ends, with v for the token its tab stores.
LEMMA RestartStep ==
  ASSUME IInv, UNCHANGED server, NEW b \in Tabs, NEW v \in minted \cup {None},
         NEW s \in {"closed", "login", "restoring"},
         stored' = [stored EXCEPT ![b] = v], screen' = [screen EXCEPT ![b] = s],
         access' = [access EXCEPT ![b] = None], challenge' \in [Tabs -> BOOLEAN],
         NEW i \in Tokens \cup {None}, shown' = [shown EXCEPT ![b] = i],
         identity' \in Tokens \cup {None},
         s = "restoring" => v # None /\ calls' = (calls \ CallsOf(b)) \cup {Sent(b, "refresh", v)},
         s # "restoring" => v = None /\ calls' = calls \ CallsOf(b),
         unsure \subseteq unsure', unsure' \subseteq Tokens,
         stray' \subseteq minted, stray' \subseteq unsure',
         v # None => v = stored[b] \/ v \in unsure',
         v # None /\ Spent(v) => v \in unsure'
  PROVE  IInv'
<1>v. v \in Tokens \cup {None} /\ minted \subseteq Tokens
  BY DEF IInv, TypeOK
<1> DEFINE r == Sent(b, "refresh", v)
<1>r. r \in Call /\ r.tab = b /\ r.kind = "refresh" /\ r.token = v /\ r.answer = "none"
  BY <1>v, SentType
<1>c. /\ \A z \in calls' : (z = r /\ s = "restoring") \/ (z \in calls /\ z.tab # b)
      /\ \A z \in calls : z.tab # b => z \in calls'
      /\ s = "restoring" => r \in calls'
  BY DEF CallsOf
<1> HIDE DEF r
<1>n. \A z \in calls' : z.answer \in Tokens \/ z.answer = "challenge" => z \in calls
  BY <1>c, <1>r, TokensApart
<1>3. /\ stored'[b] = v /\ access'[b] = None /\ screen'[b] = s
      /\ \A d \in Tabs \ {b} : /\ stored'[d] = stored[d] /\ access'[d] = access[d]
                               /\ shown'[d] = shown[d] /\ screen'[d] = screen[d]
  BY DEF IInv, TypeOK
<1>4. TypeOK'
  <2>1. calls' \subseteq Call /\ stray' \subseteq Tokens
    BY <1>c, <1>r, <1>v DEF IInv, TypeOK
  <2> QED BY <1>v, <2>1 DEF server, IInv, TypeOK
<1>s. UNCHANGED <<live, minted, family>> /\ ServerSound' /\ \A t : Spent(t)' <=> Spent(t)
  BY SpentSame DEF server, IInv
<1>5. HoldingsMinted'
  <2>1. \A d \in Tabs : {stored'[d], access'[d]} \subseteq minted \cup {None}
    BY <1>3 DEF IInv, HoldingsMinted
  <2>2. \A z \in calls' : /\ z.kind = "refresh" => z.token \in minted
                          /\ z.answer \in Tokens => z.answer \in minted
    BY <1>c, <1>r, <1>n DEF IInv, HoldingsMinted
  <2>3. minted' = minted
    BY <1>s
  <2> QED BY <2>1, <2>2, <2>3 DEF HoldingsMinted
<1>6. RestoresSound'
  <2>t. \A z \in calls : z.tab \in Tabs
    BY DEF IInv, TypeOK, Call
  <2>2. ASSUME NEW z \in calls'
        PROVE  /\ screen'[z.tab] # "closed"
               /\ z.kind = "refresh" => screen'[z.tab] = "restoring" /\ stored'[z.tab] = z.token
               /\ z.kind # "refresh" => screen'[z.tab] # "restoring"
               /\ z.answer = "challenge" => z.kind # "refresh"
    <3>1. CASE z = r /\ s = "restoring"
      BY <1>3, <1>r, <3>1
    <3>2. CASE z \in calls /\ z.tab # b
      BY <1>3, <2>t, <3>2 DEF IInv, RestoresSound
    <3> QED BY <1>c, <3>1, <3>2
  <2>3. \A w, z \in calls' : w.kind = "refresh" /\ z.kind = "refresh" /\ w.tab = z.tab => w = z
    BY <1>c, <1>r DEF IInv, RestoresSound
  <2>4. ASSUME NEW d \in Tabs
        PROVE  /\ screen'[d] = "restoring" => \E z \in CallsOf(d)' : z.kind = "refresh"
               /\ screen'[d] = "closed" => stored'[d] = None
    <3>1. CASE d = b
      BY <1>3, <1>c, <1>r, <3>1 DEF CallsOf
    <3>2. CASE d # b
      BY <1>3, <1>c, <3>2 DEF IInv, RestoresSound, CallsOf
    <3> QED BY <3>1, <3>2
  <2> QED BY <2>2, <2>3, <2>4 DEF RestoresSound
<1>7. CredentialsShown'
  BY <1>3, <1>s DEF IInv, CredentialsShown
<1>8. OneHolder'
  <2> SUFFICES ASSUME NEW t \in Tokens, t \notin unsure'
               PROVE  /\ \A c, d \in Tabs : stored'[c] = t /\ stored'[d] = t => c = d
                      /\ \A w \in calls', d \in Tabs : w.answer = t => stored'[d] # t
                      /\ \A w, z \in calls' : w.answer = t /\ z.answer = t => w = z
    BY DEF OneHolder
  <2>1. \A d \in Tabs : stored'[d] = t => stored[d] = t
    BY <1>3, TokensApart
  <2>2. t \notin unsure /\ \A z \in calls' : z.answer = t => z \in calls
    BY <1>n
  <2> QED BY <2>1, <2>2, Holders DEF IInv
<1>9. AnswersCurrent'
  BY <1>n, <1>s DEF IInv, AnswersCurrent
<1>10. TabsHoldTheCurrentToken'
  <2> SUFFICES ASSUME NEW d \in Tabs, screen'[d] \in {"login", "mfa", "shell"},
                      stored'[d] # None, stored'[d] \notin unsure'
               PROVE  ~Spent(stored[d])'
    BY DEF TabsHoldTheCurrentToken
  <2>1. ~Spent(stored'[d])
    BY <1>3 DEF IInv, TabsHoldTheCurrentToken
  <2> QED BY <1>s, <2>1 DEF Spent
<1>11. ReplaysAreAccountedFor'
  <2>1. ASSUME NEW z \in calls', z.kind = "refresh", z.answer = "none", Spent(z.token)
        PROVE  z.token \in unsure'
    BY <1>c, <1>r, <2>1 DEF IInv, ReplaysAreAccountedFor
  <2> QED BY <1>s, <2>1 DEF ReplaysAreAccountedFor
<1> QED BY <1>s, <1>4, <1>5, <1>6, <1>7, <1>8, <1>9, <1>10, <1>11 DEF IInv

\* Exchanges of a page that is left are on record.
LEMMA LeaveRecords ==
  ASSUME IInv, NEW b \in Tabs, Leave(b)
  PROVE  /\ unsure \subseteq unsure' /\ unsure' \subseteq Tokens
         /\ stray' \subseteq minted /\ stray' \subseteq unsure'
         /\ \A x \in CallsOf(b) : x.kind = "refresh" => x.token \in unsure'
         /\ access' = [access EXCEPT ![b] = None] /\ challenge' \in [Tabs -> BOOLEAN]
<1> DEFINE abandoned == {x \in CallsOf(b) : x.kind = "refresh"}
<1>1. /\ stray' = stray \cup {x.token : x \in {y \in abandoned : y.answer = "none"}}
      /\ unsure' = unsure \cup {x.token : x \in abandoned}
      /\ access' = [access EXCEPT ![b] = None]
      /\ challenge' = [challenge EXCEPT ![b] = FALSE]
  BY DEF Leave
<1>2. \A x \in abandoned : x.token \in minted /\ x.token \in Tokens
  BY DEF CallsOf, IInv, TypeOK, HoldingsMinted
<1>3. stray \subseteq minted /\ stray \subseteq unsure /\ unsure \subseteq Tokens
  BY DEF IInv, TypeOK, HoldingsMinted, ReplaysAreAccountedFor
<1> QED BY <1>1, <1>2, <1>3 DEF IInv, TypeOK

LEMMA LoadStep ==
  ASSUME IInv, NEW b \in Tabs, Load(b) PROVE IInv'
<1>1. Leave(b) /\ UNCHANGED <<server, stored>>
  BY DEF Load
<1>t. /\ stored \in [Tabs -> Tokens \cup {None}] /\ stored[b] \in minted \cup {None}
      /\ identity \in Tokens \cup {None} /\ screen \in [Tabs -> Screens]
  BY DEF IInv, TypeOK, HoldingsMinted, Screens
<1>2. CASE stored[b] = None
  <2>1. calls' = calls \ CallsOf(b) /\ Guard(b)
    BY <1>2 DEF Load
  <2>2. PICK i \in {identity, None} :
          shown' = [shown EXCEPT ![b] = i] /\ identity' \in {identity, None}
          /\ screen' = [screen EXCEPT ![b] = "login"]
    BY <2>1 DEF Guard, Show
  <2>3. stored' = [stored EXCEPT ![b] = None]
    BY <1>1, <1>2, <1>t
  <2> QED BY <1>1, <1>t, <2>1, <2>2, <2>3, LeaveRecords, RestartStep
<1>3. CASE stored[b] # None
  <2>1. /\ calls' = (calls \ CallsOf(b)) \cup {Sent(b, "refresh", stored[b])}
        /\ shown' = [shown EXCEPT ![b] = identity] /\ identity' = identity
        /\ screen' = [screen EXCEPT ![b] = "restoring"]
    BY <1>3 DEF Load, Show
  <2>2. stored' = [stored EXCEPT ![b] = stored[b]]
    BY <1>1, <1>t
  <2>3. ASSUME Spent(stored[b]) PROVE stored[b] \in unsure'
    <3>1. CASE AtRest(b)
      BY <1>1, <1>3, <2>3, <3>1, LeaveRecords DEF AtRest, IInv, TabsHoldTheCurrentToken
    <3>2. CASE screen[b] = "restoring"
      <4>1. PICK x \in CallsOf(b) : x.kind = "refresh"
        BY <3>2 DEF IInv, RestoresSound
      <4>2. x.token = stored[b]
        BY <4>1 DEF IInv, RestoresSound, CallsOf
      <4> QED BY <1>1, <4>1, <4>2, LeaveRecords
    <3>3. CASE screen[b] = "closed"
      BY <1>3, <3>3 DEF IInv, RestoresSound
    <3> QED BY <1>t, <3>1, <3>2, <3>3 DEF AtRest, Screens
  <2> QED BY <1>1, <1>3, <1>t, <2>1, <2>2, <2>3, LeaveRecords, RestartStep
<1> QED BY <1>2, <1>3

LEMMA CloseStep ==
  ASSUME IInv, NEW b \in Tabs, Close(b) PROVE IInv'
<1>1. /\ Leave(b) /\ calls' = calls \ CallsOf(b) /\ UNCHANGED <<server, identity>>
      /\ stored' = [stored EXCEPT ![b] = None] /\ shown' = [shown EXCEPT ![b] = None]
      /\ screen' = [screen EXCEPT ![b] = "closed"]
  BY DEF Close, Show
<1>2. identity \in Tokens \cup {None}
  BY DEF IInv, TypeOK
<1> QED BY <1>1, <1>2, LeaveRecords, RestartStep

LEMMA DuplicateStep ==
  ASSUME IInv, NEW b \in Tabs, NEW d \in Tabs, Duplicate(b, d) PROVE IInv'
<1>1. /\ stored[b] # None /\ screen[d] = "closed"
      /\ UNCHANGED <<server, access, identity, challenge, stray>>
      /\ stored' = [stored EXCEPT ![d] = stored[b]] /\ shown' = [shown EXCEPT ![d] = identity]
      /\ screen' = [screen EXCEPT ![d] = "restoring"]
      /\ calls' = calls \cup {Sent(d, "refresh", stored[b])}
      /\ unsure' = unsure \cup {stored[b]}
  BY DEF Duplicate, Show
<1>2. CallsOf(d) = {}
  BY <1>1 DEF CallsOf, IInv, RestoresSound
<1>3. access' = [access EXCEPT ![d] = None]
  BY <1>1 DEF IInv, TypeOK, CredentialsShown
<1>4. /\ stored[b] \in minted /\ stored[b] \in Tokens /\ identity \in Tokens \cup {None}
      /\ challenge \in [Tabs -> BOOLEAN] /\ unsure \subseteq Tokens
      /\ stray \subseteq minted /\ stray \subseteq unsure
  BY <1>1 DEF IInv, TypeOK, HoldingsMinted, ReplaysAreAccountedFor
<1>5. calls' = (calls \ CallsOf(d)) \cup {Sent(d, "refresh", stored[b])}
  BY <1>1, <1>2
<1> QED BY <1>1, <1>3, <1>4, <1>5, RestartStep

-----------------------------------------------------------------------------
\* The handlers

LEMMA ArriveStep ==
  ASSUME IInv, NEW x \in calls, Arrive(x) PROVE IInv'
<1>t. x \in Call /\ x.tab \in Tabs /\ challenge \in [Tabs -> BOOLEAN] /\ calls \subseteq Call
      /\ screen \in [Tabs -> Screens]
  BY DEF IInv, TypeOK, Call, Screens
<1>r. /\ screen[x.tab] # "closed" /\ (x.kind # "refresh" => screen[x.tab] # "restoring")
      /\ x.answer = "challenge" => x.kind # "refresh"
      /\ \A z \in calls \ {x} : z.tab = x.tab => z.kind # "refresh"
  BY DEF IInv, RestoresSound
<1>1. CASE Restored(x)
  BY <1>1, <1>t, SetStep DEF Restored
<1>2. CASE SignedIn(x)
  <2>1. challenge' \in [Tabs -> BOOLEAN]
    BY <1>2, <1>t DEF SignedIn
  <2> QED BY <1>2, <2>1, SetStep DEF SignedIn
<1>3. CASE RestoreFails(x)
  BY <1>3, <1>t, <1>r, ClearStep DEF RestoreFails
<1>4. CASE Unauthorized(x)
  BY <1>4, <1>t, <1>r, ClearStep DEF Unauthorized
<1>5. CASE Challenged(x)
  <2>1. /\ challenge' \in [Tabs -> BOOLEAN] /\ screen' = [screen EXCEPT ![x.tab] = "mfa"]
        /\ calls' = calls \ {x} /\ x.answer = "challenge"
        /\ UNCHANGED <<server, stored, access, shown, identity, stray, unsure>>
    BY <1>5, <1>t DEF Challenged, Show
  <2>2. AtRest(x.tab)
    BY <1>r, <1>t, <2>1 DEF AtRest, Screens
  <2>3. /\ calls' \subseteq Call /\ \A z \in calls' : z \in calls
        /\ \A z \in calls : z \notin calls' => z.kind # "refresh"
    BY <1>r, <1>t, <2>1
  <2> QED BY <1>t, <2>1, <2>2, <2>3, RestStep
<1> QED BY <1>1, <1>2, <1>3, <1>4, <1>5 DEF Arrive

LEMMA SendStep ==
  ASSUME IInv, NEW b \in Tabs, AtRest(b), NEW k \in {"signIn", "verify", "api"},
         NEW t \in Tokens \cup {None}, Send(b, k, t), UNCHANGED <<server, page, stray, unsure>>
  PROVE  IInv'
<1> DEFINE r == Sent(b, k, t)
<1>1. r \in Call /\ r.tab = b /\ r.kind # "refresh" /\ r.answer = "none"
  BY SentType
<1>2. calls' = calls \cup {r}
  BY DEF Send
<1> HIDE DEF r
<1>3. /\ calls' \subseteq Call
      /\ \A z \in calls' : z \notin calls => z.tab = b /\ z.kind # "refresh" /\ z.answer = "none"
      /\ \A z \in calls : z \in calls'
  BY <1>1, <1>2 DEF IInv, TypeOK
<1>4. /\ UNCHANGED <<stored, access, shown, identity, challenge>> /\ challenge' \in [Tabs -> BOOLEAN]
      /\ screen' = [screen EXCEPT ![b] = screen[b]] /\ screen[b] \in {"login", "mfa", "shell"}
      /\ screen[b] = "login" => access[b] = None
      /\ screen[b] = "shell" => access[b] # None
  BY DEF page, IInv, TypeOK, CredentialsShown, AtRest
<1> QED BY <1>3, <1>4, RestStep

LEMMA TabStep ==
  ASSUME IInv, NEW b \in Tabs,
         \/ SubmitSignIn(b) \/ SubmitCode(b) \/ Navigate(b) \/ Request(b) \/ SignOut(b)
  PROVE  IInv'
<1>t. /\ None \in Tokens \cup {None} /\ access[b] \in Tokens \cup {None}
      /\ challenge \in [Tabs -> BOOLEAN] /\ calls \subseteq Call
  BY DEF IInv, TypeOK
<1>1. CASE SubmitSignIn(b)
  BY <1>1, <1>t, SendStep DEF SubmitSignIn, AtRest
<1>2. CASE SubmitCode(b)
  BY <1>2, <1>t, SendStep DEF SubmitCode, AtRest
<1>3. CASE Request(b)
  BY <1>3, <1>t, SendStep DEF Request, AtRest
<1>4. CASE Navigate(b)
  <2>1. PICK s \in {"login", "mfa", "shell"} :
          /\ screen' = [screen EXCEPT ![b] = s] /\ AtRest(b)
          /\ s = "login" => access[b] = None
          /\ s = "shell" => access[b] # None
    BY <1>4 DEF Navigate, Show, AtRest
  <2> QED BY <1>4, <1>t, <2>1, RestStep DEF Navigate
<1>5. CASE SignOut(b)
  <2>1. \A z \in calls : z.tab = b => z.kind # "refresh"
    BY <1>5 DEF SignOut, IInv, RestoresSound
  <2> QED BY <1>5, <2>1, ClearStep DEF SignOut
<1> QED BY <1>1, <1>2, <1>3, <1>4, <1>5

LEMMA UnchangedStep ==
  ASSUME IInv, UNCHANGED vars PROVE IInv'
<1>1. UNCHANGED <<server, page, calls, stray, unsure>>
  BY DEF vars
<1>2. \A u \in minted : family'[u] = family[u] /\ (Spent(u)' => Spent(u))
  BY <1>1, SpentSame DEF server
<1> QED BY <1>1, <1>2, SpentSame, ServerStep DEF server, IInv, TypeOK

\* Every step preserves the invariant.
THEOREM Inductive == IInv /\ [Next]_vars => IInv'
<1> SUFFICES ASSUME IInv, [Next]_vars PROVE IInv'
  OBVIOUS
<1>1. ASSUME NEW b \in Tabs,
             \/ Load(b) \/ Close(b) \/ \E d \in Tabs : Duplicate(b, d)
             \/ SubmitSignIn(b) \/ SubmitCode(b) \/ Navigate(b) \/ Request(b) \/ SignOut(b)
      PROVE  IInv'
  BY <1>1, LoadStep, CloseStep, DuplicateStep, TabStep
<1> QED BY <1>1, ServeSteps, ArriveStep, ServeStrayStep, SessionEndsStep, UnchangedStep DEF Next

\* In every reachable state, whatever the tabs, the network and the server do.
THEOREM Invariance == Spec => []IInv
  BY InitIInv, Inductive, PTL DEF Spec

\* A tab at rest holds the current token of its session unless it was duplicated
\* or reloaded over its own exchange (session-restore.ts, SessionStore).
THEOREM TabsAreCurrent == Spec => []TabsHoldTheCurrentToken
<1>1. IInv => TabsHoldTheCurrentToken
  BY DEF IInv
<1> QED BY <1>1, Invariance, PTL

\* No other tab presents a spent token, which would end its session
\* (provideSessionRestore).
THEOREM NoOtherReplays == Spec => []ReplaysAreAccountedFor
<1>1. IInv => ReplaysAreAccountedFor
  BY DEF IInv
<1> QED BY <1>1, Invariance, PTL

\* Whom the shell shows is who the page has an access token of (authGuard,
\* SessionStore.set).
THEOREM ShellIsCredentialed == Spec => []ShownIsCredentialed
<1>1. IInv => ShownIsCredentialed
  BY DEF IInv, CredentialsShown, ShownIsCredentialed
<1> QED BY <1>1, Invariance, PTL

-----------------------------------------------------------------------------
\* What a tab does to the server is what SessionChain promises of it, and that
\* is all it relies on.

LEMMA ServeIsChain ==
  ASSUME NEW x, x.kind = "refresh" => x.token \in Tokens /\ family[x.token] \in Tokens, Serve(x)
  PROVE  [Server!Next]_(Server!vars)
<1>1. ASSUME NEW t \in Tokens, ServeSignIn(x, t) PROVE Server!Next
  BY <1>1 DEF ServeSignIn, Server!Next
<1>2. CASE ServeRefresh(x)
  BY <1>2 DEF ServeRefresh, Exchanged, Turned, Server!Next, Server!vars
<1> QED
  BY <1>1, <1>2 DEF Serve, ServeChallenge, ServeRefusal, Lose, server, Server!vars

LEMMA StepIsChain ==
  ASSUME IInv, [Next]_vars
  PROVE  [Server!Next]_(Server!vars)
<1>f. \A t \in minted : t \in Tokens /\ family[t] \in Tokens
  BY DEF IInv, TypeOK, ServerSound
<1>1. ASSUME NEW x \in calls, Serve(x) PROVE [Server!Next]_(Server!vars)
  BY <1>1, <1>f, ServeIsChain DEF IInv, HoldingsMinted
<1>2. ASSUME NEW t \in stray, ServeStray(t) PROVE [Server!Next]_(Server!vars)
  <2>1. t \in Tokens /\ family[t] \in Tokens
    BY <1>2, <1>f DEF IInv, HoldingsMinted
  <2> QED
    BY <1>2, <2>1 DEF ServeStray, Exchanged, Turned, Server!Next, Server!vars
<1>3. ASSUME NEW f \in Tokens, SessionEnds(f) PROVE Server!Next
  BY <1>3 DEF SessionEnds, Server!Next
<1>4. ASSUME NEW x \in calls, Arrive(x) PROVE UNCHANGED server
  BY <1>4 DEF Arrive, Restored, RestoreFails, SignedIn, Challenged, Unauthorized, Set, Clear
<1>5. ASSUME NEW b \in Tabs,
             \/ Load(b) \/ Close(b) \/ \E d \in Tabs : Duplicate(b, d)
             \/ SubmitSignIn(b) \/ SubmitCode(b) \/ Navigate(b) \/ Request(b) \/ SignOut(b)
      PROVE  UNCHANGED server
  BY <1>5 DEF Load, Close, Duplicate, SubmitSignIn, SubmitCode, Navigate, Request, SignOut
<1> QED
  BY <1>1, <1>2, <1>3, <1>4, <1>5 DEF Next, vars, server, Server!vars

\* However the tabs and the network behave, sessions are opened, exchanged and
\* ended as SessionChain says, the specification that Sessions implements.
THEOREM ServerKeepsItsPromise == Spec => Server!Spec
<1>1. Init => Server!Init
  BY DEF Init
<1> QED
  BY <1>1, StepIsChain, Invariance, PTL DEF Spec, Server!Spec

\* So a tab that was refused because its session ended has nothing to retry: no
\* later answer ever brings that session back (provideSessionRestore).
THEOREM RefusedForGood == Spec => Server!EndedForGood
<1>1. TypeOK /\ Server!Next => Server!NoneReturns
  BY DEF TypeOK, Server!Next, Server!Open, Server!Exchange, Server!EndSessions,
         Server!NoneReturns
<1>2. IInv => TypeOK
  BY DEF IInv
<1> QED
  BY <1>1, <1>2, ServerKeepsItsPromise, Invariance, PTL DEF Server!Spec, Server!EndedForGood
=============================================================================
