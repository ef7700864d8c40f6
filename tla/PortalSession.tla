--------------------------- MODULE PortalSession ---------------------------
(***************************************************************************)
(* The portal in several tabs of one browser: who is signed in             *)
(* (session.store.ts), the exchange of the refresh token when a page loads *)
(* (session-restore.ts), the route guards, the answers of the API and what *)
(* the error interceptor does with a 401.  The server is SessionChain,     *)
(* which Sessions implements: the two share no more than its promises.     *)
(*                                                                         *)
(* A person is named by the session they signed in to, an access token by  *)
(* the refresh token that came with it.  A request is sent, served and     *)
(* answered in three steps, may get lost on either way, and a page that is *)
(* reloaded no longer waits for its answer.  Storage that throws (private  *)
(* browsing) is left out.                                                  *)
(***************************************************************************)
EXTENDS FiniteSets, Naturals

CONSTANTS
  Tabs,
  Tokens,     \* refresh tokens
  None,
  MaxCalls    \* bound: requests in flight of a tab

ASSUME PortalSessionAssumption ==
  /\ None \notin Tokens /\ Tokens \cap {"none", "challenge", "refused", "lost"} = {}
  /\ MaxCalls \in Nat \ {0}

VARIABLES
  live,       \* SessionChain: the exchangeable tokens of a session
  minted,     \* SessionChain: the tokens handed out
  family,     \* the session of a token
  stored,     \* sessionStorage: the refresh token of a tab
  access,     \* memory: the access token of the page
  shown,      \* memory: the identity of the page
  identity,   \* localStorage: the identity, one for all tabs
  challenge,  \* MfaChallengeStore has a challenge
  screen,     \* what the tab shows
  calls,      \* requests in flight
  stray,      \* refresh tokens sent by pages that are gone, still to be served
  unsure      \* history: tokens copied to another tab, or sent by a page that
              \* was gone before the answer

server == <<live, minted, family>>
page   == <<stored, access, shown, identity, challenge, screen>>
vars   == <<server, page, calls, stray, unsure>>

Server == INSTANCE SessionChain

Call ==
  [tab    : Tabs,
   kind   : {"signIn", "verify", "refresh", "api"},
   token  : Tokens \cup {None},    \* the refresh or the access token it carries
   answer : Tokens \cup {"none", "challenge", "refused", "lost"}]

TypeOK ==
  /\ live \in [Tokens -> SUBSET Tokens] /\ minted \subseteq Tokens
  /\ family \in [Tokens -> Tokens \cup {None}]
  /\ stored \in [Tabs -> Tokens \cup {None}] /\ access \in [Tabs -> Tokens \cup {None}]
  /\ shown \in [Tabs -> Tokens \cup {None}] /\ identity \in Tokens \cup {None}
  /\ challenge \in [Tabs -> BOOLEAN]
  /\ screen \in [Tabs -> {"closed", "restoring", "login", "mfa", "shell"}]
  /\ calls \subseteq Call
  /\ stray \subseteq Tokens /\ unsure \subseteq Tokens

Init ==
  /\ Server!Init
  /\ family = [t \in Tokens |-> None]
  /\ stored = [b \in Tabs |-> None] /\ access = [b \in Tabs |-> None]
  /\ shown = [b \in Tabs |-> None] /\ identity = None
  /\ challenge = [b \in Tabs |-> FALSE]
  /\ screen = [b \in Tabs |-> "closed"]
  /\ calls = {} /\ stray = {} /\ unsure = {}

CallsOf(b) == {x \in calls : x.tab = b}

Sent(b, k, t) == [tab |-> b, kind |-> k, token |-> t, answer |-> "none"]

Send(b, k, t) ==
  /\ Cardinality(CallsOf(b)) < MaxCalls
  /\ calls' = calls \cup {Sent(b, k, t)}

Show(b, s) == screen' = [screen EXCEPT ![b] = s]

\* A mistake: the rotated refresh token is kept in memory only.
SetUnpersisted(b, t) ==
  /\ stored' = IF stored[b] = None THEN [stored EXCEPT ![b] = t] ELSE stored
  /\ access' = [access EXCEPT ![b] = t]
  /\ shown' = [shown EXCEPT ![b] = family[t]]
  /\ identity' = family[t]

\* SessionStore.set
Set(b, t) ==
  /\ stored' = [stored EXCEPT ![b] = t]
  /\ access' = [access EXCEPT ![b] = t]
  /\ shown' = [shown EXCEPT ![b] = family[t]]
  /\ identity' = family[t]

\* SessionStore.clear
Clear(b) ==
  /\ stored' = [stored EXCEPT ![b] = None]
  /\ access' = [access EXCEPT ![b] = None]
  /\ shown' = [shown EXCEPT ![b] = None]
  /\ identity' = None

-----------------------------------------------------------------------------
\* The server.

Answer(x, a) == calls' = (calls \ {x}) \cup {[x EXCEPT !.answer = a]}

\* signIn without a second factor, and verifyMfa with the right code.
ServeSignIn(x, t) ==
  /\ x.kind \in {"signIn", "verify"} /\ x.answer = "none"
  /\ Server!Open(t)
  /\ family' = [family EXCEPT ![t] = t]
  /\ Answer(x, t)
  /\ UNCHANGED <<page, stray, unsure>>

ServeChallenge(x) ==
  /\ x.kind = "signIn" /\ x.answer = "none"
  /\ Answer(x, "challenge")
  /\ UNCHANGED <<server, page, stray, unsure>>

\* The refresh token's turn at the server: it is exchanged for n, or refused,
\* which ends the session if it was spent.
Exchanged(t, n) ==
  /\ Server!Exchange(family[t], t, n)
  /\ family' = [family EXCEPT ![n] = family[t]]

Turned(t) ==
  /\ \/ UNCHANGED <<live, minted>>
     \/ t \notin live[family[t]] /\ Server!EndSessions({family[t]})
  /\ UNCHANGED family

ServeRefresh(x) ==
  /\ x.kind = "refresh" /\ x.answer = "none"
  /\ \/ \E n \in Tokens : Exchanged(x.token, n) /\ Answer(x, n)
     \/ Turned(x.token) /\ Answer(x, "refused")
  /\ UNCHANGED <<page, stray, unsure>>

ServeStray(t) ==
  /\ t \in stray
  /\ (\E n \in Tokens : Exchanged(t, n)) \/ Turned(t)
  /\ stray' = stray \ {t}
  /\ UNCHANGED <<page, calls, unsure>>

\* A 401: a wrong code, or an access token that has expired.
ServeRefusal(x) ==
  /\ x.kind \in {"verify", "api"} /\ x.answer = "none"
  /\ Answer(x, "refused")
  /\ UNCHANGED <<server, page, stray, unsure>>

\* A reset, a sign-out elsewhere, an expiry.
SessionEnds(f) ==
  /\ live[f] # {}
  /\ Server!EndSessions({f})
  /\ UNCHANGED <<family, page, calls, stray, unsure>>

\* The request or its answer does not arrive.  Only a page that is restoring
\* acts on it; likewise, a wrong password and data that was asked for are
\* answers that change nothing here.
Lose(x) ==
  /\ x.answer # "lost"
  /\ IF x.kind = "refresh" THEN Answer(x, "lost") ELSE calls' = calls \ {x}
  /\ UNCHANGED <<server, page, stray, unsure>>

Serve(x) ==
  \/ \E t \in Tokens : ServeSignIn(x, t)
  \/ ServeChallenge(x) \/ ServeRefresh(x) \/ ServeRefusal(x) \/ Lose(x)

-----------------------------------------------------------------------------
\* The page.

\* The page is gone, and what it waited for: an exchange still to be served
\* will be, and nobody is told.
Leave(b) ==
  LET abandoned == {x \in CallsOf(b) : x.kind = "refresh"} IN
  /\ stray' = stray \cup {x.token : x \in {y \in abandoned : y.answer = "none"}}
  /\ unsure' = unsure \cup {x.token : x \in abandoned}
  /\ access' = [access EXCEPT ![b] = None]
  /\ challenge' = [challenge EXCEPT ![b] = FALSE]

\* A mistake: authGuard admits whoever has an identity.
GuardIdentity(b) ==
  \/ /\ identity # None
     /\ Show(b, "shell")
     /\ shown' = [shown EXCEPT ![b] = identity]
     /\ UNCHANGED identity
  \/ /\ Show(b, "login")
     /\ shown' = [shown EXCEPT ![b] = identity]
     /\ UNCHANGED identity

\* authGuard, and guestGuard on an address that needs no session, in a tab
\* without a credential: the former forgets the identity, in localStorage too.
Guard(b) ==
  /\ Show(b, "login")
  /\ \/ shown' = [shown EXCEPT ![b] = None] /\ identity' = None
     \/ shown' = [shown EXCEPT ![b] = identity] /\ UNCHANGED identity

\* A tab is opened, or its page loaded again: nothing to restore, or the
\* exchange before anything is rendered.
Load(b) ==
  /\ Leave(b)
  /\ \/ /\ stored[b] = None
        /\ calls' = calls \ CallsOf(b)
        /\ Guard(b)
     \/ /\ stored[b] # None
        /\ calls' = (calls \ CallsOf(b)) \cup {Sent(b, "refresh", stored[b])}
        /\ shown' = [shown EXCEPT ![b] = identity]
        /\ Show(b, "restoring")
        /\ UNCHANGED identity
  /\ UNCHANGED <<server, stored>>

\* The browser copies sessionStorage to the new tab.
Duplicate(b, d) ==
  /\ screen[b] # "closed" /\ stored[b] # None /\ screen[d] = "closed"
  /\ stored' = [stored EXCEPT ![d] = stored[b]]
  /\ shown' = [shown EXCEPT ![d] = identity]
  /\ Show(d, "restoring")
  /\ calls' = calls \cup {Sent(d, "refresh", stored[b])}
  /\ unsure' = unsure \cup {stored[b]}
  /\ UNCHANGED <<server, access, identity, challenge, stray>>

Close(b) ==
  /\ screen[b] # "closed"
  /\ Leave(b) /\ calls' = calls \ CallsOf(b)
  /\ stored' = [stored EXCEPT ![b] = None]
  /\ shown' = [shown EXCEPT ![b] = None]
  /\ Show(b, "closed")
  /\ UNCHANGED <<server, identity>>

\* provideSessionRestore; the guard finds a credential or none.
Restored(x) ==
  /\ x.kind = "refresh" /\ x.answer \in Tokens
  /\ Set(x.tab, x.answer) /\ Show(x.tab, "shell")
  /\ calls' = calls \ {x}
  /\ UNCHANGED <<server, challenge, stray, unsure>>

\* A mistake: an exchange whose answer did not come is tried again.
RestoreRetried(x) ==
  /\ x.kind = "refresh" /\ x.answer \in {"refused", "lost"}
  /\ \/ /\ x.answer = "lost"
        /\ calls' = (calls \ {x}) \cup {[x EXCEPT !.answer = "none"]}
        /\ UNCHANGED page
     \/ /\ x.answer = "refused"
        /\ Clear(x.tab) /\ Show(x.tab, "login")
        /\ calls' = calls \ {x}
        /\ UNCHANGED challenge
  /\ UNCHANGED <<server, stray, unsure>>

\* Whatever the failure, everything is cleared.
RestoreFails(x) ==
  /\ x.kind = "refresh" /\ x.answer \in {"refused", "lost"}
  /\ Clear(x.tab) /\ Show(x.tab, "login")
  /\ calls' = calls \ {x}
  /\ UNCHANGED <<server, challenge, stray, unsure>>

SubmitSignIn(b) ==
  /\ screen[b] = "login" /\ Send(b, "signIn", None)
  /\ UNCHANGED <<server, page, stray, unsure>>

SubmitCode(b) ==
  /\ screen[b] = "mfa" /\ challenge[b] /\ Send(b, "verify", None)
  /\ UNCHANGED <<server, page, stray, unsure>>

\* AuthService.adopt and verifyMfa.  The page that submitted may have been left
\* meanwhile: nothing is unsubscribed.
SignedIn(x) ==
  /\ x.kind \in {"signIn", "verify"} /\ x.answer \in Tokens
  /\ Set(x.tab, x.answer) /\ Show(x.tab, "shell")
  /\ challenge' = [challenge EXCEPT ![x.tab] = @ /\ x.kind = "signIn"]
  /\ calls' = calls \ {x}
  /\ UNCHANGED <<server, stray, unsure>>

Challenged(x) ==
  /\ x.answer = "challenge"
  /\ challenge' = [challenge EXCEPT ![x.tab] = TRUE]
  /\ Show(x.tab, "mfa")
  /\ calls' = calls \ {x}
  /\ UNCHANGED <<server, stored, access, shown, identity, stray, unsure>>

\* Away from the question for a code, or back to it (mfaChallengeGuard).
Navigate(b) ==
  /\ \/ screen[b] = "mfa" /\ access[b] = None /\ Show(b, "login")
     \/ screen[b] = "mfa" /\ access[b] # None /\ Show(b, "shell")
     \/ screen[b] \in {"login", "shell"} /\ challenge[b] /\ Show(b, "mfa")
  /\ UNCHANGED <<server, stored, access, shown, identity, challenge, calls, stray, unsure>>

\* authInterceptor
Request(b) ==
  /\ screen[b] = "shell" /\ access[b] # None /\ Send(b, "api", access[b])
  /\ UNCHANGED <<server, page, stray, unsure>>

\* errorInterceptor: a 401 of anything but the sign-in ends the session of the
\* tab, whichever session the request belonged to.
Unauthorized(x) ==
  /\ x.kind \in {"verify", "api"} /\ x.answer = "refused"
  /\ Clear(x.tab) /\ Show(x.tab, "login")
  /\ calls' = calls \ {x}
  /\ UNCHANGED <<server, challenge, stray, unsure>>

\* AuthService.signOut: the server hears nothing of it.
SignOut(b) ==
  /\ screen[b] = "shell"
  /\ Clear(b) /\ Show(b, "login")
  /\ UNCHANGED <<server, challenge, calls, stray, unsure>>

Arrive(x) ==
  \/ Restored(x) \/ RestoreFails(x) \/ SignedIn(x) \/ Challenged(x)
  \/ Unauthorized(x)

Next ==
  \/ \E b \in Tabs :
       \/ Load(b) \/ Close(b) \/ \E d \in Tabs : Duplicate(b, d)
       \/ SubmitSignIn(b) \/ SubmitCode(b) \/ Navigate(b) \/ Request(b) \/ SignOut(b)
  \/ \E x \in calls : Serve(x) \/ Arrive(x)
  \/ \E t \in stray : ServeStray(t)
  \/ \E f \in Tokens : SessionEnds(f)

Spec == Init /\ [][Next]_vars

-----------------------------------------------------------------------------
\* Safety

\* t can no longer be exchanged, and its session can: presented, it is a replay
\* that may end the session.
Spent(t) == t \notin live[family[t]] /\ live[family[t]] # {}

\* A tab at rest holds the current token of its session, or the session is over,
\* whatever other tabs, losses and reloads do; only a duplicated tab, or a
\* reload that overtook its own exchange, leaves one behind (session-restore,
\* SessionStore).
TabsHoldTheCurrentToken ==
  \A b \in Tabs : screen[b] \in {"login", "mfa", "shell"} /\ stored[b] # None
    => ~Spent(stored[b]) \/ stored[b] \in unsure

\* And for no other reason is a spent token ever presented, which would sign
\* the session out (US-023).
ReplaysAreAccountedFor ==
  /\ \A x \in calls : x.kind = "refresh" /\ x.answer = "none" /\ Spent(x.token)
       => x.token \in unsure
  /\ stray \subseteq unsure

\* The shell never shows a person without the credential of that same person,
\* also when the identity shared by the tabs is another's (authGuard).
ShownIsCredentialed ==
  \A b \in Tabs : screen[b] = "shell" /\ shown[b] # None
    => access[b] # None /\ family[access[b]] = shown[b]

\* What the error interceptor's comment says of a 401: the credential that is no
\* longer good is the session's.
OnlyItsOwnRefusalEnds ==
  [][\A x \in calls : Unauthorized(x) /\ access[x.tab] # None
       => x.token = access[x.tab]]_vars

-----------------------------------------------------------------------------
\* The inductive strengthening.

\* What SessionChain hands out, and who it belongs to.
ServerSound ==
  \A t \in Tokens :
    /\ family[t] # None <=> t \in minted
    /\ family[t] \in minted \cup {None}
    /\ \A u \in live[t] : u \in minted /\ family[u] = t /\ live[t] = {u}

\* Nobody holds what was not handed out.
HoldingsMinted ==
  /\ \A b \in Tabs : {stored[b], access[b]} \subseteq minted \cup {None}
  /\ \A x \in calls : /\ x.kind = "refresh" => x.token \in minted
                      /\ x.answer \in Tokens => x.answer \in minted
  /\ stray \subseteq minted

\* The exchange of a tab is for the token it holds, and there is one of it,
\* exactly while the tab restores.
RestoresSound ==
  /\ \A x \in calls :
       /\ screen[x.tab] # "closed"
       /\ x.kind = "refresh" => screen[x.tab] = "restoring" /\ stored[x.tab] = x.token
       /\ x.kind # "refresh" => screen[x.tab] # "restoring"
       /\ x.answer = "challenge" => x.kind # "refresh"
  /\ \A x, y \in calls : x.kind = "refresh" /\ y.kind = "refresh" /\ x.tab = y.tab => x = y
  /\ \A b \in Tabs :
       /\ screen[b] = "restoring" => \E x \in CallsOf(b) : x.kind = "refresh"
       /\ screen[b] = "closed" => stored[b] = None

\* Of a token that is not unsure there is one holder: the tab that stores it, or
\* the answer that brings it.
OneHolder ==
  \A t \in Tokens \ unsure :
    /\ \A b, d \in Tabs : stored[b] = t /\ stored[d] = t => b = d
    /\ \A x \in calls, b \in Tabs : x.answer = t => stored[b] # t
    /\ \A x, y \in calls : x.answer = t /\ y.answer = t => x = y

AnswersCurrent ==
  \A x \in calls : x.answer \in Tokens => ~Spent(x.answer) \/ x.answer \in unsure

\* A page has an access token in the shell, and may keep it while it asks for
\* a code; it shows the person of that token.
CredentialsShown ==
  \A b \in Tabs :
    /\ access[b] # None => screen[b] \in {"mfa", "shell"} /\ shown[b] = family[access[b]]
    /\ screen[b] = "shell" => access[b] # None

IInv ==
  /\ TypeOK /\ ServerSound /\ HoldingsMinted /\ RestoresSound /\ CredentialsShown
  /\ OneHolder /\ AnswersCurrent
  /\ TabsHoldTheCurrentToken /\ ReplaysAreAccountedFor
=============================================================================
