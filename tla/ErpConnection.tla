--------------------------- MODULE ErpConnection ---------------------------
(***************************************************************************)
(* The credential of one D365 environment: administrators test and save it *)
(* (connection.service.ts, connections.ts), devices are proxied with the   *)
(* access tokens exchanged for it (d365-proxy.service.ts), and every API   *)
(* instance keeps the last token in memory (d365-token.cache.ts).          *)
(*                                                                         *)
(* The directory (Entra) and the ERP are outside: each call to them is     *)
(* accepted or refused as they please.  An action is what a handler does   *)
(* from one await to the next; a transaction on the one row is a step.     *)
(***************************************************************************)
CONSTANTS
  Clients,     \* directory configurations: Entra tenant and client id
  Authorities, \* hosts of the directory
  Commercial,  \* the one of them a new row names (the column's DEFAULT)
  Secrets,     \* client secrets
  Instances,   \* API instances, one token cache each
  Devices,     \* proxied requests in progress at a time
  Admins,      \* administrators' requests in progress at a time
  None

Credential == [client : Clients, authority : Authorities, secret : Secrets]

ASSUME ErpConnectionAssumption ==
  /\ None \notin Credential \cup Devices
  /\ Instances # {} /\ Commercial \in Authorities

VARIABLES
  cred,     \* d365_environment: what a save has stored, None at first
  state,    \* d365_environment.connection_state
  cache,    \* D365TokenCache.tokens: the credential the token was minted from
  flight,   \* D365TokenCache.inFlight: the request that leads the exchange
  device,   \* the proxied requests
  admin,    \* the save and test requests
  tested,   \* history: credentials a save or a test saw accepted
  issued    \* history: credentials the directory issued a cached token for

stored  == <<cred, state>>
caches  == <<cache, flight>>
history == <<tested, issued>>
vars    == <<stored, caches, device, admin, history>>

DeviceState ==
  [pc    : {"idle", "load", "exchange", "join", "send"},
   at    : Instances,
   retry : BOOLEAN,                  \* the second attempt, after a 401
   cred  : Credential \cup {None}]   \* exchanged, or behind the token in hand

AdminState ==
  [pc     : {"idle", "check", "commit", "record", "evict"},
   at     : Instances,
   save   : BOOLEAN,                 \* PUT connection, or POST test
   omit   : SUBSET {"authority", "secret"}, \* what the save does not give
   cred   : Credential \cup {None},  \* what is checked
   verdict: {"connected", "failing"}]

TypeOK ==
  /\ cred \in Credential \cup {None}
  /\ state \in {"not_configured", "connected", "failing"}
  /\ cache \in [Instances -> Credential \cup {None}]
  /\ flight \in [Instances -> Devices \cup {None}]
  /\ device \in [Devices -> DeviceState]
  /\ admin \in [Admins -> AdminState]
  /\ tested \subseteq Credential /\ issued \subseteq Credential

Home == CHOOSE i \in Instances : TRUE

IdleDevice == [pc |-> "idle", at |-> Home, retry |-> FALSE, cred |-> None]

IdleAdmin == [pc |-> "idle", at |-> Home, save |-> FALSE, omit |-> {},
              cred |-> None, verdict |-> "failing"]

Init ==
  /\ cred = None /\ state = "not_configured"
  /\ cache = [i \in Instances |-> None]
  /\ flight = [i \in Instances |-> None]
  /\ device = [d \in Devices |-> IdleDevice]
  /\ admin = [a \in Admins |-> IdleAdmin]
  /\ tested = {} /\ issued = {}

-----------------------------------------------------------------------------
\* D365TokenCache

\* A mistake: a miss does not look for an exchange under way.
TokenForStampede(d, i, retry, live) ==
  LET now(pc, c) == [pc |-> pc, at |-> i, retry |-> retry, cred |-> c] IN
  \/ /\ live # None
     /\ device' = [device EXCEPT ![d] = now("send", live)]
     /\ UNCHANGED flight
  \/ /\ live = None
     /\ device' = [device EXCEPT ![d] = now("load", None)]
     /\ flight' = [flight EXCEPT ![i] = d]

\* tokenFor: a live token, else the exchange under way, else an exchange of
\* one's own.  live is what the cache holds at the call.
TokenFor(d, i, retry, live) ==
  LET now(pc, c) == [pc |-> pc, at |-> i, retry |-> retry, cred |-> c] IN
  \/ /\ live # None
     /\ device' = [device EXCEPT ![d] = now("send", live)]
     /\ UNCHANGED flight
  \/ /\ live = None /\ flight[i] # None
     /\ device' = [device EXCEPT ![d] = now("join", None)]
     /\ UNCHANGED flight
  \/ /\ live = None /\ flight[i] = None
     /\ device' = [device EXCEPT ![d] = now("load", None)]
     /\ flight' = [flight EXCEPT ![i] = d]

Waiting(i) == {e \in Devices : device[e].pc = "join" /\ device[e].at = i}

\* A mistake: those who joined are not told.
AnswersLeader(d, minted) ==
  [device EXCEPT ![d] = IF minted = None THEN IdleDevice
                        ELSE [@ EXCEPT !.pc = "send", !.cred = minted]]

\* The answer of everybody who shares the exchange d leads.
Answers(d, minted) ==
  [e \in Devices |->
     IF e # d /\ e \notin Waiting(device[d].at) THEN device[e]
     ELSE IF minted = None THEN IdleDevice
     ELSE [device[e] EXCEPT !.pc = "send", !.cred = minted]]

\* The promise settles: a token is cached, a failure is not, and the flight is
\* over in either case.
Settle(d, minted) ==
  LET i == device[d].at IN
  /\ cache' = IF minted = None THEN cache ELSE [cache EXCEPT ![i] = minted]
  /\ flight' = [flight EXCEPT ![i] = None]
  /\ device' = Answers(d, minted)

\* A mistake: a refused exchange is cached.
ExchangeUnchecked(d) ==
  /\ device[d].pc = "exchange"
  /\ \/ issued' = issued \cup {device[d].cred}
     \/ UNCHANGED issued
  /\ Settle(d, device[d].cred)
  /\ UNCHANGED <<stored, admin, tested>>

\* A mistake: the retry exchanges a credential that was opened before.
LoadRefused(d) ==
  /\ device[d].pc = "load"
  /\ \E c \in {cred} \cup {k \in issued : device[d].retry} :
       c # None /\ device' = [device EXCEPT ![d].pc = "exchange", ![d].cred = c]
  /\ UNCHANGED <<stored, caches, admin, history>>

\* openClientSecret, in a transaction that may fail.
Load(d) ==
  /\ device[d].pc = "load"
  /\ \/ Settle(d, None)
     \/ /\ cred # None
        /\ device' = [device EXCEPT ![d].pc = "exchange", ![d].cred = cred]
        /\ UNCHANGED caches
  /\ UNCHANGED <<stored, admin, history>>

\* D365TokenClient.exchange: a token, or a refusal or timeout.
Exchange(d) ==
  /\ device[d].pc = "exchange"
  /\ \/ Settle(d, device[d].cred) /\ issued' = issued \cup {device[d].cred}
     \/ Settle(d, None) /\ UNCHANGED issued
  /\ UNCHANGED <<stored, admin, tested>>

\* The entry outlives its expires_in.
TokenExpires(i) ==
  /\ cache[i] # None
  /\ cache' = [cache EXCEPT ![i] = None]
  /\ UNCHANGED <<stored, flight, device, admin, history>>

-----------------------------------------------------------------------------
\* D365ProxyService.forward

\* resolveProxyTarget finds the environment only once it is configured, which
\* it stays, so the token may be asked for in the same step.
Forward(d, i) ==
  /\ device[d].pc = "idle"
  /\ state # "not_configured"
  /\ TokenFor(d, i, FALSE, cache[i])
  /\ UNCHANGED <<stored, cache, admin, history>>

\* The ERP answers, does not answer, or refuses the second token.
Answered(d) ==
  /\ device[d].pc = "send"
  /\ device' = [device EXCEPT ![d] = IdleDevice]
  /\ UNCHANGED <<stored, caches, admin, history>>

\* 401: evict, and try once more.
Refused(d) ==
  /\ device[d].pc = "send" /\ ~device[d].retry
  /\ cache' = [cache EXCEPT ![device[d].at] = None]
  /\ TokenFor(d, device[d].at, TRUE, None)
  /\ UNCHANGED <<stored, admin, history>>

-----------------------------------------------------------------------------
\* ConnectionService

\* entra_authority_host: the column has a default, so it is never NULL.
StoredAuthority == IF cred = None THEN Commercial ELSE cred.authority

\* What a save would store now: what it omits stays as it is stored.
Merged(c, omit) ==
  [client    |-> c.client,
   authority |-> IF "authority" \in omit THEN StoredAuthority ELSE c.authority,
   secret    |-> IF "secret" \in omit THEN cred.secret ELSE c.secret]

\* save, first transaction: credentialsForSave.
SavePrepare(a, i, c, omit) ==
  /\ admin[a].pc = "idle"
  /\ "secret" \in omit => cred # None
  /\ admin' = [admin EXCEPT ![a] = [pc |-> "check", at |-> i, save |-> TRUE, omit |-> omit,
                                    cred |-> Merged(c, omit), verdict |-> "failing"]]
  /\ UNCHANGED <<stored, caches, device, history>>

\* test, first transaction: openClientSecret.
TestPrepare(a, i) ==
  /\ admin[a].pc = "idle"
  /\ cred # None
  /\ admin' = [admin EXCEPT ![a] = [pc |-> "check", at |-> i, save |-> FALSE, omit |-> {},
                                    cred |-> cred, verdict |-> "failing"]]
  /\ UNCHANGED <<stored, caches, device, history>>

\* A mistake: a save that was refused is stored all the same.
CheckIgnored(a) ==
  /\ admin[a].pc = "check"
  /\ \/ tested' = tested \cup {admin[a].cred}
     \/ UNCHANGED tested
  /\ admin' = [admin EXCEPT ![a].pc = IF admin[a].save THEN "commit" ELSE "record",
                            ![a].verdict = "connected"]
  /\ UNCHANGED <<stored, caches, device, issued>>

\* The live check, between the transactions.
Check(a) ==
  /\ admin[a].pc = "check"
  /\ \/ /\ tested' = tested \cup {admin[a].cred}
        /\ admin' = [admin EXCEPT ![a].pc = IF admin[a].save THEN "commit" ELSE "record",
                                  ![a].verdict = "connected"]
     \/ /\ admin' = [admin EXCEPT ![a].pc = "record"]
        /\ UNCHANGED tested
  /\ UNCHANGED <<stored, caches, device, issued>>

\* A mistake: what was checked is stored, parts read before the check included.
SaveCommitChecked(a) ==
  /\ admin[a].pc = "commit"
  /\ cred' = admin[a].cred
  /\ state' = "connected"
  /\ admin' = [admin EXCEPT ![a].pc = "evict"]
  /\ UNCHANGED <<caches, device, history>>

\* saveConnection, which merges with what is stored by now (the coalesce of its
\* UPDATE).
SaveCommit(a) ==
  /\ admin[a].pc = "commit"
  /\ cred' = Merged(admin[a].cred, admin[a].omit)
  /\ state' = "connected"
  /\ admin' = [admin EXCEPT ![a].pc = "evict"]
  /\ UNCHANGED <<caches, device, history>>

\* The token cache of the instance that served the save.
SaveEvict(a) ==
  /\ admin[a].pc = "evict"
  /\ cache' = [cache EXCEPT ![admin[a].at] = None]
  /\ admin' = [admin EXCEPT ![a] = IdleAdmin]
  /\ UNCHANGED <<stored, flight, device, history>>

\* A mistake: the failure of a first save is recorded too.
RecordUnconfigured(a) ==
  /\ admin[a].pc = "record"
  /\ state' = admin[a].verdict
  /\ admin' = [admin EXCEPT ![a] = IdleAdmin]
  /\ UNCHANGED <<cred, caches, device, history>>

\* recordConnectionCheck: of a test, or of a save that was refused.
Record(a) ==
  /\ admin[a].pc = "record"
  /\ state' = IF cred = None THEN state ELSE admin[a].verdict
  /\ admin' = [admin EXCEPT ![a] = IdleAdmin]
  /\ UNCHANGED <<cred, caches, device, history>>

\* The database fails in the second transaction: nothing is written, no cache
\* is evicted, the request ends with an error.
RequestFails(a) ==
  /\ admin[a].pc \in {"commit", "record"}
  /\ admin' = [admin EXCEPT ![a] = IdleAdmin]
  /\ UNCHANGED <<stored, caches, device, history>>

-----------------------------------------------------------------------------
\* An instance stops and starts again: its memory and its requests are gone.
Restart(i) ==
  /\ cache' = [cache EXCEPT ![i] = None]
  /\ flight' = [flight EXCEPT ![i] = None]
  /\ device' = [d \in Devices |-> IF device[d].at = i THEN IdleDevice ELSE device[d]]
  /\ admin' = [a \in Admins |-> IF admin[a].at = i THEN IdleAdmin ELSE admin[a]]
  /\ UNCHANGED <<stored, history>>

DeviceStep(d) == Load(d) \/ Exchange(d) \/ Answered(d) \/ Refused(d)

AdminStep(a) ==
  Check(a) \/ SaveCommit(a) \/ SaveEvict(a) \/ Record(a) \/ RequestFails(a)

Next ==
  \/ \E i \in Instances : TokenExpires(i) \/ Restart(i)
  \/ \E d \in Devices : DeviceStep(d) \/ \E i \in Instances : Forward(d, i)
  \/ \E a \in Admins :
       \/ AdminStep(a)
       \/ \E i \in Instances :
            \/ TestPrepare(a, i)
            \/ \E c \in Credential, omit \in SUBSET {"authority", "secret"} :
                 SavePrepare(a, i, c, omit)

Spec == Init /\ [][Next]_vars

-----------------------------------------------------------------------------
\* Safety

\* However many devices miss the cache of an instance at once, one of them
\* leads one exchange, and nobody waits for an exchange that is over
\* (D365TokenCache.inFlight).
SingleFlight ==
  /\ \A d \in Devices, i \in Instances :
       flight[i] = d <=> device[d].pc \in {"load", "exchange"} /\ device[d].at = i
  /\ \A i \in Instances : Waiting(i) # {} => flight[i] # None

\* A token in a cache or on its way to the ERP was issued by the directory, also
\* when its request only joined the exchange: no failure is cached or presented
\* (D365TokenCache.acquire, D365ProxyService.attempt).
TokensWereIssued ==
  /\ \A i \in Instances : cache[i] # None => cache[i] \in issued
  /\ \A d \in Devices : device[d].pc = "send" => device[d].cred \in issued

\* A device that was let through to the cache finds a credential behind it,
\* however the check of a first save ended (resolveProxyTarget,
\* recordConnectionCheck).
ResolvedIsConfigured ==
  /\ \A d \in Devices : device[d].pc = "load" => cred # None
  /\ state # "not_configured" <=> cred # None

\* Whatever saves and tests race, and whatever they omit, the stored client, the
\* stored authority and the stored secret have each been seen to work, in some
\* check, perhaps not in the same one (ConnectionService.save).
PartsWereTested ==
  cred # None =>
    /\ \E k \in tested : k.client = cred.client
    /\ \E k \in tested : k.authority = cred.authority
    /\ \E k \in tested : k.secret = cred.secret

\* A save stores what it was given, which passed a check, and undoes nothing it
\* was silent about: a secret rotated, or an authority changed, while its check
\* was out survives its commit (credentialsForSave, saveConnection).
KeepsOthers(a) ==
  admin[a].pc = "commit" /\ admin'[a].pc = "evict" =>
    \E k \in tested :
      /\ cred'.client = k.client
      /\ cred'.authority =
           IF "authority" \in admin[a].omit THEN StoredAuthority ELSE k.authority
      /\ cred'.secret = IF "secret" \in admin[a].omit THEN cred.secret ELSE k.secret

SavesUndoNothing == [][\A a \in Admins : KeepsOthers(a)]_vars

\* The inductive strengthening: what a request took along is still worth what
\* it was worth then.  An exchange has a credential, no device is let through
\* before one is stored, a save only commits what passed its check, and an
\* omitted secret is stored.  A save that was silent about the authority while
\* nothing was stored was checked with the default.
DeviceSound(x) ==
  /\ x.pc = "exchange" => x.cred # None
  /\ x.pc # "idle" => cred # None

AdminSound(x) ==
  /\ x.pc = "check" => x.cred # None
  /\ x.pc = "commit" => x.cred \in tested
  /\ x.pc \in {"check", "commit"} /\ "secret" \in x.omit => cred # None
  /\ x.pc \in {"check", "commit"} /\ "authority" \in x.omit /\ cred = None
       => x.cred.authority = Commercial

IInv ==
  /\ TypeOK
  /\ \A d \in Devices : DeviceSound(device[d])
  /\ \A a \in Admins : AdminSound(admin[a])
  /\ SingleFlight /\ TokensWereIssued /\ ResolvedIsConfigured /\ PartsWereTested

-----------------------------------------------------------------------------
\* What the comments say and the code does not do.

\* saveConnection: "there is no path through this function that stores an
\* untested credential".  A secret, or an authority, that a save omits is merged
\* twice, before the check and at the commit.
StoredIsTested == cred # None => cred \in tested

\* evict: a rotated secret's token must not stay cached once the save returned.
ReplacedSecretIsEvicted ==
  \A i \in Instances :
    cache[i] \in {None, cred} \/ \E a \in Admins : admin[a].pc = "evict"

-----------------------------------------------------------------------------
\* Liveness: Node runs every settled promise, the calls out have timeouts, and
\* a token has a lifetime.
FairSpec ==
  /\ Spec
  /\ \A d \in Devices : WF_vars(DeviceStep(d))
  /\ \A a \in Admins : WF_vars(AdminStep(a))
  /\ \A i \in Instances : WF_vars(TokenExpires(i))

\* Every request is answered: nobody is left waiting for somebody else's
\* exchange (tokenFor).
EveryRequestAnswered ==
  /\ \A d \in Devices : []<>(device[d].pc = "idle")
  /\ \A a \in Admins : []<>(admin[a].pc = "idle")

\* A credential that is no longer stored disappears from every instance in the
\* end, also from those whose cache no save evicts (the cache's header).
ReplacedSecretFades ==
  \A k \in Credential :
    <>[](cred # k) => <>[](\A i \in Instances : cache[i] # k)
=============================================================================
