------------------------------ MODULE Scoping -------------------------------
(***************************************************************************)
(* How a request reaches the database: the guard that puts the token's     *)
(* tenant in the request context, the platform guard and the lookup its    *)
(* first callers share, and withRequestTenantScope or withoutTenantScope   *)
(* on a connection of the pool, which is borrowed, set up, used, and       *)
(* handed back to whoever comes next.                                      *)
(*                                                                         *)
(* Any statement may fail, a connection may break at any time, idle or     *)
(* borrowed, and the process may stop with a borrowed one: the pool's      *)
(* error listener is not on it then.  What fn does is the other modules'   *)
(* matter; here it is one step on a connection, under the role and the     *)
(* tenant setting in force.                                                *)
(***************************************************************************)
EXTENDS Sequences, FiniteSets

CONSTANTS
  Requests,
  Conns,      \* as many as the pool may open
  Tenants,
  Platform,   \* the tenant with is_platform
  None

ASSUME ScopingAssumption ==
  /\ Platform \in Tenants
  /\ None \notin Tenants \cup Conns \cup Requests

VARIABLES
  pc,
  kind,      \* what the route does: scoped, platform, or public
  claims,    \* the tenant in the request's token
  context,   \* the tenant in its AsyncLocalStorage context
  scope,     \* the tenant the transaction is for, None for an unscoped one
  holds,     \* the connection it has borrowed
  shared,    \* the request whose lookup it waits for
  outcome,   \* of the lookup a request made
  cached,    \* platformTenantId: the request whose lookup it holds, or None
  queue,     \* requests waiting in the pool
  conn

request == <<pc, kind, claims, context, scope, holds, shared>>
lookup  == <<outcome, cached>>
vars    == <<request, lookup, queue, conn>>

Setting == [role : {"owner", "app_user"}, tenant : Tenants \cup {None}]
Default == [role |-> "owner", tenant |-> None]

Connection ==
  [state : {"absent", "open", "broken"},
   txn   : BOOLEAN,
   sess  : Setting,    \* in force outside a transaction
   local : Setting]    \* in force in the transaction

Absent == [state |-> "absent", txn |-> FALSE, sess |-> Default, local |-> Default]
Fresh  == [Absent EXCEPT !.state = "open"]

Working == {"begin", "role", "tenant", "work", "commit"}
Holding == Working \cup {"rollback", "done", "undone"}
Ended   == {"answered", "failed"}   \* failed: refused, an error, or no answer at all

TypeOK ==
  /\ pc \in [Requests -> {"new", "authenticated", "guarded", "waiting", "queued"}
                           \cup Holding \cup Ended]
  /\ kind \in [Requests -> {"scoped", "platform", "public"}]
  /\ claims \in [Requests -> Tenants \cup {None}]
  /\ context \in [Requests -> Tenants \cup {None}]
  /\ scope \in [Requests -> Tenants \cup {None}]
  /\ holds \in [Requests -> Conns \cup {None}]
  /\ shared \in [Requests -> Requests \cup {None}]
  /\ outcome \in [Requests -> {"none", "pending", "ready", "failed"}]
  /\ cached \in Requests \cup {None}
  /\ queue \in Seq(Requests)
  /\ conn \in [Conns -> Connection]

Init ==
  /\ pc = [r \in Requests |-> "new"]
  /\ kind \in [Requests -> {"scoped", "platform", "public"}]
  /\ claims \in [Requests -> Tenants \cup {None}]
  /\ \A r \in Requests : kind[r] = "public" => claims[r] = None
  /\ context = [r \in Requests |-> None]
  /\ scope = [r \in Requests |-> None]
  /\ holds = [r \in Requests |-> None]
  /\ shared = [r \in Requests |-> None]
  /\ outcome = [r \in Requests |-> "none"]
  /\ cached = None
  /\ queue = <<>>
  /\ conn = [c \in Conns |-> Absent]

-----------------------------------------------------------------------------
\* The guards.

\* A mistake: the tenant is kept in a variable of the module.
SetProcessTenant(r, t) == context' = [q \in Requests |-> t]

SetRequestTenant(r, t) == context' = [context EXCEPT ![r] = t]

\* AccessTokenGuard; a public route has none.
Authenticate(r) ==
  /\ pc[r] = "new"
  /\ \/ /\ kind[r] = "public"
        /\ pc' = [pc EXCEPT ![r] = "guarded"]
        /\ UNCHANGED context
     \/ /\ kind[r] # "public" /\ claims[r] = None
        /\ pc' = [pc EXCEPT ![r] = "failed"]
        /\ UNCHANGED context
     \/ /\ kind[r] # "public" /\ claims[r] # None
        /\ SetRequestTenant(r, claims[r])
        /\ pc' = [pc EXCEPT ![r] = IF kind[r] = "platform" THEN "authenticated"
                                                           ELSE "guarded"]
  /\ UNCHANGED <<kind, claims, scope, holds, shared, lookup, queue, conn>>

\* resolvePlatformTenantId: whoever finds nothing cached looks it up, unscoped.
Lead(r) ==
  /\ pc[r] = "authenticated" /\ kind[r] = "platform" /\ cached = None
  /\ cached' = r
  /\ outcome' = [outcome EXCEPT ![r] = "pending"]
  /\ shared' = [shared EXCEPT ![r] = r]
  /\ scope' = [scope EXCEPT ![r] = None]
  /\ queue' = Append(queue, r)
  /\ pc' = [pc EXCEPT ![r] = "queued"]
  /\ UNCHANGED <<kind, claims, context, holds, conn>>

Follow(r) ==
  /\ pc[r] = "authenticated" /\ kind[r] = "platform" /\ cached # None
  /\ shared' = [shared EXCEPT ![r] = cached]
  /\ pc' = [pc EXCEPT ![r] = "waiting"]
  /\ UNCHANGED <<kind, claims, context, scope, holds, lookup, queue, conn>>

\* The lookup is there, or has failed; the permission is in the claims or not.
Resolved(r) ==
  /\ pc[r] = "waiting"
  /\ \/ /\ outcome[shared[r]] = "ready" /\ claims[r] = Platform
        /\ pc' = [pc EXCEPT ![r] = "guarded"]
     \/ /\ outcome[shared[r]] \in {"ready", "failed"}
        /\ pc' = [pc EXCEPT ![r] = "failed"]
  /\ UNCHANGED <<kind, claims, context, scope, holds, shared, lookup, queue, conn>>

\* withRequestTenantScope takes the tenant from the context and from nowhere
\* else; withoutTenantScope takes none.
Ask(r) ==
  /\ pc[r] = "guarded"
  /\ kind[r] = "scoped" => context[r] # None
  /\ scope' = [scope EXCEPT ![r] = IF kind[r] = "scoped" THEN context[r] ELSE None]
  /\ queue' = Append(queue, r)
  /\ pc' = [pc EXCEPT ![r] = "queued"]
  /\ UNCHANGED <<kind, claims, context, holds, shared, lookup, conn>>

-----------------------------------------------------------------------------
\* The end of withRequestTenantScope or withoutTenantScope for its caller: the
\* handler, or the guard, which forgets a lookup that failed.

\* A mistake: the rejected promise stays cached.
SettleCached(r, ok) ==
  IF outcome[r] = "pending"
    THEN /\ outcome' = [outcome EXCEPT ![r] = IF ok THEN "ready" ELSE "failed"]
         /\ UNCHANGED cached
         /\ pc' = [pc EXCEPT ![r] = "waiting"]
    ELSE /\ pc' = [pc EXCEPT ![r] = IF ok THEN "answered" ELSE "failed"]
         /\ UNCHANGED lookup

Settle(r, ok) ==
  IF outcome[r] = "pending"
    THEN /\ outcome' = [outcome EXCEPT ![r] = IF ok THEN "ready" ELSE "failed"]
         /\ cached' = IF ~ok /\ cached = r THEN None ELSE cached
         /\ pc' = [pc EXCEPT ![r] = "waiting"]
    ELSE /\ pc' = [pc EXCEPT ![r] = IF ok THEN "answered" ELSE "failed"]
         /\ UNCHANGED lookup

-----------------------------------------------------------------------------
\* The pool.

Free(state) == {c \in Conns : conn[c].state = state /\ \A r \in Requests : holds[r] # c}

\* First come, first served: an idle connection, or a new one.
Connect(c) ==
  /\ queue # <<>>
  /\ c \in IF Free("open") # {} THEN Free("open") ELSE Free("absent")
  /\ conn' = [conn EXCEPT ![c] = IF @.state = "absent" THEN Fresh ELSE @]
  /\ holds' = [holds EXCEPT ![Head(queue)] = c]
  /\ pc' = [pc EXCEPT ![Head(queue)] = "begin"]
  /\ queue' = Tail(queue)
  /\ UNCHANGED <<kind, claims, context, scope, shared, lookup>>

ConnectFails ==
  /\ queue # <<>> /\ Free("open") = {} /\ Free("absent") # {}
  /\ Settle(Head(queue), FALSE)
  /\ queue' = Tail(queue)
  /\ UNCHANGED <<kind, claims, context, scope, holds, shared, conn>>

\* The listener of createPool logs it and the pool forgets the connection.
IdleBreaks(c) ==
  /\ c \in Free("open")
  /\ conn' = [conn EXCEPT ![c] = Absent]
  /\ UNCHANGED <<request, lookup, queue>>

BorrowedBreaks(c) ==
  /\ conn[c].state = "open" /\ \E r \in Requests : holds[r] = c
  /\ conn' = [conn EXCEPT ![c] = [Absent EXCEPT !.state = "broken"]]
  /\ UNCHANGED <<request, lookup, queue>>

\* Nothing listens on a borrowed connection, and the error ends the process;
\* the next one starts with an empty pool and nothing cached.
Restart ==
  /\ \E c \in Conns : conn[c].state = "broken"
  /\ pc' = [r \in Requests |-> IF pc[r] \in {"new"} \cup Ended THEN pc[r] ELSE "failed"]
  /\ holds' = [r \in Requests |-> None]
  /\ outcome' = [r \in Requests |-> "none"]
  /\ cached' = None
  /\ queue' = <<>>
  /\ conn' = [c \in Conns |-> Absent]
  /\ UNCHANGED <<kind, claims, context, scope, shared>>

-----------------------------------------------------------------------------
\* The statements around fn.

\* The request's statement reached the server.
At(r, label) == pc[r] = label /\ conn[holds[r]].state = "open"

BeginTransaction(k) == [k EXCEPT !.txn = TRUE, !.local = k.sess]
EndTransaction(k)   == [k EXCEPT !.txn = FALSE, !.local = k.sess]

Begin(r) ==
  /\ At(r, "begin")
  /\ conn' = [conn EXCEPT ![holds[r]] = BeginTransaction(@)]
  /\ pc' = [pc EXCEPT ![r] = IF scope[r] = None THEN "work" ELSE "role"]
  /\ UNCHANGED <<kind, claims, context, scope, holds, shared, lookup, queue>>

\* A mistake: SET without LOCAL outlives the transaction.
SetSession(k, setting) == [k EXCEPT !.local = setting, !.sess = setting]

SetLocal(k, setting) == [k EXCEPT !.local = setting]

\* SET LOCAL ROLE.
SetRole(r) ==
  /\ At(r, "role")
  /\ conn' = [conn EXCEPT ![holds[r]] = SetLocal(@, [@.local EXCEPT !.role = "app_user"])]
  /\ pc' = [pc EXCEPT ![r] = "tenant"]
  /\ UNCHANGED <<kind, claims, context, scope, holds, shared, lookup, queue>>

\* set_config(..., true).
SetTenant(r) ==
  /\ At(r, "tenant")
  /\ conn' = [conn EXCEPT ![holds[r]] = SetLocal(@, [@.local EXCEPT !.tenant = scope[r]])]
  /\ pc' = [pc EXCEPT ![r] = "work"]
  /\ UNCHANGED <<kind, claims, context, scope, holds, shared, lookup, queue>>

Work(r) ==
  /\ At(r, "work")
  /\ pc' = [pc EXCEPT ![r] = "commit"]
  /\ UNCHANGED <<kind, claims, context, scope, holds, shared, lookup, queue, conn>>

Commit(r) ==
  /\ At(r, "commit")
  /\ conn' = [conn EXCEPT ![holds[r]] = EndTransaction(@)]
  /\ pc' = [pc EXCEPT ![r] = "done"]
  /\ UNCHANGED <<kind, claims, context, scope, holds, shared, lookup, queue>>

\* A statement fails, or the connection has, or fn throws.
Throw(r) ==
  /\ pc[r] \in Working
  /\ pc' = [pc EXCEPT ![r] = "rollback"]
  /\ UNCHANGED <<kind, claims, context, scope, holds, shared, lookup, queue, conn>>

\* ROLLBACK, its own failure swallowed.
Rollback(r) ==
  /\ pc[r] = "rollback"
  /\ conn' = [conn EXCEPT ![holds[r]] = IF @.state = "open" THEN EndTransaction(@) ELSE @]
  /\ pc' = [pc EXCEPT ![r] = "undone"]
  /\ UNCHANGED <<kind, claims, context, scope, holds, shared, lookup, queue>>

\* A mistake: only the path that worked hands the connection back.
ReleaseDone(r) ==
  /\ pc[r] \in {"done", "undone"}
  /\ holds' = [holds EXCEPT ![r] = IF pc[r] = "done" THEN None ELSE @]
  /\ conn' = [conn EXCEPT ![holds[r]] = IF @.state = "open" THEN @ ELSE Absent]
  /\ Settle(r, pc[r] = "done")
  /\ UNCHANGED <<kind, claims, context, scope, shared, queue>>

\* finally; the pool keeps what still works.
Release(r) ==
  /\ pc[r] \in {"done", "undone"}
  /\ holds' = [holds EXCEPT ![r] = None]
  /\ conn' = [conn EXCEPT ![holds[r]] = IF @.state = "open" THEN @ ELSE Absent]
  /\ Settle(r, pc[r] = "done")
  /\ UNCHANGED <<kind, claims, context, scope, shared, queue>>

-----------------------------------------------------------------------------
Step(r) ==
  \/ Lead(r) \/ Follow(r) \/ Resolved(r) \/ Ask(r)
  \/ Begin(r) \/ SetRole(r) \/ SetTenant(r) \/ Work(r) \/ Commit(r)
  \/ Throw(r) \/ Rollback(r) \/ Release(r)

Serve == ConnectFails \/ \E c \in Conns : Connect(c)

Next ==
  \/ \E r \in Requests : Authenticate(r) \/ Step(r)
  \/ Serve
  \/ \E c \in Conns : IdleBreaks(c) \/ BorrowedBreaks(c)
  \/ Restart

Spec == Init /\ [][Next]_vars

\* Every statement and every attempt to connect is answered or fails.
FairSpec ==
  /\ Spec
  /\ \A r \in Requests : WF_vars(Step(r))
  /\ WF_vars(Serve)

-----------------------------------------------------------------------------
\* A connection has one borrower, who is past the queue and not yet at the end.
OneBorrower ==
  /\ \A r \in Requests : (holds[r] # None) = (pc[r] \in Holding)
  /\ \A r, q \in Requests : holds[r] # None /\ holds[r] = holds[q] => r = q

\* Nothing of a borrower stays on a connection: outside a transaction it is the
\* owner's with no tenant, and in the pool it is outside a transaction.
ConnectionsAreClean ==
  /\ \A c \in Conns :
       /\ conn[c].sess = Default
       /\ ~conn[c].txn => conn[c].local = Default
       /\ conn[c].txn => conn[c].state = "open"
       /\ (\A r \in Requests : holds[r] # c) => conn[c].state # "broken" /\ ~conn[c].txn
  /\ \A r \in Requests : pc[r] \in {"begin", "done", "undone"} => ~conn[holds[r]].txn

\* What a transaction runs under before fn.
SetUp(r) ==
  pc[r] \in Working \ {"begin"} =>
    LET k == conn[holds[r]]
    IN  k.state = "open" =>
        /\ k.txn
        /\ pc[r] = "role" => k.local = Default
        /\ pc[r] = "tenant" => k.local = [Default EXCEPT !.role = "app_user"]

\* The context is the token's, and the scope the context's.
ContextIsClaimed ==
  \A r \in Requests :
    /\ pc[r] = "guarded" /\ kind[r] = "scoped" => context[r] = claims[r]
    /\ pc[r] \in {"authenticated", "waiting"} => kind[r] = "platform"
    /\ pc[r] \in {"queued"} \cup Holding =>
         scope[r] = IF kind[r] = "scoped" THEN claims[r] ELSE None
    /\ kind[r] = "scoped" /\ pc[r] \notin {"new"} \cup Ended => claims[r] # None
    /\ pc[r] \in {"role", "tenant"} => scope[r] # None

\* withRequestTenantScope and withoutTenantScope, on a pool whose connections
\* serve every tenant and the operators: what fn does for a request runs in a
\* transaction, as app_user and under the tenant of that request's own token
\* when it is scoped, and as the owner under none when it is not, whatever the
\* requests that had the connection before did or failed to do.
OwnTenantOnly ==
  \A r \in Requests : pc[r] \in {"work", "commit"} /\ conn[holds[r]].state = "open" =>
    /\ conn[holds[r]].txn
    /\ conn[holds[r]].local = IF kind[r] = "scoped"
                                THEN [role |-> "app_user", tenant |-> claims[r]]
                                ELSE Default

\* resolvePlatformTenantId: concurrent callers share one lookup and a failed
\* one is forgotten.  What is cached is never a lookup that failed, and a
\* lookup in progress is always the cached one, so no two are ever in progress.
FailedLookupIsForgotten ==
  /\ cached # None => outcome[cached] \in {"pending", "ready"}
  /\ \A r \in Requests : outcome[r] = "pending" => cached = r

\* Whoever waits for a lookup waits for one that was made.
Waiters ==
  /\ \A r \in Requests : pc[r] = "waiting" => shared[r] # None /\ outcome[shared[r]] # "none"
  /\ \A r \in Requests : outcome[r] = "pending" =>
       pc[r] \in {"queued"} \cup Holding /\ shared[r] = r /\ kind[r] = "platform"
  /\ \A r \in Requests : pc[r] = "queued" <=> \E i \in DOMAIN queue : queue[i] = r
  /\ \A i, j \in DOMAIN queue : queue[i] = queue[j] => i = j

IInv ==
  /\ TypeOK
  /\ OneBorrower
  /\ ConnectionsAreClean
  /\ \A r \in Requests : SetUp(r)
  /\ ContextIsClaimed
  /\ OwnTenantOnly
  /\ FailedLookupIsForgotten
  /\ Waiters

\* Whatever fails, the pool is given back what it lent: every request that
\* passed its guard is answered or failed, also with more requests
\* than connections, callers of one lookup waiting for another's connection,
\* and connections that break.
EveryRequestEnds ==
  \A r \in Requests : []<>(pc[r] \in {"new"} \cup Ended)
=============================================================================
