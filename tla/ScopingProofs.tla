--------------------------- MODULE ScopingProofs ---------------------------
(***************************************************************************)
(* Proofs about Scoping, for every set of requests, connections and        *)
(* tenants.  IInv is inductive.  A connection is clean whenever it changes *)
(* hands, because each way from BEGIN to the pool ends the transaction     *)
(* (ConnectionsAreClean), and between the two it belongs to one request    *)
(* (OneBorrower): so what its statements set up is what fn runs under.     *)
(***************************************************************************)
EXTENDS Scoping, Integers, TLAPS

Labels == {"new", "authenticated", "guarded", "waiting", "queued"} \cup Holding \cup Ended

\* The requests in the pool's queue, and that none is there twice.
Queued   == {queue[i] : i \in DOMAIN queue}
Distinct == \A i, j \in DOMAIN queue : queue[i] = queue[j] => i = j

\* SetUp and OwnTenantOnly of a request at label p on a connection k.
Prepared(r, p, k) ==
  p \in Working \ {"begin"} /\ k.state = "open" =>
    /\ k.txn
    /\ p = "role" => k.local = Default
    /\ p = "tenant" => k.local = [Default EXCEPT !.role = "app_user"]
    /\ p \in {"work", "commit"} =>
         k.local = IF kind[r] = "scoped" THEN [role |-> "app_user", tenant |-> claims[r]]
                                         ELSE Default

\* A connection by itself, in or out of a transaction.
Clean(k) ==
  /\ k.sess = Default
  /\ ~k.txn => k.local = Default
  /\ k.txn => k.state = "open"

LEMMA PreparedParts ==
  (\A r \in Requests : Prepared(r, pc[r], conn[holds[r]]))
    <=> (\A r \in Requests : SetUp(r)) /\ OwnTenantOnly
BY DEF Prepared, SetUp, OwnTenantOnly, Working

LEMMA PreparedPartsNext ==
  ASSUME \A r \in Requests : Prepared(r, pc[r], conn[holds[r]])'
  PROVE  (\A r \in Requests : SetUp(r))' /\ OwnTenantOnly'
BY DEF Prepared, SetUp, OwnTenantOnly, Working

LEMMA DefaultIsConnection ==
  /\ Default \in Setting /\ Absent \in Connection /\ Fresh \in Connection
  /\ Absent.state = "absent" /\ ~Absent.txn /\ Absent.sess = Default /\ Absent.local = Default
  /\ Fresh.state = "open" /\ ~Fresh.txn /\ Fresh.sess = Default /\ Fresh.local = Default
BY DEF Default, Setting, Absent, Fresh, Connection

-----------------------------------------------------------------------------
\* The queue.

LEMMA Joined ==
  ASSUME queue \in Seq(Requests), NEW r \in Requests, queue' = Append(queue, r),
         r \notin Queued, Distinct
  PROVE  Queued' = Queued \cup {r} /\ Distinct' /\ queue' \in Seq(Requests)
<1>1. /\ DOMAIN queue = 1..Len(queue) /\ DOMAIN queue' = 1..Len(queue) + 1
      /\ Len(queue) \in Nat /\ queue'[Len(queue) + 1] = r
      /\ \A i \in DOMAIN queue : queue'[i] = queue[i]
  OBVIOUS
<1>2. DOMAIN queue' = DOMAIN queue \cup {Len(queue) + 1} /\ Len(queue) + 1 \notin DOMAIN queue
  BY <1>1
<1>3. Queued' = Queued \cup {r}
  BY <1>1, <1>2 DEF Queued
<1>4. Distinct'
  BY <1>1, <1>2 DEF Queued, Distinct
<1> QED
  BY <1>3, <1>4

LEMMA Served ==
  ASSUME queue \in Seq(Requests), queue # <<>>, queue' = Tail(queue), Distinct
  PROVE  /\ Head(queue) \in Queued /\ Head(queue) \in Requests
         /\ Queued' = Queued \ {Head(queue)}
         /\ Distinct' /\ queue' \in Seq(Requests)
<1>1. /\ DOMAIN queue = 1..Len(queue) /\ DOMAIN queue' = 1..Len(queue) - 1
      /\ Len(queue) \in Nat \ {0} /\ Head(queue) = queue[1]
      /\ \A i \in DOMAIN queue' : i + 1 \in DOMAIN queue /\ queue'[i] = queue[i + 1]
  OBVIOUS
<1>2. \A i \in DOMAIN queue \ {1} : i - 1 \in DOMAIN queue' /\ queue[i] = queue'[i - 1]
  BY <1>1
<1>3. Head(queue) \in Queued /\ Head(queue) \in Requests
  BY <1>1 DEF Queued
<1>4. \A i \in DOMAIN queue \ {1} : queue[i] # Head(queue)
  BY <1>1 DEF Distinct
<1>5. Queued' = Queued \ {Head(queue)}
  <2>1. ASSUME NEW x \in Queued' PROVE x \in Queued \ {Head(queue)}
    <3>1. PICK i \in DOMAIN queue' : x = queue'[i]
      BY <2>1 DEF Queued
    <3>2. i + 1 \in DOMAIN queue /\ i + 1 # 1 /\ x = queue[i + 1]
      BY <1>1, <3>1
    <3> QED
      BY <1>4, <3>2 DEF Queued
  <2>2. ASSUME NEW x \in Queued \ {Head(queue)} PROVE x \in Queued'
    <3>1. PICK i \in DOMAIN queue : x = queue[i]
      BY <2>2 DEF Queued
    <3>2. i # 1
      BY <1>1, <2>2, <3>1
    <3> QED
      BY <1>2, <3>1, <3>2 DEF Queued
  <2> QED
    BY <2>1, <2>2
<1>6. Distinct'
  BY <1>1 DEF Distinct
<1> QED
  BY <1>3, <1>5, <1>6

-----------------------------------------------------------------------------
\* What IInv says, by parts.

Invited ==
  /\ \A r \in Requests : pc[r] = "waiting" => shared[r] # None /\ outcome[shared[r]] # "none"
  /\ \A r \in Requests : outcome[r] = "pending" =>
       pc[r] \in {"queued"} \cup Holding /\ shared[r] = r /\ kind[r] = "platform"

LEMMA Parts ==
  IInv <=> /\ TypeOK /\ OneBorrower /\ ConnectionsAreClean
           /\ \A r \in Requests : Prepared(r, pc[r], conn[holds[r]])
           /\ ContextIsClaimed /\ FailedLookupIsForgotten /\ Invited
           /\ (\A r \in Requests : pc[r] = "queued" <=> r \in Queued) /\ Distinct
<1>1. Waiters <=> Invited /\ (\A r \in Requests : pc[r] = "queued" <=> r \in Queued) /\ Distinct
  BY DEF Waiters, Invited, Queued, Distinct
<1> QED
  BY <1>1, PreparedParts DEF IInv

LEMMA PartsNext ==
  ASSUME TypeOK', OneBorrower', ConnectionsAreClean',
         \A r \in Requests : Prepared(r, pc[r], conn[holds[r]])',
         ContextIsClaimed', FailedLookupIsForgotten', Invited',
         \A r \in Requests : pc'[r] = "queued" <=> r \in Queued', Distinct'
  PROVE  IInv'
<1>1. Waiters'
  BY DEF Waiters, Invited, Queued, Distinct
<1> QED
  BY <1>1, PreparedPartsNext DEF IInv

\* A step of a request that has no connection before it, nor after.
LEMMA GuardStep ==
  ASSUME IInv, NEW r \in Requests, NEW p \in Labels \ Holding,
         pc[r] \notin Holding, pc' = [pc EXCEPT ![r] = p],
         UNCHANGED <<kind, claims, holds, conn>>
  PROVE  /\ OneBorrower' /\ ConnectionsAreClean'
         /\ \A q \in Requests : Prepared(q, pc[q], conn[holds[q]])'
<1> USE Parts
<1>1. pc'[r] = p /\ \A q \in Requests \ {r} : pc'[q] = pc[q]
  BY DEF TypeOK
<1>2. \A q \in Requests : pc'[q] \in Holding <=> pc[q] \in Holding
  BY <1>1
<1>3. OneBorrower'
  BY <1>2 DEF OneBorrower
<1>4. {"begin", "done", "undone"} \subseteq Holding /\ Working \subseteq Holding
  BY DEF Holding, Working
<1>5. ConnectionsAreClean'
  BY <1>1, <1>4 DEF ConnectionsAreClean
<1>6. ASSUME NEW q \in Requests
      PROVE  Prepared(q, pc[q], conn[holds[q]])'
  <2>1. CASE q = r
    BY <1>1, <1>4, <2>1 DEF Prepared
  <2>2. CASE q # r
    BY <1>1, <2>2 DEF Prepared
  <2> QED
    BY <2>1, <2>2
<1> QED
  BY <1>3, <1>5, <1>6

\* A statement: the request goes from one label to another on its connection.
LEMMA StatementStep ==
  ASSUME IInv, NEW r \in Requests, NEW p \in Holding, NEW k \in Connection,
         pc[r] \in Holding, pc' = [pc EXCEPT ![r] = p],
         conn' = [conn EXCEPT ![holds[r]] = k],
         UNCHANGED <<kind, claims, context, scope, holds, shared, lookup, queue>>,
         Clean(k), p \in {"begin", "done", "undone"} => ~k.txn,
         Prepared(r, p, k),
         p \in {"role", "tenant"} => scope[r] # None
  PROVE  IInv'
<1> USE Parts
<1>1. pc'[r] = p /\ \A q \in Requests \ {r} : pc'[q] = pc[q]
  BY DEF TypeOK
<1>2. holds[r] \in Conns /\ \A q \in Requests \ {r} : holds[q] # holds[r]
  BY DEF TypeOK, OneBorrower
<1>3. conn'[holds[r]] = k /\ \A c \in Conns \ {holds[r]} : conn'[c] = conn[c]
  BY <1>2 DEF TypeOK
<1>4. TypeOK'
  BY <1>2 DEF TypeOK, lookup
<1>5. OneBorrower'
  BY <1>1 DEF OneBorrower
<1>6. \A q \in Requests \ {r} : pc[q] \in Holding => holds[q] \in Conns \ {holds[r]}
  BY <1>2 DEF TypeOK, OneBorrower
<1>7. {"begin", "done", "undone"} \subseteq Holding /\ Working \subseteq Holding
  BY DEF Holding, Working
<1>8. ConnectionsAreClean'
  <2>1. ASSUME NEW c \in Conns
        PROVE  /\ conn'[c].sess = Default
               /\ ~conn'[c].txn => conn'[c].local = Default
               /\ conn'[c].txn => conn'[c].state = "open"
               /\ (\A q \in Requests : holds[q] # c) =>
                    conn'[c].state # "broken" /\ ~conn'[c].txn
    BY <1>3 DEF ConnectionsAreClean, Clean
  <2>2. ASSUME NEW q \in Requests, pc'[q] \in {"begin", "done", "undone"}
        PROVE  ~conn'[holds[q]].txn
    BY <1>1, <1>3, <1>6, <1>7, <2>2 DEF ConnectionsAreClean
  <2> QED
    BY <2>1, <2>2 DEF ConnectionsAreClean
<1>9. ASSUME NEW q \in Requests
      PROVE  Prepared(q, pc[q], conn[holds[q]])'
  <2>1. CASE q = r
    BY <1>1, <1>3, <2>1 DEF Prepared
  <2>2. CASE q # r
    BY <1>1, <1>3, <1>6, <1>7, <2>2 DEF Prepared
  <2> QED
    BY <2>1, <2>2
<1>10. ContextIsClaimed'
  BY <1>1 DEF ContextIsClaimed, Holding, Working, Ended
<1>11. FailedLookupIsForgotten' /\ Queued' = Queued /\ Distinct'
  BY DEF FailedLookupIsForgotten, lookup, Queued, Distinct
<1>12. Invited' /\ \A q \in Requests : pc'[q] = "queued" <=> pc[q] = "queued"
  BY <1>1 DEF Invited, lookup, Holding, Working
<1> QED
  BY <1>4, <1>5, <1>8, <1>9, <1>10, <1>11, <1>12, PartsNext

THEOREM InitIInv == Init => IInv
<1> SUFFICES ASSUME Init PROVE IInv
  OBVIOUS
<1> USE DEF Init
<1>1. TypeOK
  BY DefaultIsConnection DEF TypeOK
<1>2. OneBorrower /\ ContextIsClaimed /\ FailedLookupIsForgotten /\ Invited
  BY DEF OneBorrower, ContextIsClaimed, FailedLookupIsForgotten, Invited, Holding, Working, Ended
<1>3. ConnectionsAreClean
  BY DefaultIsConnection DEF ConnectionsAreClean
<1>4. \A r \in Requests : Prepared(r, pc[r], conn[holds[r]])
  BY DEF Prepared, Working
<1>5. Queued = {} /\ Distinct
  BY DEF Queued, Distinct
<1> QED
  BY <1>1, <1>2, <1>3, <1>4, <1>5, Parts

-----------------------------------------------------------------------------
\* The guards.

LEMMA AuthenticateStep ==
  ASSUME IInv, NEW r \in Requests, Authenticate(r)
  PROVE  IInv'
<1> USE Parts
<1> DEFINE p == pc'[r]
<1>1. /\ pc[r] = "new" /\ p \in {"guarded", "failed", "authenticated"}
      /\ pc' = [pc EXCEPT ![r] = p]
      /\ \A q \in Requests \ {r} : context'[q] = context[q]
      /\ p = "authenticated" => kind[r] = "platform"
      /\ p = "guarded" /\ kind[r] = "scoped" => context'[r] = claims[r] /\ claims[r] # None
      /\ UNCHANGED <<kind, claims, scope, holds, shared, lookup, queue, conn>>
  BY DEF Authenticate, SetRequestTenant, TypeOK
<1>2. context' \in [Requests -> Tenants \cup {None}]
  BY DEF Authenticate, SetRequestTenant, TypeOK
<1> HIDE DEF p
<1>3. pc'[r] = p /\ \A q \in Requests \ {r} : pc'[q] = pc[q]
  BY <1>1 DEF TypeOK
<1>4. pc[r] \notin Holding /\ p \in Labels \ Holding
  BY <1>1 DEF Labels, Holding, Working, Ended
<1>5. OneBorrower' /\ ConnectionsAreClean' /\ \A q \in Requests : Prepared(q, pc[q], conn[holds[q]])'
  BY <1>1, <1>4, GuardStep
<1>6. TypeOK'
  BY <1>1, <1>2, <1>4 DEF TypeOK, Labels, lookup
<1>7. ContextIsClaimed'
  BY <1>1, <1>3 DEF ContextIsClaimed, Holding, Working, Ended
<1>8. FailedLookupIsForgotten' /\ Queued' = Queued /\ Distinct'
  BY <1>1 DEF FailedLookupIsForgotten, lookup, Queued, Distinct
<1>9. Invited' /\ \A q \in Requests : pc'[q] = "queued" <=> pc[q] = "queued"
  BY <1>1, <1>3 DEF Invited, lookup, Holding, Working
<1> QED
  BY <1>5, <1>6, <1>7, <1>8, <1>9, PartsNext

LEMMA LeadStep ==
  ASSUME IInv, NEW r \in Requests, Lead(r)
  PROVE  IInv'
<1> USE Parts DEF Lead
<1>1. pc'[r] = "queued" /\ \A q \in Requests \ {r} : pc'[q] = pc[q]
  BY DEF TypeOK
<1>2. pc[r] \notin Holding /\ "queued" \in Labels \ Holding /\ r \notin Queued
  BY DEF Labels, Holding, Working, Ended
<1>3. OneBorrower' /\ ConnectionsAreClean' /\ \A q \in Requests : Prepared(q, pc[q], conn[holds[q]])'
  BY <1>2, GuardStep
<1>4. Queued' = Queued \cup {r} /\ Distinct' /\ queue' \in Seq(Requests)
  BY <1>2, Joined DEF TypeOK
<1>5. TypeOK'
  BY <1>2, <1>4 DEF TypeOK, Labels
<1>6. ContextIsClaimed'
  BY <1>1, ScopingAssumption DEF ContextIsClaimed, TypeOK, Holding, Working, Ended
<1>7. FailedLookupIsForgotten'
  BY ScopingAssumption DEF FailedLookupIsForgotten, TypeOK
<1>8. Invited'
  BY <1>1, ScopingAssumption DEF Invited, TypeOK
<1> QED
  BY <1>1, <1>3, <1>4, <1>5, <1>6, <1>7, <1>8, PartsNext

LEMMA FollowStep ==
  ASSUME IInv, NEW r \in Requests, Follow(r)
  PROVE  IInv'
<1> USE Parts DEF Follow
<1>1. pc'[r] = "waiting" /\ \A q \in Requests \ {r} : pc'[q] = pc[q]
  BY DEF TypeOK
<1>2. pc[r] \notin Holding /\ "waiting" \in Labels \ Holding
  BY DEF Labels, Holding, Working, Ended
<1>3. OneBorrower' /\ ConnectionsAreClean' /\ \A q \in Requests : Prepared(q, pc[q], conn[holds[q]])'
  BY <1>2, GuardStep
<1>4. TypeOK'
  BY <1>2 DEF TypeOK, Labels, lookup
<1>5. ContextIsClaimed'
  BY <1>1 DEF ContextIsClaimed, Holding, Working, Ended
<1>6. FailedLookupIsForgotten' /\ Queued' = Queued /\ Distinct'
  BY DEF FailedLookupIsForgotten, lookup, Queued, Distinct
<1>7. Invited' /\ \A q \in Requests : pc'[q] = "queued" <=> pc[q] = "queued"
  BY <1>1 DEF Invited, FailedLookupIsForgotten, TypeOK, lookup, Holding, Working
<1> QED
  BY <1>3, <1>4, <1>5, <1>6, <1>7, PartsNext

LEMMA ResolvedStep ==
  ASSUME IInv, NEW r \in Requests, Resolved(r)
  PROVE  IInv'
<1> USE Parts DEF Resolved
<1> DEFINE p == pc'[r]
<1>1. p \in {"guarded", "failed"} /\ pc' = [pc EXCEPT ![r] = p] /\ kind[r] = "platform"
  BY DEF TypeOK, ContextIsClaimed
<1> HIDE DEF p
<1>2. pc'[r] = p /\ \A q \in Requests \ {r} : pc'[q] = pc[q]
  BY <1>1 DEF TypeOK
<1>3. pc[r] \notin Holding /\ p \in Labels \ Holding
  BY <1>1 DEF Labels, Holding, Working, Ended
<1>4. OneBorrower' /\ ConnectionsAreClean' /\ \A q \in Requests : Prepared(q, pc[q], conn[holds[q]])'
  BY <1>1, <1>3, GuardStep
<1>5. TypeOK'
  BY <1>1, <1>3 DEF TypeOK, Labels, lookup
<1>6. ContextIsClaimed'
  BY <1>1, <1>2 DEF ContextIsClaimed, Holding, Working, Ended
<1>7. FailedLookupIsForgotten' /\ Queued' = Queued /\ Distinct'
  BY DEF FailedLookupIsForgotten, lookup, Queued, Distinct
<1>8. Invited' /\ \A q \in Requests : pc'[q] = "queued" <=> pc[q] = "queued"
  BY <1>1, <1>2 DEF Invited, lookup, Holding, Working
<1> QED
  BY <1>4, <1>5, <1>6, <1>7, <1>8, PartsNext

LEMMA AskStep ==
  ASSUME IInv, NEW r \in Requests, Ask(r)
  PROVE  IInv'
<1> USE Parts DEF Ask
<1>1. pc'[r] = "queued" /\ \A q \in Requests \ {r} : pc'[q] = pc[q]
  BY DEF TypeOK
<1>2. pc[r] \notin Holding /\ "queued" \in Labels \ Holding /\ r \notin Queued
  BY DEF Labels, Holding, Working, Ended
<1>3. OneBorrower' /\ ConnectionsAreClean' /\ \A q \in Requests : Prepared(q, pc[q], conn[holds[q]])'
  BY <1>2, GuardStep
<1>4. Queued' = Queued \cup {r} /\ Distinct' /\ queue' \in Seq(Requests)
  BY <1>2, Joined DEF TypeOK
<1>5. TypeOK'
  BY <1>2, <1>4 DEF TypeOK, Labels, lookup
<1>6. ContextIsClaimed'
  BY <1>1 DEF ContextIsClaimed, TypeOK, Holding, Working, Ended
<1>7. FailedLookupIsForgotten'
  BY DEF FailedLookupIsForgotten, lookup
<1>8. Invited'
  BY <1>1 DEF Invited, lookup
<1> QED
  BY <1>1, <1>3, <1>4, <1>5, <1>6, <1>7, <1>8, PartsNext

-----------------------------------------------------------------------------
\* The end of a request, or of the lookup it made, for a request that is no
\* longer in the queue and has no connection.
LEMMA SettleStep ==
  ASSUME IInv, NEW r \in Requests, NEW ok \in BOOLEAN, Settle(r, ok),
         pc[r] \in {"queued"} \cup Holding,
         UNCHANGED <<kind, claims, context, scope, shared>>
  PROVE  /\ pc'[r] \in {"waiting", "answered", "failed"}
         /\ pc' = [pc EXCEPT ![r] = pc'[r]]
         /\ outcome' \in [Requests -> {"none", "pending", "ready", "failed"}]
         /\ cached' \in Requests \cup {None}
         /\ ContextIsClaimed' /\ FailedLookupIsForgotten' /\ Invited'
<1> USE Parts DEF Settle, lookup
<1>1. pc'[r] \in {"waiting", "answered", "failed"} /\ pc' = [pc EXCEPT ![r] = pc'[r]]
  BY DEF TypeOK
<1>2. \A q \in Requests \ {r} : pc'[q] = pc[q]
  BY <1>1 DEF TypeOK
<1>3. /\ outcome' \in [Requests -> {"none", "pending", "ready", "failed"}]
      /\ cached' \in Requests \cup {None}
  BY DEF TypeOK
<1>4. pc'[r] = "waiting" => outcome[r] = "pending"
  BY DEF TypeOK
<1>5. ContextIsClaimed'
  BY <1>1, <1>2, <1>4 DEF ContextIsClaimed, Invited, Holding, Working, Ended
<1>6. FailedLookupIsForgotten'
  BY ScopingAssumption DEF FailedLookupIsForgotten, TypeOK
<1>7. \A q \in Requests : outcome'[q] = "none" => outcome[q] = "none"
  BY DEF TypeOK
<1>8. outcome'[r] # "pending" /\ \A q \in Requests \ {r} : outcome'[q] = outcome[q]
  BY DEF TypeOK
<1>9. \A q \in Requests : pc'[q] = "waiting" => shared[q] # None /\ outcome'[shared[q]] # "none"
  BY <1>1, <1>2, <1>4, <1>7, <1>8, ScopingAssumption DEF Invited, TypeOK
<1>10. Invited'
  BY <1>2, <1>8, <1>9 DEF Invited
<1> QED
  BY <1>1, <1>3, <1>5, <1>6, <1>10

LEMMA ConnectStep ==
  ASSUME IInv, NEW c \in Conns, Connect(c)
  PROVE  IInv'
<1> USE Parts DEF Connect
<1> DEFINE r == Head(queue)
           k == conn'[c]
<1>1. /\ r \in Queued /\ r \in Requests /\ Queued' = Queued \ {r} /\ Distinct'
      /\ queue' \in Seq(Requests)
  BY Served DEF TypeOK
<1>2. pc[r] = "queued" /\ pc' = [pc EXCEPT ![r] = "begin"] /\ holds' = [holds EXCEPT ![r] = c]
  BY <1>1
<1>3. (\A q \in Requests : holds[q] # c) /\ conn[c].state \in {"open", "absent"}
  BY DEF Free
<1>4. k \in Connection /\ Clean(k) /\ ~k.txn /\ k.state = "open" /\ conn' = [conn EXCEPT ![c] = k]
  <2>1. conn[c] \in Connection /\ Clean(conn[c]) /\ ~conn[c].txn
    BY <1>3 DEF TypeOK, ConnectionsAreClean, Clean
  <2> QED
    BY <1>3, <2>1, DefaultIsConnection DEF TypeOK, Clean
<1> HIDE DEF r, k
<1>5. pc'[r] = "begin" /\ \A q \in Requests \ {r} : pc'[q] = pc[q]
  BY <1>1, <1>2 DEF TypeOK
<1>6. holds'[r] = c /\ \A q \in Requests \ {r} : holds'[q] = holds[q]
  BY <1>1, <1>2 DEF TypeOK
<1>7. conn'[c] = k /\ \A d \in Conns \ {c} : conn'[d] = conn[d]
  BY <1>4 DEF TypeOK
<1>8. c # None
  BY ScopingAssumption
<1>17. holds[r] \notin Conns
  BY <1>1, <1>2, ScopingAssumption DEF OneBorrower, Holding, Working
<1>18. UNCHANGED <<kind, claims>>
  OBVIOUS
<1>9. TypeOK'
  BY <1>1, <1>2, <1>4 DEF TypeOK, lookup, Holding, Working
<1>10. OneBorrower'
  BY <1>1, <1>2, <1>3, <1>5, <1>6, <1>8 DEF OneBorrower, Holding, Working
<1>11. \A q \in Requests \ {r} : pc[q] \in Holding => holds[q] \in Conns \ {c}
  BY <1>3 DEF TypeOK, OneBorrower
<1>12. {"begin", "done", "undone"} \subseteq Holding /\ Working \subseteq Holding
  BY DEF Holding, Working
<1>13. ConnectionsAreClean'
  <2>1. ASSUME NEW d \in Conns
        PROVE  /\ conn'[d].sess = Default
               /\ ~conn'[d].txn => conn'[d].local = Default
               /\ conn'[d].txn => conn'[d].state = "open"
               /\ (\A q \in Requests : holds'[q] # d) =>
                    conn'[d].state # "broken" /\ ~conn'[d].txn
    <3>1. CASE d = c
      BY <1>4, <1>7, <3>1 DEF Clean
    <3>2. CASE d # c
      <4>1. (\A q \in Requests : holds'[q] # d) => \A q \in Requests : holds[q] # d
        BY <1>6, <1>17
      <4> QED
        BY <1>7, <3>2, <4>1 DEF ConnectionsAreClean
    <3> QED
      BY <3>1, <3>2
  <2>2. ASSUME NEW q \in Requests, pc'[q] \in {"begin", "done", "undone"}
        PROVE  ~conn'[holds'[q]].txn
    BY <1>4, <1>5, <1>6, <1>7, <1>11, <1>12, <2>2 DEF ConnectionsAreClean
  <2> QED
    BY <2>1, <2>2 DEF ConnectionsAreClean
<1>14. ASSUME NEW q \in Requests
       PROVE  Prepared(q, pc[q], conn[holds[q]])'
  <2>1. CASE q = r
    BY <1>5, <2>1 DEF Prepared, Working
  <2>2. CASE q # r
    <3> HIDE DEF Connect
    <3>1. Prepared(q, pc[q], conn[holds[q]])
      OBVIOUS
    <3>2. pc'[q] = pc[q] /\ (pc[q] \in Holding => conn'[holds'[q]] = conn[holds[q]])
      BY <1>5, <1>6, <1>7, <1>11, <2>2
    <3> QED
      BY <1>18, <1>12, <3>1, <3>2 DEF Prepared
  <2> QED
    BY <2>1, <2>2
<1>15. ContextIsClaimed'
  BY <1>1, <1>2, <1>5 DEF ContextIsClaimed, Holding, Working, Ended
<1>16. FailedLookupIsForgotten' /\ Invited'
  BY <1>1, <1>2, <1>5 DEF FailedLookupIsForgotten, Invited, lookup, Holding, Working
<1> QED
  BY <1>1, <1>5, <1>9, <1>10, <1>13, <1>14, <1>15, <1>16, PartsNext

LEMMA ConnectFailsStep ==
  ASSUME IInv, ConnectFails
  PROVE  IInv'
<1> USE Parts DEF ConnectFails
<1> DEFINE r == Head(queue)
           p == pc'[r]
<1>1. /\ r \in Queued /\ r \in Requests /\ Queued' = Queued \ {r} /\ Distinct'
      /\ queue' \in Seq(Requests)
  BY Served DEF TypeOK
<1>2. pc[r] = "queued" /\ Settle(r, FALSE)
  BY <1>1
<1> HIDE DEF r
<1>3. /\ p \in {"waiting", "answered", "failed"} /\ pc' = [pc EXCEPT ![r] = p]
      /\ outcome' \in [Requests -> {"none", "pending", "ready", "failed"}]
      /\ cached' \in Requests \cup {None}
      /\ ContextIsClaimed' /\ FailedLookupIsForgotten' /\ Invited'
  BY <1>1, <1>2, SettleStep
<1> HIDE DEF p
<1>4. pc[r] \notin Holding /\ p \in Labels \ Holding
  BY <1>2, <1>3 DEF Labels, Holding, Working, Ended
<1>5. OneBorrower' /\ ConnectionsAreClean' /\ \A q \in Requests : Prepared(q, pc[q], conn[holds[q]])'
  BY <1>1, <1>3, <1>4, GuardStep
<1>6. TypeOK'
  BY <1>1, <1>3, <1>4 DEF TypeOK, Labels
<1>7. \A q \in Requests : pc'[q] = "queued" <=> q \in Queued'
  BY <1>1, <1>3 DEF TypeOK
<1> QED
  BY <1>1, <1>3, <1>5, <1>6, <1>7, PartsNext

\* A connection is replaced by one outside a transaction; whoever has it keeps
\* it.
LEMMA BreakStep ==
  ASSUME IInv, NEW c \in Conns, NEW k \in Connection,
         conn' = [conn EXCEPT ![c] = k],
         UNCHANGED <<request, lookup, queue>>,
         Clean(k), ~k.txn, k.state # "open",
         k.state = "broken" => \E r \in Requests : holds[r] = c
  PROVE  IInv'
<1> USE Parts DEF request, lookup
<1>1. conn'[c] = k /\ \A d \in Conns \ {c} : conn'[d] = conn[d]
  BY DEF TypeOK
<1>2. TypeOK'
  BY DEF TypeOK
<1>3. OneBorrower' /\ ContextIsClaimed' /\ FailedLookupIsForgotten' /\ Invited'
  BY DEF OneBorrower, ContextIsClaimed, FailedLookupIsForgotten, Invited
<1>4. \A r \in Requests : pc[r] \in Holding => holds[r] \in Conns
  BY DEF TypeOK, OneBorrower
<1>5. {"begin", "done", "undone"} \subseteq Holding /\ Working \subseteq Holding
  BY DEF Holding, Working
<1>6. ConnectionsAreClean'
  BY <1>1, <1>4, <1>5 DEF ConnectionsAreClean, Clean
<1>7. \A r \in Requests : Prepared(r, pc[r], conn[holds[r]])'
  BY <1>1, <1>4, <1>5 DEF Prepared
<1>8. Queued' = Queued /\ Distinct'
  BY DEF Queued, Distinct
<1> QED
  BY <1>2, <1>3, <1>6, <1>7, <1>8, PartsNext

LEMMA BreaksStep ==
  ASSUME IInv, NEW c \in Conns, IdleBreaks(c) \/ BorrowedBreaks(c)
  PROVE  IInv'
<1> DEFINE broken == [Absent EXCEPT !.state = "broken"]
<1>1. broken \in Connection /\ Clean(broken) /\ ~broken.txn /\ broken.state = "broken"
  BY DefaultIsConnection DEF Connection, Clean
<1>2. Absent \in Connection /\ Clean(Absent)
  BY DefaultIsConnection DEF Clean
<1> HIDE DEF broken
<1>3. CASE IdleBreaks(c)
  BY <1>2, <1>3, DefaultIsConnection, BreakStep DEF IdleBreaks
<1>4. CASE BorrowedBreaks(c)
  <2>1. conn' = [conn EXCEPT ![c] = broken]
    BY <1>4 DEF BorrowedBreaks, broken
  <2> QED
    BY <1>1, <1>4, <2>1, BreakStep DEF BorrowedBreaks
<1> QED
  BY <1>3, <1>4

LEMMA RestartStep ==
  ASSUME IInv, Restart
  PROVE  IInv'
<1> USE Parts DEF Restart
<1>1. \A r \in Requests : pc'[r] \in {"new"} \cup Ended /\ (pc'[r] = "new" => pc[r] = "new")
  BY DEF TypeOK, Ended
<1>2. \A r \in Requests : pc'[r] \notin Holding \cup {"queued", "waiting", "authenticated", "guarded"}
  BY <1>1 DEF Holding, Working, Ended
<1>3. TypeOK'
  BY DefaultIsConnection DEF TypeOK, Ended
<1>4. OneBorrower' /\ FailedLookupIsForgotten' /\ Invited'
  BY <1>2 DEF OneBorrower, FailedLookupIsForgotten, Invited
<1>5. ContextIsClaimed'
  BY <1>1, <1>2 DEF ContextIsClaimed, Holding, Working
<1>6. {"begin", "done", "undone"} \subseteq Holding /\ Working \subseteq Holding
  BY DEF Holding, Working
<1>7. ConnectionsAreClean'
  BY <1>2, <1>6, DefaultIsConnection DEF ConnectionsAreClean
<1>8. \A r \in Requests : Prepared(r, pc[r], conn[holds[r]])'
  BY <1>2, <1>6 DEF Prepared
<1>9. Queued' = {} /\ Distinct'
  BY DEF Queued, Distinct
<1> QED
  BY <1>2, <1>3, <1>4, <1>5, <1>7, <1>8, <1>9, PartsNext

-----------------------------------------------------------------------------
\* The statements.

\* The connection of a request that has one.
LEMMA Held ==
  ASSUME IInv, NEW r \in Requests, pc[r] \in Holding
  PROVE  /\ holds[r] \in Conns /\ conn[holds[r]] \in Connection /\ Clean(conn[holds[r]])
         /\ Prepared(r, pc[r], conn[holds[r]])
         /\ pc[r] \in {"begin", "done", "undone"} => ~conn[holds[r]].txn
         /\ scope[r] = IF kind[r] = "scoped" THEN claims[r] ELSE None
         /\ claims[r] \in Tenants \cup {None}
         /\ kind[r] = "scoped" => claims[r] # None
<1> USE Parts
<1>1. holds[r] \in Conns
  BY DEF TypeOK, OneBorrower
<1>2. pc[r] \notin {"new"} \cup Ended
  BY DEF Holding, Working, Ended
<1> QED
  BY <1>1, <1>2 DEF TypeOK, ConnectionsAreClean, ContextIsClaimed, Clean

LEMMA BeginStep ==
  ASSUME IInv, NEW r \in Requests, Begin(r)
  PROVE  IInv'
<1> DEFINE k == BeginTransaction(conn[holds[r]])
           p == IF scope[r] = None THEN "work" ELSE "role"
<1>1. pc[r] \in Holding /\ pc[r] = "begin" /\ conn[holds[r]].state = "open"
  BY DEF Begin, At, Holding, Working
<1>2. /\ holds[r] \in Conns /\ conn[holds[r]] \in Connection /\ Clean(conn[holds[r]])
      /\ scope[r] = IF kind[r] = "scoped" THEN claims[r] ELSE None
      /\ kind[r] = "scoped" => claims[r] # None
  BY <1>1, Held
<1>3. /\ k \in Connection /\ k.txn /\ k.state = "open" /\ k.sess = Default /\ k.local = Default
  BY <1>1, <1>2 DEF BeginTransaction, Connection, Clean
<1>4. conn \in [Conns -> Connection]
  BY Parts DEF TypeOK
<1>5. conn' = [conn EXCEPT ![holds[r]] = k] /\ pc' = [pc EXCEPT ![r] = p]
  BY <1>2, <1>4 DEF Begin
<1> HIDE DEF k
<1>6. Clean(k) /\ Prepared(r, p, k)
  BY <1>2, <1>3 DEF Clean, Prepared
<1>7. p \in Holding /\ p \notin {"begin", "done", "undone", "tenant"} /\ (p = "role" => scope[r] # None)
  BY DEF Holding, Working
<1> HIDE DEF p
<1> QED
  BY <1>1, <1>3, <1>5, <1>6, <1>7, StatementStep DEF Begin

LEMMA SetRoleStep ==
  ASSUME IInv, NEW r \in Requests, SetRole(r)
  PROVE  IInv'
<1> DEFINE old == conn[holds[r]]
           k == SetLocal(old, [old.local EXCEPT !.role = "app_user"])
<1>1. pc[r] \in Holding /\ pc[r] = "role" /\ old.state = "open"
  BY DEF SetRole, At, Holding, Working
<1>2. holds[r] \in Conns /\ old \in Connection /\ Clean(old) /\ Prepared(r, "role", old)
  BY <1>1, Held
<1>3. old.txn /\ old.local = Default
  BY <1>1, <1>2 DEF Prepared, Working
<1>4. [Default EXCEPT !.role = "app_user"] \in Setting
  BY DEF Default, Setting
<1>5. /\ k \in Connection /\ k.txn /\ k.state = "open" /\ k.sess = Default
      /\ k.local = [Default EXCEPT !.role = "app_user"]
  BY <1>1, <1>2, <1>3, <1>4 DEF SetLocal, Connection, Clean
<1>6. conn \in [Conns -> Connection]
  BY Parts DEF TypeOK
<1>7. conn' = [conn EXCEPT ![holds[r]] = k] /\ pc' = [pc EXCEPT ![r] = "tenant"]
  BY <1>2, <1>6 DEF SetRole
<1> HIDE DEF k, old
<1>8. Clean(k) /\ Prepared(r, "tenant", k)
  BY <1>5 DEF Clean, Prepared
<1>9. scope[r] # None
  BY <1>1, Parts DEF ContextIsClaimed
<1>10. "tenant" \in Holding
  BY DEF Holding, Working
<1> QED
  BY <1>1, <1>5, <1>7, <1>8, <1>9, <1>10, StatementStep DEF SetRole

LEMMA SetTenantStep ==
  ASSUME IInv, NEW r \in Requests, SetTenant(r)
  PROVE  IInv'
<1> DEFINE old == conn[holds[r]]
           k == SetLocal(old, [old.local EXCEPT !.tenant = scope[r]])
<1>1. pc[r] \in Holding /\ pc[r] = "tenant" /\ old.state = "open"
  BY DEF SetTenant, At, Holding, Working
<1>2. /\ holds[r] \in Conns /\ old \in Connection /\ Clean(old) /\ Prepared(r, "tenant", old)
      /\ scope[r] = IF kind[r] = "scoped" THEN claims[r] ELSE None
      /\ claims[r] \in Tenants \cup {None}
  BY <1>1, Held
<1>3. scope[r] # None
  BY <1>1, Parts DEF ContextIsClaimed
<1>4. kind[r] = "scoped" /\ scope[r] = claims[r]
  BY <1>2, <1>3
<1>5. old.txn /\ old.local = [Default EXCEPT !.role = "app_user"]
  BY <1>1, <1>2 DEF Prepared, Working
<1>6. /\ [old.local EXCEPT !.tenant = scope[r]] = [role |-> "app_user", tenant |-> claims[r]]
      /\ [role |-> "app_user", tenant |-> claims[r]] \in Setting
  <2>1. old.local = [role |-> "app_user", tenant |-> None]
    BY <1>5 DEF Default
  <2> HIDE DEF old
  <2>2. [old.local EXCEPT !.tenant = scope[r]] = [role |-> "app_user", tenant |-> scope[r]]
    BY <2>1
  <2> QED
    BY <1>2, <1>4, <2>2 DEF Setting
<1>7. /\ k \in Connection /\ k.txn /\ k.state = "open" /\ k.sess = Default
      /\ k.local = [role |-> "app_user", tenant |-> claims[r]]
  BY <1>1, <1>2, <1>5, <1>6 DEF SetLocal, Connection, Clean
<1>8. conn \in [Conns -> Connection]
  BY Parts DEF TypeOK
<1>9. conn' = [conn EXCEPT ![holds[r]] = k] /\ pc' = [pc EXCEPT ![r] = "work"]
  BY <1>2, <1>8 DEF SetTenant
<1> HIDE DEF k, old
<1>10. Clean(k) /\ Prepared(r, "work", k)
  BY <1>4, <1>7 DEF Clean, Prepared
<1>11. "work" \in Holding
  BY DEF Holding, Working
<1> QED
  BY <1>1, <1>7, <1>9, <1>10, <1>11, StatementStep DEF SetTenant

LEMMA WorkStep ==
  ASSUME IInv, NEW r \in Requests, Work(r)
  PROVE  IInv'
<1> DEFINE k == conn[holds[r]]
<1>1. pc[r] \in Holding /\ pc[r] = "work" /\ k.state = "open"
  BY DEF Work, At, Holding, Working
<1>2. k \in Connection /\ Clean(k) /\ Prepared(r, "work", k)
  BY <1>1, Held
<1>3. Prepared(r, "commit", k)
  BY <1>2 DEF Prepared, Working
<1>4. conn \in [Conns -> Connection]
  BY Parts DEF TypeOK
<1>5. conn' = [conn EXCEPT ![holds[r]] = k] /\ "commit" \in Holding
  BY <1>4 DEF Work, Holding, Working
<1> HIDE DEF k
<1> QED
  BY <1>1, <1>2, <1>3, <1>5, StatementStep DEF Work

LEMMA CommitStep ==
  ASSUME IInv, NEW r \in Requests, Commit(r)
  PROVE  IInv'
<1> DEFINE old == conn[holds[r]]
           k == EndTransaction(old)
<1>1. pc[r] \in Holding /\ pc[r] = "commit"
  BY DEF Commit, At, Holding, Working
<1>2. holds[r] \in Conns /\ old \in Connection /\ Clean(old)
  BY <1>1, Held
<1>3. k \in Connection /\ ~k.txn /\ k.sess = Default /\ k.local = Default
  BY <1>2 DEF EndTransaction, Connection, Clean
<1>4. conn \in [Conns -> Connection]
  BY Parts DEF TypeOK
<1>5. conn' = [conn EXCEPT ![holds[r]] = k] /\ pc' = [pc EXCEPT ![r] = "done"]
  BY <1>2, <1>4 DEF Commit
<1> HIDE DEF k, old
<1>6. Clean(k) /\ Prepared(r, "done", k) /\ "done" \in Holding
  BY <1>3 DEF Clean, Prepared, Working, Holding
<1> QED
  BY <1>1, <1>3, <1>5, <1>6, StatementStep DEF Commit

LEMMA ThrowStep ==
  ASSUME IInv, NEW r \in Requests, Throw(r)
  PROVE  IInv'
<1> DEFINE k == conn[holds[r]]
<1>1. pc[r] \in Holding
  BY DEF Throw, Holding
<1>2. k \in Connection /\ Clean(k)
  BY <1>1, Held
<1>3. conn \in [Conns -> Connection]
  BY Parts DEF TypeOK
<1>4. conn' = [conn EXCEPT ![holds[r]] = k]
  BY <1>3 DEF Throw
<1> HIDE DEF k
<1>5. Prepared(r, "rollback", k) /\ "rollback" \in Holding
  BY DEF Prepared, Working, Holding
<1> QED
  BY <1>1, <1>2, <1>4, <1>5, StatementStep DEF Throw

LEMMA RollbackStep ==
  ASSUME IInv, NEW r \in Requests, Rollback(r)
  PROVE  IInv'
<1> DEFINE old == conn[holds[r]]
           k == IF old.state = "open" THEN EndTransaction(old) ELSE old
<1>1. pc[r] \in Holding /\ pc[r] = "rollback"
  BY DEF Rollback, Holding
<1>2. holds[r] \in Conns /\ old \in Connection /\ Clean(old)
  BY <1>1, Held
<1>3. k \in Connection /\ ~k.txn /\ k.sess = Default /\ k.local = Default
  BY <1>2 DEF EndTransaction, Connection, Clean
<1>4. conn \in [Conns -> Connection]
  BY Parts DEF TypeOK
<1>5. conn' = [conn EXCEPT ![holds[r]] = k] /\ pc' = [pc EXCEPT ![r] = "undone"]
  BY <1>2, <1>4 DEF Rollback
<1> HIDE DEF k, old
<1>6. Clean(k) /\ Prepared(r, "undone", k) /\ "undone" \in Holding
  BY <1>3 DEF Clean, Prepared, Working, Holding
<1> QED
  BY <1>1, <1>3, <1>5, <1>6, StatementStep DEF Rollback

\* The connection goes back outside a transaction, or is gone.
LEMMA ReleaseStep ==
  ASSUME IInv, NEW r \in Requests, Release(r)
  PROVE  IInv'
<1> USE Parts DEF Release
<1> DEFINE c == holds[r]
           k == IF conn[c].state = "open" THEN conn[c] ELSE Absent
           p == pc'[r]
<1>1. pc[r] \in Holding /\ pc[r] \in {"done", "undone"} /\ (pc[r] = "done") \in BOOLEAN
  BY DEF Holding
<1>2. /\ p \in {"waiting", "answered", "failed"} /\ pc' = [pc EXCEPT ![r] = p]
      /\ outcome' \in [Requests -> {"none", "pending", "ready", "failed"}]
      /\ cached' \in Requests \cup {None}
      /\ ContextIsClaimed' /\ FailedLookupIsForgotten' /\ Invited'
  BY <1>1, SettleStep
<1>3. c \in Conns /\ conn[c] \in Connection /\ Clean(conn[c]) /\ ~conn[c].txn
  BY <1>1, Held
<1>4. k \in Connection /\ Clean(k) /\ ~k.txn /\ k.state # "broken"
  BY <1>3, DefaultIsConnection DEF Clean
<1>5. conn' = [conn EXCEPT ![c] = k]
  BY <1>3 DEF TypeOK
<1>6. holds'[r] = None /\ \A q \in Requests \ {r} : holds'[q] = holds[q]
  BY DEF TypeOK
<1>7. \A q \in Requests \ {r} : holds[q] # c
  BY <1>3, ScopingAssumption DEF OneBorrower
<1> HIDE DEF c, k, p
<1>8. pc'[r] = p /\ \A q \in Requests \ {r} : pc'[q] = pc[q]
  BY <1>2 DEF TypeOK
<1>9. p \notin Holding /\ p \in Labels
  BY <1>2 DEF Labels, Holding, Working, Ended
<1>10. conn'[c] = k /\ \A d \in Conns \ {c} : conn'[d] = conn[d]
  BY <1>3, <1>5 DEF TypeOK
<1>11. TypeOK'
  <2>1. holds' = [holds EXCEPT ![r] = None] /\ UNCHANGED <<kind, claims, context, scope, shared, queue>>
    OBVIOUS
  <2> HIDE DEF Release
  <2> QED
    BY <1>2, <1>4, <1>5, <1>9, <2>1 DEF TypeOK, Labels
<1>12. OneBorrower'
  BY <1>6, <1>8, <1>9 DEF OneBorrower
<1>13. \A q \in Requests \ {r} : pc[q] \in Holding => holds[q] \in Conns \ {c}
  BY <1>7 DEF TypeOK, OneBorrower
<1>14. {"begin", "done", "undone"} \subseteq Holding /\ Working \subseteq Holding
  BY DEF Holding, Working
<1>15. ConnectionsAreClean'
  <2>1. ASSUME NEW d \in Conns
        PROVE  /\ conn'[d].sess = Default
               /\ ~conn'[d].txn => conn'[d].local = Default
               /\ conn'[d].txn => conn'[d].state = "open"
               /\ (\A q \in Requests : holds'[q] # d) =>
                    conn'[d].state # "broken" /\ ~conn'[d].txn
    <3>1. CASE d = c
      BY <1>4, <1>10, <3>1 DEF Clean
    <3>2. CASE d # c
      <4>1. (\A q \in Requests : holds'[q] # d) => \A q \in Requests : holds[q] # d
        BY <1>6, <3>2 DEF c
      <4> QED
        BY <1>10, <3>2, <4>1 DEF ConnectionsAreClean
    <3> QED
      BY <3>1, <3>2
  <2>2. ASSUME NEW q \in Requests, pc'[q] \in {"begin", "done", "undone"}
        PROVE  ~conn'[holds'[q]].txn
    BY <1>6, <1>8, <1>9, <1>10, <1>13, <1>14, <2>2 DEF ConnectionsAreClean
  <2> QED
    BY <2>1, <2>2 DEF ConnectionsAreClean
<1>16. ASSUME NEW q \in Requests
       PROVE  Prepared(q, pc[q], conn[holds[q]])'
  <2>1. CASE q = r
    BY <1>8, <1>9, <1>14, <2>1 DEF Prepared
  <2>2. CASE q # r
    BY <1>6, <1>8, <1>10, <1>13, <1>14, <2>2 DEF Prepared
  <2> QED
    BY <2>1, <2>2
<1>17. Queued' = Queued /\ Distinct' /\ \A q \in Requests : pc'[q] = "queued" <=> pc[q] = "queued"
  BY <1>1, <1>2, <1>8 DEF Queued, Distinct
<1> QED
  BY <1>2, <1>11, <1>12, <1>15, <1>16, <1>17, PartsNext

LEMMA StutterStep ==
  ASSUME IInv, UNCHANGED vars
  PROVE  IInv'
<1> USE DEF vars, request, lookup
<1>1. TypeOK' /\ OneBorrower' /\ ConnectionsAreClean'
  BY DEF IInv, TypeOK, OneBorrower, ConnectionsAreClean
<1>2. (\A r \in Requests : SetUp(r))' /\ OwnTenantOnly'
  BY DEF IInv, SetUp, OwnTenantOnly
<1>3. ContextIsClaimed' /\ FailedLookupIsForgotten' /\ Waiters'
  BY DEF IInv, ContextIsClaimed, FailedLookupIsForgotten, Waiters
<1> QED
  BY <1>1, <1>2, <1>3 DEF IInv

LEMMA NextIInv ==
  ASSUME IInv, [Next]_vars
  PROVE  IInv'
<1>1. ASSUME NEW r \in Requests, Authenticate(r) \/ Step(r) PROVE IInv'
  BY <1>1, AuthenticateStep, LeadStep, FollowStep, ResolvedStep, AskStep, BeginStep, SetRoleStep,
     SetTenantStep, WorkStep, CommitStep, ThrowStep, RollbackStep, ReleaseStep DEF Step
<1>2. CASE Serve
  BY <1>2, ConnectFailsStep, ConnectStep DEF Serve
<1>3. ASSUME NEW c \in Conns, IdleBreaks(c) \/ BorrowedBreaks(c) PROVE IInv'
  BY <1>3, BreaksStep
<1>4. CASE Restart
  BY <1>4, RestartStep
<1>5. CASE UNCHANGED vars
  BY <1>5, StutterStep
<1> QED
  BY <1>1, <1>2, <1>3, <1>4, <1>5 DEF Next

-----------------------------------------------------------------------------
\* In every reachable state a connection has one borrower, and one that nobody
\* has is outside a transaction, as the owner and under no tenant (the finally
\* and the catch of withRequestTenantScope and withoutTenantScope).
THEOREM Invariance == Spec => []IInv
BY InitIInv, NextIInv, PTL DEF Spec

\* What a handler does for a scoped request runs as app_user under the tenant
\* of its own token, whatever happened on that connection before
\* (withRequestTenantScope).
THEOREM OwnTenant == Spec => []OwnTenantOnly
<1>1. IInv => OwnTenantOnly
  BY DEF IInv
<1> QED
  BY <1>1, Invariance, PTL

\* No failed lookup is cached, and no two are in progress
\* (resolvePlatformTenantId).
THEOREM LookupIsShared == Spec => []FailedLookupIsForgotten
<1>1. IInv => FailedLookupIsForgotten
  BY DEF IInv
<1> QED
  BY <1>1, Invariance, PTL
=============================================================================
