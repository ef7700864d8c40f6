-------------------------- MODULE SignInProofs --------------------------
(***************************************************************************)
(* Proofs about the two gates of a sign-in: Throttling, for every set of   *)
(* sources, instances and requests and every limit and threshold, and Mfa, *)
(* for every set of secrets, recovery codes and requests and every length  *)
(* of the run.                                                             *)
(*                                                                         *)
(* IInv of Throttling is inductive: in a window those that passed and      *)
(* those that will pass are together no more than what was counted         *)
(* (PassedIsCounted), and when an account locks, what is still to come are *)
(* those who had looked before (LockHolds).                                *)
(***************************************************************************)
EXTENDS Throttling, Mfa, FiniteSetTheorems, TLAPS

\* x, or whatever a request becomes, will pass in the window of s.
Passes(x, s) ==
  x.pc \in {"expire", "decide"} /\ x.src = s /\ x.fresh /\ x.count <= Limit

Grid == [Stores -> [Sources -> Nat]]

LEMMA Numbers ==
  /\ Limit \in Nat \ {0} /\ Threshold \in Nat \ {0} /\ Cardinality(Requests) \in Nat
  /\ IsFiniteSet(Requests) /\ Redis \notin Instances
BY ThrottlingAssumption, FS_CardinalityType

LEMMA IdleIsState == Idle \in RequestState /\ Idle.pc = "idle"
BY ThrottlingAssumption DEF Idle, RequestState

LEMMA Typed ==
  ASSUME TypeOK
  PROVE  counter \in Grid /\ admitted \in Grid
BY ThrottlingAssumption DEF TypeOK, Grid

-----------------------------------------------------------------------------
\* How the two sets that are counted change with one request.

LEMMA PassingSize ==
  ASSUME NEW s
  PROVE  /\ IsFiniteSet(Passing(s)) /\ Cardinality(Passing(s)) \in Nat
         /\ IsFiniteSet(Passing(s)') /\ Cardinality(Passing(s)') \in Nat
<1>1. Passing(s) \in SUBSET Requests /\ Passing(s)' \in SUBSET Requests
  BY DEF Passing
<1> QED
  BY <1>1, Numbers, FS_Subset, FS_CardinalityType

LEMMA VerifyingSize ==
  /\ IsFiniteSet(Verifying) /\ Cardinality(Verifying) \in Nat
  /\ Cardinality(Verifying) <= Cardinality(Requests)
  /\ IsFiniteSet(Verifying') /\ Cardinality(Verifying') \in Nat
  /\ Cardinality(Verifying') <= Cardinality(Requests)
<1>1. Verifying \in SUBSET Requests /\ Verifying' \in SUBSET Requests
  BY DEF Verifying
<1> QED
  BY <1>1, Numbers, FS_Subset, FS_CardinalityType

LEMMA PassingChange ==
  ASSUME TypeOK, NEW s, NEW r \in Requests, NEW x, request' = [request EXCEPT ![r] = x]
  PROVE  /\ ~Passes(x, s) =>
              Cardinality(Passing(s)')
                = IF Passes(request[r], s) THEN Cardinality(Passing(s)) - 1
                                           ELSE Cardinality(Passing(s))
         /\ ~Passes(request[r], s) =>
              Cardinality(Passing(s)')
                = IF Passes(x, s) THEN Cardinality(Passing(s)) + 1
                                  ELSE Cardinality(Passing(s))
         /\ Passes(x, s) /\ Passes(request[r], s) =>
              Cardinality(Passing(s)') = Cardinality(Passing(s))
<1>1. request'[r] = x /\ \A q \in Requests \ {r} : request'[q] = request[q]
  BY DEF TypeOK
<1>2. /\ Passing(s) = {q \in Requests : Passes(request[q], s)}
      /\ Passing(s)' = {q \in Requests : Passes(request'[q], s)}
  BY DEF Passing, Passes
<1>3. ~Passes(x, s) => Passing(s)' = Passing(s) \ {r}
  BY <1>1, <1>2
<1>4. Passes(x, s) => Passing(s)' = Passing(s) \cup {r}
  BY <1>1, <1>2
<1>5. r \in Passing(s) <=> Passes(request[r], s)
  BY <1>2
<1> QED
  BY <1>3, <1>4, <1>5, PassingSize, FS_RemoveElement, FS_AddElement

LEMMA VerifyingChange ==
  ASSUME TypeOK, NEW r \in Requests, NEW x, request' = [request EXCEPT ![r] = x],
         x.pc # "verify"
  PROVE  Cardinality(Verifying')
           = IF request[r].pc = "verify" THEN Cardinality(Verifying) - 1
                                         ELSE Cardinality(Verifying)
<1>1. request'[r] = x /\ \A q \in Requests \ {r} : request'[q] = request[q]
  BY DEF TypeOK
<1>2. Verifying' = Verifying \ {r}
  BY <1>1 DEF Verifying
<1>3. r \in Verifying <=> request[r].pc = "verify"
  BY DEF Verifying
<1> QED
  BY <1>2, <1>3, VerifyingSize, FS_RemoveElement

\* The account stays as it is, and nobody looks past a lock.
LEMMA AccountKept ==
  ASSUME IInv, UNCHANGED account,
         locked => Cardinality(Verifying') <= Cardinality(Verifying)
  PROVE  OpenMeansFew' /\ LockHolds'
BY VerifyingSize, Numbers DEF IInv, TypeOK, OpenMeansFew, LockHolds, account

LEMMA AccountKeptByStep ==
  ASSUME IInv, UNCHANGED account, NEW r \in Requests, NEW x,
         request' = [request EXCEPT ![r] = x], x.pc # "verify"
  PROVE  OpenMeansFew' /\ LockHolds'
<1>1. Cardinality(Verifying') <= Cardinality(Verifying)
  <2>1. TypeOK
    BY DEF IInv
  <2>2. Cardinality(Verifying') = IF request[r].pc = "verify" THEN Cardinality(Verifying) - 1
                                                              ELSE Cardinality(Verifying)
    BY <2>1, VerifyingChange
  <2>3. Cardinality(Verifying) \in Nat
    BY VerifyingSize
  <2> QED
    BY <2>2, <2>3
<1> QED
  BY <1>1, AccountKept

\* The windows stay as they are, and no more will pass.
LEMMA WindowsKept ==
  ASSUME IInv, UNCHANGED <<counter, admitted>>,
         \A s \in Sources : Cardinality(Passing(s)') <= Cardinality(Passing(s))
  PROVE  PassedIsCounted'
<1>1. ASSUME NEW s \in Sources
      PROVE  /\ admitted[Redis][s] + Cardinality(Passing(s)') <= counter[Redis][s]
             /\ admitted[Redis][s] + Cardinality(Passing(s)') <= Limit
  <2>1. Redis \in Stores
    BY DEF Stores
  <2> QED
    BY <2>1, PassingSize, Numbers, Typed DEF IInv, PassedIsCounted, Grid
<1> QED
  BY <1>1 DEF IInv, PassedIsCounted

LEMMA WindowsKeptByStep ==
  ASSUME IInv, UNCHANGED <<counter, admitted>>, NEW r \in Requests, NEW x,
         request' = [request EXCEPT ![r] = x],
         \A s \in Sources : Passes(x, s) => Passes(request[r], s)
  PROVE  PassedIsCounted'
<1>1. ASSUME NEW s \in Sources
      PROVE  Cardinality(Passing(s)') <= Cardinality(Passing(s))
  <2>1. TypeOK
    BY DEF IInv
  <2>2. Passes(x, s) => Passes(request[r], s)
    OBVIOUS
  <2>3. /\ ~Passes(x, s) =>
              Cardinality(Passing(s)')
                = IF Passes(request[r], s) THEN Cardinality(Passing(s)) - 1
                                           ELSE Cardinality(Passing(s))
        /\ Passes(x, s) /\ Passes(request[r], s) =>
              Cardinality(Passing(s)') = Cardinality(Passing(s))
    BY <2>1, PassingChange
  <2>4. Cardinality(Passing(s)) \in Nat
    BY PassingSize
  <2> QED
    BY <2>2, <2>3, <2>4
<1> QED
  BY <1>1, WindowsKept

-----------------------------------------------------------------------------
\* Counting.

LEMMA CountedBound ==
  ASSUME TypeOK, NEW k \in Stores, NEW s \in Sources
  PROVE  /\ Counted(k, s) \in 0..Limit + 1 /\ Counted(k, s) >= counter[k][s]
         /\ counter[k][s] <= Limit => Counted(k, s) = counter[k][s] + 1
         /\ counter[k][s] \in 0..Limit + 1 /\ admitted[k][s] \in Nat
<1>1. counter[k][s] \in 0..Limit + 1 /\ admitted[k][s] \in Nat
  BY DEF TypeOK
<1> QED
  BY <1>1, Numbers DEF Counted

\* One entry of a table of counts.
LEMMA Entry ==
  ASSUME NEW S, NEW f \in [Stores -> [Sources -> S]], NEW k \in Stores, NEW s \in Sources,
         NEW v \in S, NEW g, g = [f EXCEPT ![k][s] = v]
  PROVE  /\ g \in [Stores -> [Sources -> S]] /\ g[k][s] = v
         /\ \A l \in Stores, t \in Sources : l # k \/ t # s => g[l][t] = f[l][t]
OBVIOUS

\* A request is counted in the memory of an instance, and what is counted in
\* Redis may have grown.
LEMMA LocalStep ==
  ASSUME IInv, TypeOK', NEW i \in Instances, NEW r \in Requests, NEW x,
         request' = [request EXCEPT ![r] = x], x.pc \notin {"expire", "decide"},
         \A k \in Stores \ {i}, s \in Sources :
            admitted'[k][s] = admitted[k][s] /\ counter'[k][s] >= counter[k][s],
         \A s \in Sources : admitted'[i][s] <= counter'[i][s] /\ admitted'[i][s] <= Limit
  PROVE  PassedIsCounted'
<1>1. counter \in Grid /\ admitted \in Grid /\ Redis \in Stores \ {i}
  BY Typed, Numbers DEF IInv, Stores
<1>2. counter' \in Grid /\ admitted' \in Grid
  BY Numbers DEF TypeOK, Grid
<1>3. ASSUME NEW k \in Stores, NEW s \in Sources
      PROVE  admitted'[k][s] <= counter'[k][s] /\ admitted'[k][s] <= Limit
  <2>1. CASE k = i
    BY <2>1
  <2>2. CASE k # i
    <3>1. admitted[k][s] <= counter[k][s] /\ admitted[k][s] <= Limit
      BY DEF IInv, PassedIsCounted
    <3>2. /\ admitted'[k][s] = admitted[k][s] /\ counter'[k][s] >= counter[k][s]
          /\ counter[k][s] \in Nat /\ counter'[k][s] \in Nat /\ admitted[k][s] \in Nat
      BY <1>1, <1>2, <2>2 DEF Grid
    <3> QED
      BY <3>1, <3>2
  <2> QED
    BY <2>1, <2>2
<1>4. ASSUME NEW s \in Sources
      PROVE  /\ admitted'[Redis][s] + Cardinality(Passing(s)') <= counter'[Redis][s]
             /\ admitted'[Redis][s] + Cardinality(Passing(s)') <= Limit
  <2>1. ~Passes(x, s)
    BY DEF Passes
  <2>2. Cardinality(Passing(s)') <= Cardinality(Passing(s))
    <3>1. TypeOK
      BY DEF IInv
    <3>2. Cardinality(Passing(s)')
            = IF Passes(request[r], s) THEN Cardinality(Passing(s)) - 1
                                       ELSE Cardinality(Passing(s))
      BY <2>1, <3>1, PassingChange
    <3>3. Cardinality(Passing(s)) \in Nat
      BY PassingSize
    <3> QED
      BY <3>2, <3>3
  <2>3. /\ admitted'[Redis][s] = admitted[Redis][s] /\ counter'[Redis][s] >= counter[Redis][s]
        /\ counter[Redis][s] \in Nat /\ counter'[Redis][s] \in Nat /\ admitted[Redis][s] \in Nat
    BY <1>1, <1>2 DEF Grid
  <2>4. /\ admitted[Redis][s] + Cardinality(Passing(s)) <= counter[Redis][s]
        /\ admitted[Redis][s] + Cardinality(Passing(s)) <= Limit
    BY DEF IInv, PassedIsCounted
  <2> QED
    BY <2>2, <2>3, <2>4, PassingSize, Numbers
<1> QED
  BY <1>3, <1>4 DEF PassedIsCounted

LEMMA ConsumeLocallyStep ==
  ASSUME IInv, NEW r \in Requests, NEW s \in Sources, NEW i \in Instances,
         ConsumeLocally(r, s, i), UNCHANGED account,
         timed' \subseteq Sources, lost' \subseteq Sources
  PROVE  IInv'
<1> DEFINE x == request'[r]
           passed == [pc |-> "admitted", src |-> s, at |-> i, count |-> 0, fresh |-> FALSE]
<1>1. passed \in RequestState /\ passed.pc = "admitted"
  BY Numbers DEF RequestState
<1>2. request \in [Requests -> RequestState] /\ TypeOK /\ i \in Stores
  BY DEF IInv, TypeOK, Stores
<1>3. /\ request' = [request EXCEPT ![r] = x] /\ x \in RequestState
      /\ x.pc \notin {"expire", "decide", "verify"}
  BY <1>1, <1>2, IdleIsState DEF ConsumeLocally
<1> HIDE DEF x
<1>4. /\ counter' \in [Stores -> [Sources -> 0..Limit + 1]] /\ counter'[i][s] = Counted(i, s)
      /\ \A l \in Stores, t \in Sources : l # i \/ t # s => counter'[l][t] = counter[l][t]
  <2>1. counter \in [Stores -> [Sources -> 0..Limit + 1]] /\ Counted(i, s) \in 0..Limit + 1
    BY <1>2, CountedBound DEF TypeOK
  <2>2. counter' = [counter EXCEPT ![i][s] = Counted(i, s)]
    BY DEF ConsumeLocally
  <2> QED
    BY <1>2, <2>1, <2>2, Entry
<1>5. /\ admitted' \in Grid
      /\ \A l \in Stores, t \in Sources : l # i \/ t # s => admitted'[l][t] = admitted[l][t]
      /\ admitted'[i][s] \in {admitted[i][s], admitted[i][s] + 1}
      /\ admitted'[i][s] = admitted[i][s] + 1 => counter[i][s] < Limit
  <2>1. admitted \in Grid /\ admitted[i][s] \in Nat /\ admitted[i][s] + 1 \in Nat
    BY <1>2, Typed, CountedBound
  <2>2. CASE counter[i][s] < Limit /\ admitted' = [admitted EXCEPT ![i][s] = @ + 1]
    <3>1. admitted' = [admitted EXCEPT ![i][s] = admitted[i][s] + 1]
      BY <1>2, <2>1, <2>2 DEF Grid
    <3> QED
      BY <1>2, <2>1, <2>2, <3>1, Entry DEF Grid
  <2>3. CASE UNCHANGED admitted
    BY <2>1, <2>3
  <2> QED
    BY <2>2, <2>3 DEF ConsumeLocally
<1>6. TypeOK'
  BY <1>2, <1>3, <1>4, <1>5 DEF TypeOK, Grid, account
<1>7. ASSUME NEW t \in Sources
      PROVE  admitted'[i][t] <= counter'[i][t] /\ admitted'[i][t] <= Limit
  <2>1. admitted[i][t] <= counter[i][t] /\ admitted[i][t] <= Limit
    BY <1>2 DEF IInv, PassedIsCounted
  <2>2. CASE t = s
    BY <1>2, <1>4, <1>5, <2>1, <2>2, CountedBound, Numbers
  <2>3. CASE t # s
    BY <1>2, <1>4, <1>5, <2>1, <2>3
  <2> QED
    BY <2>2, <2>3
<1>8. ASSUME NEW k \in Stores \ {i}, NEW t \in Sources
      PROVE  admitted'[k][t] = admitted[k][t] /\ counter'[k][t] >= counter[k][t]
  BY <1>2, <1>4, <1>5, CountedBound
<1>9. PassedIsCounted'
  BY <1>3, <1>6, <1>7, <1>8, LocalStep
<1>10. OpenMeansFew' /\ LockHolds'
  BY <1>3, AccountKeptByStep
<1> QED
  BY <1>6, <1>9, <1>10 DEF IInv

THEOREM InitIInv == Init => IInv
<1> SUFFICES ASSUME Init PROVE IInv
  OBVIOUS
<1> USE DEF Init
<1>1. TypeOK
  <2>1. 0 \in 0..Limit + 1 /\ 0 \in 0..Threshold
    BY Numbers
  <2> QED
    BY <2>1, IdleIsState DEF TypeOK
<1>2. ASSUME NEW s \in Sources PROVE Cardinality(Passing(s)) = 0
  <2>1. Passing(s) = {}
    BY IdleIsState DEF Passing
  <2> QED
    BY <2>1, FS_EmptySet
<1>3. PassedIsCounted
  BY <1>2, Numbers DEF PassedIsCounted, Stores
<1>4. OpenMeansFew /\ LockHolds
  BY Numbers DEF OpenMeansFew, LockHolds
<1> QED
  BY <1>1, <1>3, <1>4 DEF IInv

-----------------------------------------------------------------------------
\* Requests.

LEMMA IncrStep ==
  ASSUME IInv, NEW r \in Requests, NEW s \in Sources, NEW i \in Instances, Incr(r, s, i)
  PROVE  IInv'
<1> DEFINE n == Counted(Redis, s)
           x == [pc |-> IF counter[Redis][s] = 0 THEN "expire" ELSE "decide",
                 src |-> s, at |-> i, count |-> n, fresh |-> TRUE]
<1>1. TypeOK /\ Redis \in Stores /\ request[r].pc = "idle"
  BY DEF IInv, Stores, Incr
<1>2. n \in 0..Limit + 1 /\ n >= counter[Redis][s] /\ counter[Redis][s] \in 0..Limit + 1
      /\ (counter[Redis][s] <= Limit => n = counter[Redis][s] + 1) /\ admitted[Redis][s] \in Nat
  BY <1>1, CountedBound
<1>3. counter' = [counter EXCEPT ![Redis][s] = n] /\ request' = [request EXCEPT ![r] = x]
  BY DEF Incr
<1> HIDE DEF n
<1>4. /\ x \in RequestState /\ x.pc # "verify"
      /\ \A t \in Sources : Passes(x, t) <=> t = s /\ n <= Limit
  BY <1>2 DEF RequestState, Passes
<1> HIDE DEF x
<1>5. /\ counter' \in [Stores -> [Sources -> 0..Limit + 1]] /\ counter'[Redis][s] = n
      /\ \A l \in Stores, t \in Sources : l # Redis \/ t # s => counter'[l][t] = counter[l][t]
  <2>1. counter \in [Stores -> [Sources -> 0..Limit + 1]]
    BY <1>1 DEF TypeOK
  <2> QED
    BY <1>1, <1>2, <1>3, <2>1, Entry
<1>6. TypeOK'
  <2>1. UNCHANGED <<timed, lost, admitted, failed, locked, tries>>
    BY DEF Incr, expiry, account
  <2> QED
    BY <1>1, <1>3, <1>4, <1>5, <2>1 DEF TypeOK
<1>7. UNCHANGED admitted /\ UNCHANGED account
  BY DEF Incr
<1>8. ASSUME NEW k \in Stores, NEW t \in Sources
      PROVE  admitted'[k][t] <= counter'[k][t] /\ admitted'[k][t] <= Limit
  <2>1. admitted[k][t] <= counter[k][t] /\ admitted[k][t] <= Limit
    BY DEF IInv, PassedIsCounted
  <2>2. CASE k = Redis /\ t = s
    BY <1>2, <1>5, <1>7, <2>1, <2>2, Numbers
  <2>3. CASE k # Redis \/ t # s
    BY <1>5, <1>7, <2>1, <2>3
  <2> QED
    BY <2>2, <2>3
<1>9. ASSUME NEW t \in Sources
      PROVE  /\ admitted'[Redis][t] + Cardinality(Passing(t)') <= counter'[Redis][t]
             /\ admitted'[Redis][t] + Cardinality(Passing(t)') <= Limit
  <2>1. /\ admitted[Redis][t] + Cardinality(Passing(t)) <= counter[Redis][t]
        /\ admitted[Redis][t] + Cardinality(Passing(t)) <= Limit
    BY DEF IInv, PassedIsCounted
  <2>2. ~Passes(request[r], t)
    BY <1>1 DEF Passes
  <2>3. Cardinality(Passing(t)') = IF Passes(x, t) THEN Cardinality(Passing(t)) + 1
                                                   ELSE Cardinality(Passing(t))
    BY <1>1, <1>3, <2>2, PassingChange
  <2>4. CASE t = s
    BY <1>2, <1>4, <1>5, <1>7, <2>1, <2>3, <2>4, PassingSize, Numbers
  <2>5. CASE t # s
    BY <1>1, <1>4, <1>5, <1>7, <2>1, <2>3, <2>5
  <2> QED
    BY <2>4, <2>5
<1>10. PassedIsCounted'
  BY <1>8, <1>9 DEF PassedIsCounted
<1>11. OpenMeansFew' /\ LockHolds'
  BY <1>3, <1>4, <1>7, AccountKeptByStep
<1> QED
  BY <1>6, <1>10, <1>11 DEF IInv

LEMMA IncrUnansweredStep ==
  ASSUME IInv, NEW r \in Requests, NEW s \in Sources, NEW i \in Instances,
         IncrUnanswered(r, s, i)
  PROVE  IInv'
<1> DEFINE x == request'[r]
           passed == [pc |-> "admitted", src |-> s, at |-> i, count |-> 0, fresh |-> FALSE]
           mid == [counter EXCEPT ![Redis][s] = Counted(Redis, s)]
<1>1. passed \in RequestState /\ passed.pc = "admitted"
  BY Numbers DEF RequestState
<1>2. /\ request \in [Requests -> RequestState] /\ TypeOK /\ i \in Stores /\ Redis \in Stores
      /\ i # Redis /\ request[r].pc = "idle"
  BY Numbers DEF IInv, TypeOK, Stores, IncrUnanswered
<1>3. /\ request' = [request EXCEPT ![r] = x] /\ x \in RequestState
      /\ x.pc \notin {"expire", "decide", "verify"}
  BY <1>1, <1>2 DEF IncrUnanswered
<1> HIDE DEF x
<1>4. /\ mid \in [Stores -> [Sources -> 0..Limit + 1]] /\ mid[Redis][s] = Counted(Redis, s)
      /\ \A l \in Stores, t \in Sources : l # Redis \/ t # s => mid[l][t] = counter[l][t]
  <2>1. counter \in [Stores -> [Sources -> 0..Limit + 1]] /\ Counted(Redis, s) \in 0..Limit + 1
    BY <1>2, CountedBound DEF TypeOK
  <2> QED
    BY <1>2, <2>1, Entry
<1>5. counter' = [mid EXCEPT ![i][s] = Counted(i, s)]
  BY DEF IncrUnanswered
<1> HIDE DEF mid
<1>6. /\ counter' \in [Stores -> [Sources -> 0..Limit + 1]] /\ counter'[i][s] = Counted(i, s)
      /\ \A l \in Stores, t \in Sources : l # i \/ t # s => counter'[l][t] = mid[l][t]
  <2>1. Counted(i, s) \in 0..Limit + 1
    BY <1>2, CountedBound
  <2> QED
    BY <1>2, <1>4, <1>5, <2>1, Entry
<1>7. /\ admitted' \in Grid
      /\ \A l \in Stores, t \in Sources : l # i \/ t # s => admitted'[l][t] = admitted[l][t]
      /\ admitted'[i][s] \in {admitted[i][s], admitted[i][s] + 1}
      /\ admitted'[i][s] = admitted[i][s] + 1 => counter[i][s] < Limit
  <2>1. admitted \in Grid /\ admitted[i][s] \in Nat /\ admitted[i][s] + 1 \in Nat
    BY <1>2, Typed, CountedBound
  <2>2. CASE counter[i][s] < Limit /\ admitted' = [admitted EXCEPT ![i][s] = @ + 1]
    <3>1. admitted' = [admitted EXCEPT ![i][s] = admitted[i][s] + 1]
      BY <1>2, <2>1, <2>2 DEF Grid
    <3> QED
      BY <1>2, <2>1, <2>2, <3>1, Entry DEF Grid
  <2>3. CASE UNCHANGED admitted
    BY <2>1, <2>3
  <2> QED
    BY <2>2, <2>3 DEF IncrUnanswered
<1>8. TypeOK'
  BY <1>2, <1>3, <1>6, <1>7 DEF TypeOK, Grid, account, IncrUnanswered
<1>9. ASSUME NEW t \in Sources
      PROVE  admitted'[i][t] <= counter'[i][t] /\ admitted'[i][t] <= Limit
  <2>1. admitted[i][t] <= counter[i][t] /\ admitted[i][t] <= Limit
    BY <1>2 DEF IInv, PassedIsCounted
  <2>2. CASE t = s
    BY <1>2, <1>6, <1>7, <2>1, <2>2, CountedBound, Numbers
  <2>3. CASE t # s
    BY <1>2, <1>4, <1>6, <1>7, <2>1, <2>3
  <2> QED
    BY <2>2, <2>3
<1>10. ASSUME NEW k \in Stores \ {i}, NEW t \in Sources
       PROVE  admitted'[k][t] = admitted[k][t] /\ counter'[k][t] >= counter[k][t]
  <2>1. admitted'[k][t] = admitted[k][t] /\ counter'[k][t] = mid[k][t]
    BY <1>6, <1>7
  <2>2. counter[k][t] \in 0..Limit + 1 /\ (k = Redis /\ t = s => mid[k][t] >= counter[k][t])
    BY <1>2, <1>4, CountedBound
  <2>3. k # Redis \/ t # s => mid[k][t] = counter[k][t]
    BY <1>4
  <2> QED
    BY <2>1, <2>2, <2>3
<1>11. PassedIsCounted'
  BY <1>3, <1>8, <1>9, <1>10, LocalStep
<1>12. OpenMeansFew' /\ LockHolds'
  BY <1>3, AccountKeptByStep DEF IncrUnanswered
<1> QED
  BY <1>8, <1>11, <1>12 DEF IInv

\* PEXPIRE does not change whether the request will pass.
LEMMA ExpireStep ==
  ASSUME IInv, NEW r \in Requests, Expire(r)
  PROVE  IInv'
<1> DEFINE x == [request[r] EXCEPT !.pc = "decide"]
<1>1. request[r] \in RequestState /\ request[r].pc = "expire"
  BY DEF IInv, TypeOK, Expire
<1>2. /\ x \in RequestState /\ x.pc # "verify" /\ request' = [request EXCEPT ![r] = x]
      /\ \A s \in Sources : Passes(x, s) => Passes(request[r], s)
  BY <1>1 DEF RequestState, Passes, Expire
<1> HIDE DEF x
<1>3. TypeOK'
  BY <1>1, <1>2 DEF IInv, TypeOK, Expire, account, RequestState
<1>4. PassedIsCounted' /\ OpenMeansFew' /\ LockHolds'
  BY <1>2, WindowsKeptByStep, AccountKeptByStep DEF Expire
<1> QED
  BY <1>3, <1>4 DEF IInv

LEMMA FailsStep ==
  ASSUME IInv, NEW r \in Requests, ExpireFails(r) \/ DecideFails(r)
  PROVE  IInv'
<1>1. /\ request[r].src \in Sources /\ request[r].at \in Instances
      /\ timed \subseteq Sources /\ lost \subseteq Sources
  BY DEF IInv, TypeOK, RequestState
<1>2. /\ ConsumeLocally(r, request[r].src, request[r].at) /\ UNCHANGED account
      /\ timed' \subseteq Sources /\ lost' \subseteq Sources
  BY <1>1 DEF ExpireFails, DecideFails, expiry
<1> QED
  BY <1>1, <1>2, ConsumeLocallyStep

LEMMA DecideStep ==
  ASSUME IInv, NEW r \in Requests, Decide(r)
  PROVE  IInv'
<1> DEFINE old == request[r]
           s == old.src
           x == request'[r]
<1>1. TypeOK /\ old \in RequestState /\ old.pc = "decide" /\ s \in Sources /\ Redis \in Stores
      /\ old.count \in 0..Limit + 1 /\ old.fresh \in BOOLEAN
  BY DEF IInv, TypeOK, Decide, RequestState, Stores
<1>2. request \in [Requests -> RequestState]
  BY <1>1 DEF TypeOK
<1>3. /\ request' = [request EXCEPT ![r] = x] /\ x \in RequestState
      /\ x.pc \notin {"expire", "decide", "verify"} /\ \A t : ~Passes(x, t)
  <2>1. CASE request' = [request EXCEPT ![r].pc = "admitted"]
    BY <1>1, <1>2, <2>1 DEF RequestState, Passes
  <2>2. CASE request' = [request EXCEPT ![r] = Idle]
    BY <1>2, <2>2, IdleIsState DEF Passes
  <2> QED
    BY <2>1, <2>2 DEF Decide
<1>4. UNCHANGED <<counter, account, timed, lost>>
  BY DEF Decide, expiry
<1>5. OpenMeansFew' /\ LockHolds'
  BY <1>3, <1>4, AccountKeptByStep
<1>6. CASE Passes(old, s) /\ admitted' = [admitted EXCEPT ![Redis][s] = @ + 1]
  <2>1. admitted \in Grid /\ admitted[Redis][s] \in Nat
    BY <1>1, Typed, CountedBound
  <2>2. admitted' = [admitted EXCEPT ![Redis][s] = admitted[Redis][s] + 1]
    BY <1>1, <1>6, <2>1 DEF Grid
  <2> HIDE DEF x, old
  <2>3. /\ admitted' \in Grid /\ admitted'[Redis][s] = admitted[Redis][s] + 1
        /\ \A l \in Stores, t \in Sources : l # Redis \/ t # s => admitted'[l][t] = admitted[l][t]
    BY <1>1, <2>1, <2>2, Entry DEF Grid
  <2>4. TypeOK'
    BY <1>1, <1>3, <1>4, <2>3 DEF TypeOK, Grid, account
  <2>5. ASSUME NEW t \in Sources
        PROVE  /\ admitted'[Redis][t] + Cardinality(Passing(t)') <= counter'[Redis][t]
               /\ admitted'[Redis][t] + Cardinality(Passing(t)') <= Limit
    <3>1. /\ admitted[Redis][t] + Cardinality(Passing(t)) <= counter[Redis][t]
          /\ admitted[Redis][t] + Cardinality(Passing(t)) <= Limit
      BY DEF IInv, PassedIsCounted
    <3>2. Passes(old, t) <=> t = s
      BY <1>6 DEF Passes
    <3>3. Cardinality(Passing(t)') = IF Passes(old, t) THEN Cardinality(Passing(t)) - 1
                                                       ELSE Cardinality(Passing(t))
      BY <1>1, <1>3, PassingChange DEF old
    <3>4. CASE t = s
      BY <1>4, <2>1, <2>3, <3>1, <3>2, <3>3, <3>4, PassingSize
    <3>5. CASE t # s
      BY <1>1, <1>4, <2>3, <3>1, <3>2, <3>3, <3>5
    <3> QED
      BY <3>4, <3>5
  <2>6. ASSUME NEW k \in Stores, NEW t \in Sources
        PROVE  admitted'[k][t] <= counter'[k][t] /\ admitted'[k][t] <= Limit
    <3>1. admitted[k][t] <= counter[k][t] /\ admitted[k][t] <= Limit
      BY DEF IInv, PassedIsCounted
    <3>2. CASE k = Redis /\ t = s
      <4>1. admitted'[Redis][s] \in Nat /\ counter'[Redis][s] \in Nat
        BY <1>1, <2>3, <2>4, Typed, Numbers DEF Grid, TypeOK
      <4> QED
        BY <1>1, <2>5, <3>2, <4>1, PassingSize, Numbers
    <3>3. CASE k # Redis \/ t # s
      BY <1>4, <2>3, <3>1, <3>3
    <3> QED
      BY <3>2, <3>3
  <2>7. PassedIsCounted'
    BY <2>5, <2>6 DEF PassedIsCounted
  <2> QED
    BY <1>5, <2>4, <2>7 DEF IInv
<1>7. CASE UNCHANGED admitted
  <2>1. TypeOK'
    BY <1>1, <1>3, <1>4, <1>7 DEF TypeOK, account
  <2>2. PassedIsCounted'
    BY <1>3, <1>4, <1>7, WindowsKeptByStep
  <2> QED
    BY <1>5, <2>1, <2>2 DEF IInv
<1> QED
  BY <1>1, <1>6, <1>7 DEF Decide, Passes

\* A request that leaves the windows and the account as they are, and does not
\* look past a lock.
LEMMA QuietStep ==
  ASSUME IInv, NEW r \in Requests, UNCHANGED <<windows, account>>, NEW x \in RequestState,
         request' = [request EXCEPT ![r] = x], x.pc \notin {"expire", "decide"},
         x.pc = "verify" => ~locked
  PROVE  IInv'
<1>1. TypeOK'
  BY DEF IInv, TypeOK, windows, expiry, account
<1>2. PassedIsCounted'
  BY WindowsKeptByStep DEF windows, Passes
<1>3. locked => Cardinality(Verifying') <= Cardinality(Verifying)
  <2>1. TypeOK
    BY DEF IInv
  <2>2. x.pc # "verify" =>
          Cardinality(Verifying') = IF request[r].pc = "verify" THEN Cardinality(Verifying) - 1
                                                                ELSE Cardinality(Verifying)
    BY <2>1, VerifyingChange
  <2>3. Cardinality(Verifying) \in Nat
    BY VerifyingSize
  <2> QED
    BY <2>2, <2>3
<1>4. OpenMeansFew' /\ LockHolds'
  BY <1>3, AccountKept
<1> QED
  BY <1>1, <1>2, <1>4 DEF IInv

LEMMA LookStep ==
  ASSUME IInv, NEW r \in Requests, Look(r) \/ Leave(r)
  PROVE  IInv'
<1> DEFINE x == IF Leave(r) \/ locked THEN Idle ELSE [request[r] EXCEPT !.pc = "verify"]
<1>1. request[r] \in RequestState /\ request \in [Requests -> RequestState]
  BY DEF IInv, TypeOK
<1>2. x \in RequestState /\ x.pc \notin {"expire", "decide"} /\ (x.pc = "verify" => ~locked)
  BY <1>1, IdleIsState DEF RequestState
<1>3. request' = [request EXCEPT ![r] = x] /\ UNCHANGED <<windows, account>>
  BY <1>1 DEF Look, Leave
<1> HIDE DEF x
<1> QED
  BY <1>2, <1>3, QuietStep

\* The UPDATE: the request is one of those who had looked, and gone now.
LEMMA PasswordStep ==
  ASSUME IInv, NEW r \in Requests, WrongPassword(r) \/ RightPassword(r)
  PROVE  IInv'
<1>1. /\ TypeOK /\ request[r].pc = "verify" /\ UNCHANGED windows
      /\ request' = [request EXCEPT ![r] = Idle]
  BY DEF IInv, WrongPassword, RightPassword
<1>2. TypeOK'
  <2>1. failed' \in 0..Threshold /\ locked' \in BOOLEAN /\ tries' \in Nat
    <3>1. failed \in 0..Threshold /\ locked \in BOOLEAN /\ tries \in Nat
      BY <1>1 DEF TypeOK
    <3>2. CASE WrongPassword(r)
      <4>1. failed' \in 0..Threshold /\ tries' \in Nat
        BY <3>1, <3>2, Numbers DEF WrongPassword
      <4>2. locked' \in BOOLEAN
        BY <3>2, Zenon DEF WrongPassword
      <4> QED
        BY <4>1, <4>2
    <3>3. CASE RightPassword(r)
      <4>1. failed' \in 0..Threshold /\ tries' \in Nat
        BY <3>3, Numbers DEF RightPassword
      <4>2. locked' \in BOOLEAN
        BY <3>3, Zenon DEF RightPassword
      <4> QED
        BY <4>1, <4>2
    <3> QED
      BY <3>2, <3>3
  <2>2. request' \in [Requests -> RequestState]
    BY <1>1, IdleIsState DEF TypeOK
  <2> QED
    BY <1>1, <2>1, <2>2 DEF TypeOK, windows, expiry
<1>3. PassedIsCounted'
  BY <1>1, IdleIsState, WindowsKeptByStep DEF windows, Passes
<1>4. Cardinality(Verifying') = Cardinality(Verifying) - 1
  BY <1>1, IdleIsState, VerifyingChange
<1>5. failed \in 0..Threshold /\ tries \in Nat /\ locked \in BOOLEAN
  BY <1>1 DEF TypeOK
<1>6. CASE WrongPassword(r)
  <2>1. /\ failed' = IF failed < Threshold THEN failed + 1 ELSE failed
        /\ locked' = (locked \/ failed + 1 >= Threshold) /\ tries' = tries + 1
    BY <1>6 DEF WrongPassword
  <2>2. IF failed < Threshold THEN tries = failed ELSE ~locked => tries = 0
    BY DEF IInv, OpenMeansFew
  <2>3. Cardinality(Verifying') <= Cardinality(Requests) - 1
    BY <1>4, VerifyingSize, Numbers
  <2>4. CASE failed + 1 < Threshold
    <3>1. failed' = failed + 1 /\ failed' < Threshold /\ tries' = failed'
      BY <1>5, <2>1, <2>2, <2>4, Numbers
    <3>2. tries' + Cardinality(Verifying') <= Threshold - 1 + Cardinality(Requests)
      BY <1>5, <2>3, <3>1, VerifyingSize, Numbers
    <3> QED
      BY <1>2, <1>3, <3>1, <3>2 DEF IInv, OpenMeansFew, LockHolds
  <2>5. CASE failed + 1 >= Threshold
    <3>1. failed' = Threshold
      BY <1>5, <2>1, <2>5, Numbers
    <3>2. locked'
      BY <2>1, <2>5, Zenon
    <3>3. tries' + Cardinality(Verifying') <= Threshold - 1 + Cardinality(Requests)
      <4>1. CASE locked
        BY <1>4, <1>5, <2>1, <4>1, VerifyingSize, Numbers DEF IInv, LockHolds
      <4>2. CASE ~locked
        BY <1>5, <2>1, <2>2, <2>3, <4>2, VerifyingSize, Numbers
      <4> QED
        BY <4>1, <4>2
    <3>4. OpenMeansFew' /\ LockHolds'
      BY <3>1, <3>2, <3>3, Numbers DEF OpenMeansFew, LockHolds
    <3> QED
      BY <1>2, <1>3, <3>4 DEF IInv
  <2> QED
    BY <1>5, <2>4, <2>5, Numbers
<1>7. CASE RightPassword(r)
  <2>1. OpenMeansFew' /\ LockHolds'
    BY <1>7, Numbers DEF RightPassword, OpenMeansFew, LockHolds
  <2> QED
    BY <1>2, <1>3, <2>1 DEF IInv
<1> QED
  BY <1>6, <1>7

-----------------------------------------------------------------------------
\* Time, and instances that stop.

\* Requests are dropped, or belong to a window that is over: no new ones pass
\* or look.
LEMMA RequestsDropped ==
  ASSUME \A r \in Requests : request'[r] = request[r] \/ request'[r] = Idle
                               \/ request'[r] = [request[r] EXCEPT !.fresh = FALSE],
         TypeOK
  PROVE  /\ \A s \in Sources : Cardinality(Passing(s)') <= Cardinality(Passing(s))
         /\ Cardinality(Verifying') <= Cardinality(Verifying)
<1>1. \A r \in Requests :
        /\ request'[r].pc \in {request[r].pc, "idle"}
        /\ \A s : Passes(request'[r], s) => Passes(request[r], s)
  <2> SUFFICES ASSUME NEW r \in Requests
               PROVE  /\ request'[r].pc \in {request[r].pc, "idle"}
                      /\ \A s : Passes(request'[r], s) => Passes(request[r], s)
    OBVIOUS
  <2>1. request[r] \in RequestState
    BY DEF TypeOK
  <2>2. CASE request'[r] = Idle
    BY <2>2, IdleIsState DEF Passes
  <2>3. CASE request'[r] = [request[r] EXCEPT !.fresh = FALSE]
    BY <2>1, <2>3 DEF RequestState, Passes
  <2> QED
    BY <2>2, <2>3
<1>2. \A s \in Sources : Passing(s)' \subseteq Passing(s)
  BY <1>1 DEF Passing, Passes
<1>3. Verifying' \subseteq Verifying
  BY <1>1 DEF Verifying
<1> QED
  BY <1>2, <1>3, PassingSize, VerifyingSize, FS_Subset

LEMMA WindowEndsStep ==
  ASSUME IInv, NEW s \in Sources, WindowEnds(s)
  PROVE  IInv'
<1>1. TypeOK /\ Redis \in Stores /\ 0 \in 0..Limit + 1
  BY Numbers DEF IInv, Stores
<1>2. /\ counter \in [Stores -> [Sources -> 0..Limit + 1]] /\ admitted \in Grid
  BY <1>1, Typed DEF TypeOK
<1>3. /\ counter' = [counter EXCEPT ![Redis][s] = 0] /\ admitted' = [admitted EXCEPT ![Redis][s] = 0]
      /\ UNCHANGED account
  BY DEF WindowEnds
<1>4. /\ counter' \in [Stores -> [Sources -> 0..Limit + 1]] /\ counter'[Redis][s] = 0
      /\ \A l \in Stores, t \in Sources : l # Redis \/ t # s => counter'[l][t] = counter[l][t]
  BY <1>1, <1>2, <1>3, Entry
<1>5. /\ admitted' \in Grid /\ admitted'[Redis][s] = 0
      /\ \A l \in Stores, t \in Sources : l # Redis \/ t # s => admitted'[l][t] = admitted[l][t]
  BY <1>1, <1>2, <1>3, Entry DEF Grid
<1>6. /\ request' \in [Requests -> RequestState]
      /\ \A r \in Requests : request'[r] = IF request[r].src = s
                                THEN [request[r] EXCEPT !.fresh = FALSE] ELSE request[r]
  <2>1. ASSUME NEW r \in Requests PROVE [request[r] EXCEPT !.fresh = FALSE] \in RequestState
    BY <1>1 DEF TypeOK, RequestState
  <2>2. request' = [r \in Requests |-> IF request[r].src = s
                      THEN [request[r] EXCEPT !.fresh = FALSE] ELSE request[r]]
    BY DEF WindowEnds
  <2>3. \A r \in Requests : request[r] \in RequestState
    BY <1>1 DEF TypeOK
  <2> QED
    BY <2>1, <2>2, <2>3
<1>7. TypeOK'
  BY <1>1, <1>3, <1>4, <1>5, <1>6 DEF TypeOK, WindowEnds, Grid, account
<1>8. /\ \A t \in Sources : Cardinality(Passing(t)') <= Cardinality(Passing(t))
      /\ Cardinality(Verifying') <= Cardinality(Verifying)
  BY <1>1, <1>6, RequestsDropped
<1>9. Cardinality(Passing(s)') = 0
  <2>1. Passing(s)' = {}
    BY <1>1, <1>6 DEF Passing, TypeOK, RequestState
  <2> QED
    BY <2>1, FS_EmptySet
<1>10. ASSUME NEW k \in Stores, NEW t \in Sources
       PROVE  admitted'[k][t] <= counter'[k][t] /\ admitted'[k][t] <= Limit
  <2>1. admitted[k][t] <= counter[k][t] /\ admitted[k][t] <= Limit
    BY DEF IInv, PassedIsCounted
  <2> QED
    BY <1>4, <1>5, <2>1, Numbers
<1>11. ASSUME NEW t \in Sources
       PROVE  /\ admitted'[Redis][t] + Cardinality(Passing(t)') <= counter'[Redis][t]
              /\ admitted'[Redis][t] + Cardinality(Passing(t)') <= Limit
  <2>1. /\ admitted[Redis][t] + Cardinality(Passing(t)) <= counter[Redis][t]
        /\ admitted[Redis][t] + Cardinality(Passing(t)) <= Limit
        /\ admitted[Redis][t] \in Nat /\ counter[Redis][t] \in Nat
    BY <1>1, <1>2, Typed DEF IInv, PassedIsCounted, Grid
  <2>2. CASE t = s
    BY <1>4, <1>5, <1>9, <2>2, Numbers
  <2>3. CASE t # s
    <3>1. admitted'[Redis][t] = admitted[Redis][t] /\ counter'[Redis][t] = counter[Redis][t]
      BY <1>1, <1>4, <1>5, <2>3
    <3> QED
      BY <1>8, <2>1, <3>1, PassingSize, Numbers
  <2> QED
    BY <2>2, <2>3
<1>12. OpenMeansFew' /\ LockHolds'
  BY <1>3, <1>8, AccountKept
<1> QED
  BY <1>7, <1>10, <1>11, <1>12 DEF IInv, PassedIsCounted

\* The memory of an instance is forgotten, for one source or for all.
LEMMA Forgotten ==
  ASSUME IInv, TypeOK', NEW i \in Instances, UNCHANGED account,
         \A r \in Requests : request'[r] = request[r] \/ request'[r] = Idle,
         \A k \in Stores, s \in Sources :
            \/ counter'[k][s] = counter[k][s] /\ admitted'[k][s] = admitted[k][s]
            \/ k = i /\ counter'[k][s] = 0 /\ admitted'[k][s] = 0
  PROVE  IInv'
<1>1. TypeOK /\ Redis \in Stores /\ Redis # i
  BY Numbers DEF IInv, Stores
<1>2. /\ \A t \in Sources : Cardinality(Passing(t)') <= Cardinality(Passing(t))
      /\ Cardinality(Verifying') <= Cardinality(Verifying)
  BY <1>1, RequestsDropped
<1>3. ASSUME NEW k \in Stores, NEW t \in Sources
      PROVE  admitted'[k][t] <= counter'[k][t] /\ admitted'[k][t] <= Limit
  <2>1. admitted[k][t] <= counter[k][t] /\ admitted[k][t] <= Limit
    BY DEF IInv, PassedIsCounted
  <2> QED
    BY <2>1, Numbers
<1>4. ASSUME NEW t \in Sources
      PROVE  /\ admitted'[Redis][t] + Cardinality(Passing(t)') <= counter'[Redis][t]
             /\ admitted'[Redis][t] + Cardinality(Passing(t)') <= Limit
  <2>1. /\ admitted[Redis][t] + Cardinality(Passing(t)) <= counter[Redis][t]
        /\ admitted[Redis][t] + Cardinality(Passing(t)) <= Limit
        /\ admitted[Redis][t] \in Nat /\ counter[Redis][t] \in Nat
    BY <1>1, Typed DEF IInv, PassedIsCounted, Grid
  <2>2. admitted'[Redis][t] = admitted[Redis][t] /\ counter'[Redis][t] = counter[Redis][t]
    BY <1>1
  <2> QED
    BY <1>2, <2>1, <2>2, PassingSize, Numbers
<1>5. OpenMeansFew' /\ LockHolds'
  BY <1>2, AccountKept
<1> QED
  BY <1>3, <1>4, <1>5 DEF IInv, PassedIsCounted

LEMMA LocalWindowEndsStep ==
  ASSUME IInv, NEW i \in Instances, NEW s \in Sources, LocalWindowEnds(i, s)
  PROVE  IInv'
<1>1. TypeOK /\ i \in Stores /\ 0 \in 0..Limit + 1
  BY Numbers DEF IInv, Stores
<1>2. /\ counter \in [Stores -> [Sources -> 0..Limit + 1]] /\ admitted \in Grid
  BY <1>1, Typed DEF TypeOK
<1>3. /\ counter' = [counter EXCEPT ![i][s] = 0] /\ admitted' = [admitted EXCEPT ![i][s] = 0]
      /\ UNCHANGED <<account, request, timed, lost>>
  BY DEF LocalWindowEnds, expiry
<1>4. /\ counter' \in [Stores -> [Sources -> 0..Limit + 1]] /\ counter'[i][s] = 0
      /\ \A l \in Stores, t \in Sources : l # i \/ t # s => counter'[l][t] = counter[l][t]
  BY <1>1, <1>2, <1>3, Entry
<1>5. /\ admitted' \in Grid /\ admitted'[i][s] = 0
      /\ \A l \in Stores, t \in Sources : l # i \/ t # s => admitted'[l][t] = admitted[l][t]
  BY <1>1, <1>2, <1>3, Entry DEF Grid
<1>6. TypeOK'
  BY <1>1, <1>3, <1>4, <1>5 DEF TypeOK, Grid, account
<1>7. ASSUME NEW k \in Stores, NEW t \in Sources
      PROVE  \/ counter'[k][t] = counter[k][t] /\ admitted'[k][t] = admitted[k][t]
             \/ k = i /\ counter'[k][t] = 0 /\ admitted'[k][t] = 0
  BY <1>4, <1>5
<1> QED
  BY <1>3, <1>6, <1>7, Forgotten

LEMMA RestartStep ==
  ASSUME IInv, NEW i \in Instances, Restart(i)
  PROVE  IInv'
<1>1. TypeOK /\ i \in Stores /\ 0 \in 0..Limit + 1
  BY Numbers DEF IInv, Stores
<1>2. counter \in [Stores -> [Sources -> 0..Limit + 1]] /\ admitted \in Grid
  BY <1>1, Typed DEF TypeOK
<1>3. /\ counter' = [counter EXCEPT ![i] = [s \in Sources |-> 0]]
      /\ admitted' = [admitted EXCEPT ![i] = [s \in Sources |-> 0]]
      /\ UNCHANGED account
  BY DEF Restart
<1>4. /\ counter' \in [Stores -> [Sources -> 0..Limit + 1]] /\ admitted' \in Grid
  BY <1>1, <1>2, <1>3 DEF Grid
<1>5. ASSUME NEW k \in Stores, NEW t \in Sources
      PROVE  \/ counter'[k][t] = counter[k][t] /\ admitted'[k][t] = admitted[k][t]
             \/ k = i /\ counter'[k][t] = 0 /\ admitted'[k][t] = 0
  BY <1>2, <1>3 DEF Grid
<1>6. /\ request' \in [Requests -> RequestState]
      /\ \A r \in Requests : request'[r] = request[r] \/ request'[r] = Idle
  BY <1>1, IdleIsState DEF TypeOK, Restart
<1>7. timed' \subseteq Sources /\ lost' \subseteq Sources
  BY <1>1 DEF TypeOK, Restart, RequestState
<1>8. TypeOK'
  BY <1>1, <1>3, <1>4, <1>6, <1>7 DEF TypeOK, Grid, account
<1> QED
  BY <1>3, <1>5, <1>6, <1>8, Forgotten

LEMMA LockLapsesStep ==
  ASSUME IInv, LockLapses
  PROVE  IInv'
<1> USE DEF LockLapses
<1>1. TypeOK'
  BY DEF IInv, TypeOK, windows, expiry
<1>2. PassedIsCounted'
  BY DEF IInv, PassedIsCounted, windows, Passing
<1>3. OpenMeansFew' /\ LockHolds'
  BY Numbers DEF IInv, TypeOK, OpenMeansFew, LockHolds
<1> QED
  BY <1>1, <1>2, <1>3 DEF IInv

\* The count is cleared, and with it what it counts; a lock stays.
LEMMA PasswordResetStep ==
  ASSUME IInv, PasswordReset
  PROVE  IInv'
<1> USE DEF PasswordReset
<1>1. TypeOK'
  BY Numbers DEF IInv, TypeOK, windows, expiry
<1>2. PassedIsCounted'
  BY DEF IInv, PassedIsCounted, windows, Passing
<1>3. OpenMeansFew' /\ LockHolds'
  BY Numbers, VerifyingSize DEF OpenMeansFew, LockHolds
<1> QED
  BY <1>1, <1>2, <1>3 DEF IInv

LEMMA StutterStep ==
  ASSUME IInv, UNCHANGED vars
  PROVE  IInv'
<1> USE DEF vars, windows, expiry, account
<1>1. TypeOK' /\ OpenMeansFew'
  BY DEF IInv, TypeOK, OpenMeansFew
<1>2. PassedIsCounted'
  BY DEF IInv, PassedIsCounted, Passing
<1>3. LockHolds'
  BY DEF IInv, LockHolds, Verifying
<1> QED
  BY <1>1, <1>2, <1>3 DEF IInv

LEMMA NextIInv ==
  ASSUME IInv, [Next]_vars
  PROVE  IInv'
<1>1. ASSUME NEW r \in Requests, Step(r) PROVE IInv'
  BY <1>1, ExpireStep, FailsStep, DecideStep, LookStep, PasswordStep DEF Step
<1>2. ASSUME NEW r \in Requests, NEW s \in Sources, NEW i \in Instances, Arrive(r, s, i)
      PROVE  IInv'
  <2>1. CASE IncrFails(r, s, i)
    <3>1. UNCHANGED account /\ timed' \subseteq Sources /\ lost' \subseteq Sources
      BY <2>1 DEF IInv, TypeOK, IncrFails, expiry
    <3> QED
      BY <2>1, <3>1, ConsumeLocallyStep DEF IncrFails
  <2> QED
    BY <1>2, <2>1, IncrStep, IncrUnansweredStep DEF Arrive
<1>3. ASSUME NEW s \in Sources, WindowEnds(s) \/ \E i \in Instances : LocalWindowEnds(i, s)
      PROVE  IInv'
  BY <1>3, WindowEndsStep, LocalWindowEndsStep
<1>4. ASSUME NEW i \in Instances, Restart(i) PROVE IInv'
  BY <1>4, RestartStep
<1>5. CASE LockLapses \/ PasswordReset
  BY <1>5, LockLapsesStep, PasswordResetStep
<1>6. CASE UNCHANGED vars
  BY <1>6, StutterStep
<1> QED
  BY <1>1, <1>2, <1>3, <1>4, <1>5, <1>6 DEF Next

-----------------------------------------------------------------------------
\* In every reachable state what passed and what will pass was counted, and a
\* lock leaves only those who looked before it.
THEOREM Invariance == Spec => []IInv
BY InitIInv, NextIInv, PTL DEF Spec

\* No more than Limit requests of a source pass in a window, in whatever order
\* INCR, PEXPIRE, PTTL and the decision of several requests fall, and whichever
\* of them fail (RateLimitService.consume).
THEOREM WindowIsLimited == Spec => []WindowLimit
<1>1. IInv => WindowLimit
  BY DEF IInv, PassedIsCounted, WindowLimit
<1> QED
  BY <1>1, Invariance, PTL

\* Before the count is cleared, or a lock lapses with it at the threshold, no more
\* than Threshold - 1 wrong passwords and those of the requests in progress,
\* whenever the password is reset (registerFailedAttempt).
THEOREM FewGuesses == Spec => []GuessesBounded
<1>1. IInv => GuessesBounded
  BY VerifyingSize, Numbers DEF IInv, TypeOK, OpenMeansFew, LockHolds, GuessesBounded
<1> QED
  BY <1>1, Invariance, PTL

\* No wrong password since the count was cleared is left out of it, under a lock
\* that a password reset left behind as well (registerFailedAttempt,
\* completePasswordReset).
THEOREM CountIsComplete == Spec => []OpenMeansFew
<1>1. IInv => OpenMeansFew
  BY DEF IInv
<1> QED
  BY <1>1, Invariance, PTL
-----------------------------------------------------------------------------
(***************************************************************************)
(* The second factor.  What makes a code open one session is that a        *)
(* claimed row has one owner and is unspent until the owner commits        *)
(* (ClaimsExclusive).                                                      *)
(***************************************************************************)
Factors == Steps \cup Codes

Spendable == {f \in Factors : Unspent(f)}

\* The part of ClaimsExclusive that is about one transaction by itself.
SoundTx ==
  {x \in Transaction :
     /\ x.pc \in {"confirm", "enable"} => x.factor \in Steps /\ x.secret # None
     /\ x.pc \in {"verify", "open"} => x.factor \in Factors
     /\ x.pc = "open" => x.owns
     /\ x.owns => x.pc \in {"enable", "open"}}

LEMMA Parts ==
  MfaIInv <=>
    /\ MfaTypeOK /\ CodeOpensOneSession
    /\ \A c \in Conns : tx[c] \in SoundTx
    /\ \A c \in Conns : tx[c].owns => tx[c].factor \in Spendable /\ Free(c)
<1>1. ASSUME MfaTypeOK
      PROVE  ClaimsExclusive <=>
               /\ \A c \in Conns : tx[c] \in SoundTx
               /\ \A c \in Conns : tx[c].owns => tx[c].factor \in Spendable /\ Free(c)
  BY <1>1 DEF MfaTypeOK, ClaimsExclusive, SoundTx, Factors, Spendable
<1> QED
  BY <1>1 DEF MfaIInv

LEMMA PartsNext ==
  ASSUME MfaTypeOK', CodeOpensOneSession',
         \A c \in Conns : tx'[c] \in SoundTx,
         \A c \in Conns : tx'[c].owns => tx'[c].factor \in Spendable' /\ Free(c)'
  PROVE  MfaIInv'
<1>1. ClaimsExclusive'
  BY DEF ClaimsExclusive, SoundTx, Factors, Spendable
<1> QED
  BY <1>1 DEF MfaIInv

LEMMA NoneIsSound == NoTransaction \in SoundTx /\ ~NoTransaction.owns /\ NoTransaction.pc = "idle"
  BY DEF NoTransaction, SoundTx, Transaction

\* A step that moves one transaction on and writes no table.  What it claims,
\* nobody else holds.
LEMMA OwnStep ==
  ASSUME MfaIInv, UNCHANGED <<enrolment, factors, history>>, now' \in Steps,
         NEW c \in Conns, NEW r \in SoundTx,
         tx' = [tx EXCEPT ![c] = r],
         r.owns => /\ r.factor \in Spendable
                   /\ \A d \in Conns \ {c} : ~(tx[d].owns /\ tx[d].factor = r.factor)
  PROVE  MfaIInv'
<1> USE DEF enrolment, factors, history
<1>1. tx \in [Conns -> Transaction] /\ r \in Transaction
  BY DEF MfaIInv, MfaTypeOK, SoundTx
<1>2. tx'[c] = r /\ \A d \in Conns \ {c} : tx'[d] = tx[d]
  BY <1>1
<1>3. MfaTypeOK'
  BY <1>1 DEF MfaIInv, MfaTypeOK
<1>4. CodeOpensOneSession'
  BY DEF MfaIInv, CodeOpensOneSession
<1>5. \A d \in Conns : tx'[d] \in SoundTx
  BY <1>2, Parts
<1>6. Spendable' = Spendable
  BY DEF Spendable, Unspent
<1>7. ASSUME NEW d \in Conns, tx'[d].owns
      PROVE  tx'[d].factor \in Spendable' /\ Free(d)'
  <2>1. \A e \in Conns : tx[e].owns => tx[e].factor \in Spendable /\ Free(e)
    BY Parts
  <2>2. tx'[d].factor \in Spendable
    BY <1>2, <1>7, <2>1
  <2>3. Free(d)'
    BY <1>2, <1>7, <2>1 DEF Free
  <2> QED
    BY <1>6, <2>2, <2>3
<1> QED
  BY <1>3, <1>4, <1>5, <1>7, PartsNext

\* A COMMIT that spends, of the rows somebody holds, its own alone.
LEMMA CommitStep ==
  ASSUME MfaIInv, NEW c \in Conns, End(c),
         MfaTypeOK', CodeOpensOneSession',
         \A d \in Conns \ {c} : tx[d].owns => tx[d].factor \in Spendable'
  PROVE  MfaIInv'
<1>1. tx \in [Conns -> Transaction]
  BY DEF MfaIInv, MfaTypeOK
<1>2. tx'[c] = NoTransaction /\ \A d \in Conns \ {c} : tx'[d] = tx[d]
  BY <1>1 DEF End
<1>3. \A d \in Conns : tx'[d] \in SoundTx
  BY <1>2, NoneIsSound, Parts
<1>4. ASSUME NEW d \in Conns, tx'[d].owns
      PROVE  tx'[d].factor \in Spendable' /\ Free(d)'
  <2>1. d # c
    BY <1>2, <1>4, NoneIsSound
  <2>2. Free(d)
    BY <1>2, <1>4, <2>1, Parts
  <2>3. Free(d)'
    BY <1>2, <2>1, <2>2, NoneIsSound DEF Free
  <2> QED
    BY <1>2, <1>4, <2>1, <2>3
<1> QED
  BY <1>3, <1>4, PartsNext

\* Nothing is committed: the row is given back.
LEMMA RollbackStep ==
  ASSUME MfaIInv, NEW c \in Conns, End(c), UNCHANGED <<enrolment, factors, now, history>>
  PROVE  MfaIInv'
<1>1. now \in Steps
  BY DEF MfaIInv, MfaTypeOK
<1> QED
  BY <1>1, NoneIsSound, OwnStep DEF End

THEOREM InitMfaIInv == MfaInit => MfaIInv
<1> SUFFICES ASSUME MfaInit PROVE MfaIInv
  OBVIOUS
<1>1. MfaTypeOK
  <2>1. 1 \in Steps
    BY MfaAssumption DEF Steps
  <2>2. NoTransaction \in Transaction
    BY NoneIsSound DEF SoundTx
  <2> QED
    BY <2>1, <2>2 DEF MfaInit, MfaTypeOK
<1>2. CodeOpensOneSession
  BY DEF MfaInit, CodeOpensOneSession
<1>3. \A c \in Conns : tx[c] \in SoundTx /\ ~tx[c].owns
  BY NoneIsSound DEF MfaInit
<1> QED
  BY <1>1, <1>2, <1>3, Parts

-----------------------------------------------------------------------------
\* One lemma per action.

LEMMA BeginSelectStep ==
  ASSUME MfaIInv, NEW c \in Conns, BeginSelect(c)
  PROVE  MfaIInv'
<1> DEFINE r == [tx[c] EXCEPT !.pc = "begin"]
<1>1. tx[c] \in SoundTx /\ tx[c].pc = "idle" /\ now \in Steps
  BY Parts DEF BeginSelect, MfaTypeOK
<1>2. r \in SoundTx /\ ~r.owns
  BY <1>1 DEF SoundTx, Transaction
<1>3. tx' = [tx EXCEPT ![c] = r] /\ now' = now
  BY DEF BeginSelect
<1> HIDE DEF r
<1> QED
  BY <1>1, <1>2, <1>3, OwnStep DEF BeginSelect

LEMMA BeginUpdateStep ==
  ASSUME MfaIInv, NEW c \in Conns, NEW k \in Secrets, BeginUpdate(c, k)
  PROVE  MfaIInv'
<1> USE DEF BeginUpdate, factors, history
<1>1. MfaTypeOK'
  BY NoneIsSound DEF MfaIInv, MfaTypeOK, End, SoundTx
<1>2. CodeOpensOneSession'
  BY DEF MfaIInv, CodeOpensOneSession
<1>3. \A d \in Conns \ {c} : tx[d].owns => tx[d].factor \in Spendable'
  BY Parts DEF Spendable, Unspent
<1> QED
  BY <1>1, <1>2, <1>3, CommitStep

LEMMA ConfirmSelectStep ==
  ASSUME MfaIInv, NEW c \in Conns, NEW s \in Steps, ConfirmSelect(c, s)
  PROVE  MfaIInv'
<1> DEFINE r == [pc |-> "confirm", secret |-> secret, factor |-> s, owns |-> FALSE]
<1>1. r \in SoundTx /\ ~r.owns /\ now \in Steps
  BY DEF ConfirmSelect, MfaIInv, MfaTypeOK, SoundTx, Transaction
<1>2. tx' = [tx EXCEPT ![c] = r] /\ now' = now
  BY DEF ConfirmSelect
<1> HIDE DEF r
<1> QED
  BY <1>1, <1>2, OwnStep DEF ConfirmSelect

LEMMA ConfirmClaimStep ==
  ASSUME MfaIInv, NEW c \in Conns, ConfirmClaim(c)
  PROVE  MfaIInv'
<1> DEFINE own == tx[c].factor \in Spendable
           r == [tx[c] EXCEPT !.pc = "enable", !.owns = own]
<1>1. tx[c] \in SoundTx /\ tx[c].pc = "confirm" /\ now \in Steps /\ own \in BOOLEAN
  BY Parts DEF ConfirmClaim, MfaTypeOK
<1>2. r \in SoundTx /\ r.factor = tx[c].factor /\ (r.owns <=> own)
  <2> HIDE DEF own
  <2> QED
    BY <1>1 DEF SoundTx, Transaction
<1>3. tx' = [tx EXCEPT ![c] = r] /\ now' = now
  <2>1. Unspent(tx[c].factor) <=> own
    BY <1>1 DEF SoundTx, Spendable, Factors
  <2>2. Unspent(tx[c].factor) \in BOOLEAN
    BY DEF Unspent
  <2>3. Unspent(tx[c].factor) = own
    BY <1>1, <2>1, <2>2
  <2> QED
    BY <2>3 DEF ConfirmClaim
<1>4. \A d \in Conns \ {c} : ~(tx[d].owns /\ tx[d].factor = r.factor)
  BY <1>2 DEF ConfirmClaim, Free
<1>5. r.owns => r.factor \in Spendable
  BY <1>2
<1> HIDE DEF r
<1> QED
  BY <1>1, <1>2, <1>3, <1>4, <1>5, OwnStep DEF ConfirmClaim

\* The recovery code that is issued was absent, so nobody held it and no
\* session was opened with it; a step that is claimed now was free.
LEMMA ConfirmCommitStep ==
  ASSUME MfaIInv, NEW c \in Conns, NEW k \in Codes, ConfirmCommit(c, k)
  PROVE  MfaIInv'
<1> USE DEF ConfirmCommit
<1> DEFINE f == tx[c].factor
<1>1. /\ tx[c] \in SoundTx /\ f \in Steps /\ tx[c].secret \in Secrets
      /\ tx[c].owns \in BOOLEAN
  BY Parts DEF SoundTx, Transaction
<1>2. tx[c].owns => Unspent(f) /\ Free(c)
  BY Parts DEF Spendable
<1>3. Codes \cap Steps = {}
  BY MfaAssumption
<1>4. MfaTypeOK'
  BY <1>1, NoneIsSound DEF MfaIInv, MfaTypeOK, End, SoundTx
<1>5. CodeOpensOneSession'
  BY <1>1, <1>2, <1>3 DEF MfaIInv, MfaTypeOK, CodeOpensOneSession, Unspent
<1>6. ASSUME NEW d \in Conns \ {c}, tx[d].owns
      PROVE  tx[d].factor \in Spendable'
  <2>1. tx[d].factor \in Spendable
    BY <1>6, Parts
  <2>3. tx[c].owns => tx[d].factor # f
    BY <1>2, <1>6 DEF Free
  <2> QED
    BY <1>1, <1>3, <2>1, <2>3 DEF MfaIInv, MfaTypeOK, Spendable, Unspent, Factors
<1> QED
  BY <1>4, <1>5, <1>6, CommitStep

LEMMA VerifySelectStep ==
  ASSUME MfaIInv, NEW c \in Conns, NEW f \in Steps \cup Codes, VerifySelect(c, f)
  PROVE  MfaIInv'
<1> DEFINE r == [pc |-> "verify", secret |-> None, factor |-> f, owns |-> FALSE]
<1>1. r \in SoundTx /\ ~r.owns /\ now \in Steps
  BY DEF MfaIInv, MfaTypeOK, SoundTx, Transaction, Factors
<1>2. tx' = [tx EXCEPT ![c] = r] /\ now' = now
  BY DEF VerifySelect
<1> HIDE DEF r
<1> QED
  BY <1>1, <1>2, OwnStep DEF VerifySelect

LEMMA VerifyClaimStep ==
  ASSUME MfaIInv, NEW c \in Conns, VerifyClaim(c)
  PROVE  MfaIInv'
<1> USE DEF VerifyClaim
<1> DEFINE r == [tx[c] EXCEPT !.pc = "open", !.owns = TRUE]
<1>1. /\ tx[c] \in SoundTx /\ tx[c].pc = "verify"
      /\ now \in Steps /\ tx \in [Conns -> Transaction]
  BY Parts DEF MfaTypeOK
<1>2. CASE Unspent(tx[c].factor)
  <2>1. r \in SoundTx /\ r.factor = tx[c].factor
    BY <1>1 DEF SoundTx, Transaction
  <2>2. tx' = [tx EXCEPT ![c] = r] /\ now' = now
    BY <1>1, <1>2
  <2>3. \A d \in Conns \ {c} : ~(tx[d].owns /\ tx[d].factor = r.factor)
    BY <2>1 DEF Free
  <2>4. r.factor \in Spendable
    BY <1>1, <1>2, <2>1 DEF SoundTx, Spendable
  <2> HIDE DEF r
  <2> QED
    BY <1>1, <2>1, <2>2, <2>3, <2>4, OwnStep
<1>3. CASE ~Unspent(tx[c].factor)
  <2>1. End(c)
    BY <1>1, <1>3 DEF End
  <2> QED
    BY <2>1, RollbackStep
<1> QED
  BY <1>2, <1>3

\* The owner of a row spends it: it was unspent, so no session was opened with
\* it, and nobody else holds it.
LEMMA SpendStep ==
  ASSUME MfaIInv, NEW c \in Conns,
         tx[c].pc = "open", SpendAtGate(tx[c].factor),
         End(c), UNCHANGED <<enrolment, now, proven>>,
         \/ sessions' = [sessions EXCEPT ![tx[c].factor] = @ + 1]
         \/ sessions' = sessions
  PROVE  MfaIInv'
<1> DEFINE f == tx[c].factor
<1>1. tx[c] \in SoundTx /\ f \in Factors /\ Unspent(f) /\ Free(c)
  BY Parts DEF SoundTx, Spendable
<1>2. Codes \cap Steps = {}
  BY MfaAssumption
<1>3. MfaTypeOK'
  BY <1>1, NoneIsSound DEF MfaIInv, MfaTypeOK, End, SoundTx, SpendAtGate, Factors, enrolment
<1>4. CodeOpensOneSession'
  BY <1>1, <1>2 DEF MfaIInv, MfaTypeOK, CodeOpensOneSession, Unspent, SpendAtGate, Factors
<1>5. ASSUME NEW d \in Conns \ {c}, tx[d].owns
      PROVE  tx[d].factor \in Spendable'
  <2>1. tx[d].factor \in Spendable /\ tx[d].factor # f
    BY <1>1, <1>5, Parts DEF Free
  <2> QED
    BY <1>1, <1>2, <2>1 DEF MfaIInv, MfaTypeOK, Spendable, Unspent, SpendAtGate, Factors
<1> QED
  BY <1>3, <1>4, <1>5, CommitStep

LEMMA TickStep ==
  ASSUME MfaIInv, Tick
  PROVE  MfaIInv'
<1> USE DEF Tick, enrolment, factors, history
<1>1. MfaTypeOK'
  BY MfaAssumption DEF MfaIInv, MfaTypeOK, Steps
<1>2. CodeOpensOneSession'
  BY DEF MfaIInv, CodeOpensOneSession
<1>3. \A c \in Conns : tx'[c] \in SoundTx
  BY Parts
<1>4. \A c \in Conns : tx'[c].owns => tx'[c].factor \in Spendable' /\ Free(c)'
  BY Parts DEF Spendable, Unspent, Free
<1> QED
  BY <1>1, <1>2, <1>3, <1>4, PartsNext

LEMMA MfaStutterStep ==
  ASSUME MfaIInv, UNCHANGED mfaVars
  PROVE  MfaIInv'
BY DEF mfaVars, enrolment, factors, history, MfaIInv, MfaTypeOK,
       ClaimsExclusive, CodeOpensOneSession, Unspent, Free

LEMMA NextMfaIInv ==
  ASSUME MfaIInv, [MfaNext]_mfaVars
  PROVE  MfaIInv'
<1>1. ASSUME NEW c \in Conns, MfaStep(c) PROVE MfaIInv'
  <2>1. ASSUME NEW k \in Secrets, BeginUpdate(c, k) PROVE MfaIInv'
    BY <2>1, BeginUpdateStep
  <2>2. CASE ConfirmClaim(c)
    BY <2>2, ConfirmClaimStep
  <2>3. ASSUME NEW k \in Codes, ConfirmCommit(c, k) PROVE MfaIInv'
    BY <2>3, ConfirmCommitStep
  <2>4. CASE VerifyClaim(c)
    BY <2>4, VerifyClaimStep
  <2>5. CASE VerifyCommit(c)
    BY <2>5, SpendStep DEF VerifyCommit
  <2>6. CASE VerifyDenied(c)
    BY <2>6, SpendStep DEF VerifyDenied, history
  <2> QED
    BY <1>1, <2>1, <2>2, <2>3, <2>4, <2>5, <2>6 DEF MfaStep
<1>2. ASSUME NEW c \in Conns, Fails(c) PROVE MfaIInv'
  BY <1>2, RollbackStep DEF Fails
<1>3. ASSUME NEW c \in Conns, BeginSelect(c) PROVE MfaIInv'
  BY <1>3, BeginSelectStep
<1>4. ASSUME NEW c \in Conns, NEW s \in Steps, ConfirmSelect(c, s) PROVE MfaIInv'
  BY <1>4, ConfirmSelectStep
<1>5. ASSUME NEW c \in Conns, NEW f \in Steps \cup Codes, VerifySelect(c, f) PROVE MfaIInv'
  BY <1>5, VerifySelectStep
<1>6. CASE Tick
  BY <1>6, TickStep
<1>7. CASE UNCHANGED mfaVars
  BY <1>7, MfaStutterStep
<1> QED
  BY <1>1, <1>2, <1>3, <1>4, <1>5, <1>6, <1>7 DEF MfaNext

-----------------------------------------------------------------------------
\* In every reachable state a claimed row has one owner, and it is unspent
\* until the owner commits (the INSERT and the UPDATE of verifyMfa).
THEOREM RowsHaveOneOwner == MfaSpec => []MfaIInv
BY InitMfaIInv, NextMfaIInv, PTL DEF MfaSpec

\* Whatever the requests overtake, and whichever are rolled back, a code of the
\* authenticator or a recovery code opens at most one session, and the code
\* that confirmed the enrolment none afterwards (verifyMfa, US-025 AC3).
THEOREM OneSessionPerCode == MfaSpec => []CodeOpensOneSession
<1>1. MfaIInv => CodeOpensOneSession
  BY DEF MfaIInv
<1> QED
  BY <1>1, RowsHaveOneOwner, PTL
=============================================================================
