----------------------------- MODULE Throttling -----------------------------
(***************************************************************************)
(* What slows down guessing at a password: requests are counted per source *)
(* address in fixed windows, in Redis or, when Redis does not answer, in   *)
(* the memory of the API instance (rate-limit.service.ts), and failed      *)
(* sign-ins are counted per account, which locks for a while               *)
(* (lockout.ts, authentication.ts); a password reset clears that count and *)
(* leaves the lock (password-reset.ts).                                    *)
(*                                                                         *)
(* One account is under attack; every source may send any number of        *)
(* requests, Requests of them at a time.  A step is a command to Redis, or *)
(* a transaction's read, or its write with the commit: the one UPDATE      *)
(* locks the account's row until then.  Time is the end of a window or of  *)
(* a lock.  Counts beyond the last one that matters are not told apart.    *)
(***************************************************************************)
EXTENDS Naturals, FiniteSets

CONSTANTS
  Sources,    \* client addresses
  Instances,  \* API instances
  Redis,      \* the store they share
  Requests,   \* requests in progress at a time
  Limit,      \* AUTH_RATE_LIMIT
  Threshold   \* LOCKOUT_THRESHOLD

ASSUME ThrottlingAssumption ==
  /\ Redis \notin Instances
  /\ Limit \in Nat \ {0} /\ Threshold \in Nat /\ Threshold > Limit
  /\ IsFiniteSet(Requests) /\ Sources # {} /\ Instances # {}

Stores == Instances \cup {Redis}

VARIABLES
  counter,   \* requests counted in the open window of a source, by store
  timed,     \* the sources whose key in Redis has an expiry
  lost,      \* history: those whose key was left without one
  failed,    \* "user".failed_login_count
  locked,    \* locked_until > now()
  request,   \* the requests in progress
  admitted,  \* history: how many of those counted in the open window passed
  tries      \* history: passwords found wrong since the count was cleared, or
             \* since a lock lapsed with the count at the threshold

account == <<failed, locked, tries>>
expiry  == <<timed, lost>>
windows == <<counter, expiry, admitted>>
vars    == <<windows, account, request>>

RequestState ==
  [pc    : {"idle", "expire", "decide", "admitted", "verify"},
   src   : Sources,
   at    : Instances,
   count : 0..Limit + 1,   \* what INCR answered
   fresh : BOOLEAN]        \* the window it was counted in is still open

TypeOK ==
  /\ counter \in [Stores -> [Sources -> 0..Limit + 1]]
  /\ timed \subseteq Sources /\ lost \subseteq Sources
  /\ failed \in 0..Threshold /\ locked \in BOOLEAN
  /\ request \in [Requests -> RequestState]
  /\ admitted \in [Stores -> [Sources -> Nat]]
  /\ tries \in Nat

Idle == [pc |-> "idle", src |-> CHOOSE s \in Sources : TRUE,
         at |-> CHOOSE i \in Instances : TRUE, count |-> 0, fresh |-> FALSE]

Init ==
  /\ counter = [k \in Stores |-> [s \in Sources |-> 0]]
  /\ timed = {} /\ lost = {}
  /\ failed = 0 /\ locked = FALSE
  /\ request = [r \in Requests |-> Idle]
  /\ admitted = [k \in Stores |-> [s \in Sources |-> 0]]
  /\ tries = 0

-----------------------------------------------------------------------------
\* RateLimitService

Counted(k, s) == IF counter[k][s] > Limit THEN counter[k][s] ELSE counter[k][s] + 1

\* A mistake: who is over the limit is let through while Redis is down.
ConsumeOpen(r, s, i) ==
  /\ counter' = [counter EXCEPT ![i][s] = Counted(i, s)]
  /\ admitted' = [admitted EXCEPT ![i][s] = @ + 1]
  /\ request' = [request EXCEPT ![r] =
       [pc |-> "admitted", src |-> s, at |-> i, count |-> 0, fresh |-> FALSE]]

\* consumeLocally, in one synchronous step, and the guard's decision on it.
ConsumeLocally(r, s, i) ==
  /\ counter' = [counter EXCEPT ![i][s] = Counted(i, s)]
  /\ \/ /\ counter[i][s] < Limit
        /\ admitted' = [admitted EXCEPT ![i][s] = @ + 1]
        /\ request' = [request EXCEPT ![r] =
             [pc |-> "admitted", src |-> s, at |-> i, count |-> 0, fresh |-> FALSE]]
     \/ /\ counter[i][s] >= Limit
        /\ request' = [request EXCEPT ![r] = Idle]
        /\ UNCHANGED admitted

\* A mistake: the expiry is set by the request that reaches the limit.
IncrLate(r, s, i) ==
  /\ request[r].pc = "idle"
  /\ counter' = [counter EXCEPT ![Redis][s] = Counted(Redis, s)]
  /\ request' = [request EXCEPT ![r] =
       [pc |-> IF Counted(Redis, s) = Limit /\ Limit > 1 THEN "expire" ELSE "decide",
        src |-> s, at |-> i, count |-> Counted(Redis, s), fresh |-> TRUE]]
  /\ UNCHANGED <<expiry, admitted, account>>

\* INCR: the first request of a window goes on to set the key's expiry.
Incr(r, s, i) ==
  /\ request[r].pc = "idle"
  /\ counter' = [counter EXCEPT ![Redis][s] = Counted(Redis, s)]
  /\ request' = [request EXCEPT ![r] =
       [pc |-> IF counter[Redis][s] = 0 THEN "expire" ELSE "decide",
        src |-> s, at |-> i, count |-> Counted(Redis, s), fresh |-> TRUE]]
  /\ UNCHANGED <<expiry, admitted, account>>

\* There is no client, or INCR failed on the way there.
IncrFails(r, s, i) ==
  /\ request[r].pc = "idle"
  /\ ConsumeLocally(r, s, i)
  /\ UNCHANGED <<expiry, account>>

\* INCR was executed and its answer lost.
IncrUnanswered(r, s, i) ==
  /\ request[r].pc = "idle"
  /\ \/ /\ counter[i][s] < Limit
        /\ admitted' = [admitted EXCEPT ![i][s] = @ + 1]
        /\ request' = [request EXCEPT ![r] =
             [pc |-> "admitted", src |-> s, at |-> i, count |-> 0, fresh |-> FALSE]]
     \/ /\ counter[i][s] >= Limit
        /\ UNCHANGED <<admitted, request>>
  /\ counter' = [counter EXCEPT ![Redis][s] = Counted(Redis, s), ![i][s] = Counted(i, s)]
  /\ lost' = IF counter[Redis][s] = 0 THEN lost \cup {s} ELSE lost
  /\ UNCHANGED <<timed, account>>

\* PEXPIRE
Expire(r) ==
  /\ request[r].pc = "expire"
  /\ timed' = timed \cup {request[r].src}
  /\ request' = [request EXCEPT ![r].pc = "decide"]
  /\ UNCHANGED <<counter, lost, admitted, account>>

\* PEXPIRE failed, executed or not: the request is counted once more, here.
ExpireFails(r) ==
  /\ request[r].pc = "expire"
  /\ \/ timed' = timed \cup {request[r].src} /\ UNCHANGED lost
     \/ lost' = lost \cup {request[r].src} /\ UNCHANGED timed
  /\ ConsumeLocally(r, request[r].src, request[r].at)
  /\ UNCHANGED account

\* PTTL, and the guard's decision on the count.
Decide(r) ==
  LET x == request[r] IN
  /\ x.pc = "decide"
  /\ \/ /\ x.count <= Limit
        /\ request' = [request EXCEPT ![r].pc = "admitted"]
        /\ admitted' = IF x.fresh THEN [admitted EXCEPT ![Redis][x.src] = @ + 1] ELSE admitted
     \/ /\ x.count > Limit
        /\ request' = [request EXCEPT ![r] = Idle]
        /\ UNCHANGED admitted
  /\ UNCHANGED <<counter, expiry, account>>

\* PTTL failed.
DecideFails(r) ==
  /\ request[r].pc = "decide"
  /\ ConsumeLocally(r, request[r].src, request[r].at)
  /\ UNCHANGED <<expiry, account>>

\* The key in Redis expires.
WindowEnds(s) ==
  /\ s \in timed
  /\ counter' = [counter EXCEPT ![Redis][s] = 0]
  /\ admitted' = [admitted EXCEPT ![Redis][s] = 0]
  /\ timed' = timed \ {s}
  /\ request' = [r \in Requests |->
       IF request[r].src = s THEN [request[r] EXCEPT !.fresh = FALSE] ELSE request[r]]
  /\ UNCHANGED <<lost, account>>

\* An entry of the map is out of date, or swept.
LocalWindowEnds(i, s) ==
  /\ counter[i][s] > 0
  /\ counter' = [counter EXCEPT ![i][s] = 0]
  /\ admitted' = [admitted EXCEPT ![i][s] = 0]
  /\ UNCHANGED <<expiry, account, request>>

-----------------------------------------------------------------------------
\* authenticate, registerFailedAttempt, clearFailedAttempts

\* A mistake: the lock is looked at after the password.
LookUnlocked(r) ==
  /\ request[r].pc = "admitted"
  /\ request' = [request EXCEPT ![r].pc = "verify"]
  /\ UNCHANGED <<windows, account>>

\* The SELECT: a locked account is refused without looking at the password.
Look(r) ==
  /\ request[r].pc = "admitted"
  /\ request' = [request EXCEPT ![r] = IF locked THEN Idle ELSE [@ EXCEPT !.pc = "verify"]]
  /\ UNCHANGED <<windows, account>>

\* A mistake: the count is read and written back, and an attempt between the
\* two is forgotten.
WrongPasswordLost(r) ==
  /\ request[r].pc = "verify"
  /\ \E f \in {failed, IF failed < Threshold THEN failed + 1 ELSE failed} :
       failed' = f /\ locked' = (locked \/ f >= Threshold)
  /\ tries' = tries + 1
  /\ request' = [request EXCEPT ![r] = Idle]
  /\ UNCHANGED windows

\* The UPDATE adds to the count it finds then, and locks at the threshold.
WrongPassword(r) ==
  /\ request[r].pc = "verify"
  /\ failed' = IF failed < Threshold THEN failed + 1 ELSE failed
  /\ locked' = (locked \/ failed + 1 >= Threshold)
  /\ tries' = tries + 1
  /\ request' = [request EXCEPT ![r] = Idle]
  /\ UNCHANGED windows

\* The password was right, as of the SELECT: the count and a lock set since
\* are cleared.
RightPassword(r) ==
  /\ request[r].pc = "verify"
  /\ failed' = 0 /\ locked' = FALSE /\ tries' = 0
  /\ request' = [request EXCEPT ![r] = Idle]
  /\ UNCHANGED windows

\* Another account, another route of the controller, or a transaction that
\* fails and is rolled back.
Leave(r) ==
  /\ request[r].pc \in {"admitted", "verify"}
  /\ request' = [request EXCEPT ![r] = Idle]
  /\ UNCHANGED <<windows, account>>

\* completePasswordReset: the count is cleared, and locked_until stays.
PasswordReset ==
  /\ failed' = 0 /\ tries' = 0
  /\ UNCHANGED <<windows, locked, request>>

\* locked_until passes; the count stays.
LockLapses ==
  /\ locked
  /\ locked' = FALSE
  /\ tries' = IF failed < Threshold THEN tries ELSE 0
  /\ UNCHANGED <<windows, failed, request>>

-----------------------------------------------------------------------------
\* An instance stops and starts again without its memory and its requests.
Restart(i) ==
  /\ counter' = [counter EXCEPT ![i] = [s \in Sources |-> 0]]
  /\ admitted' = [admitted EXCEPT ![i] = [s \in Sources |-> 0]]
  /\ request' = [r \in Requests |-> IF request[r].at = i THEN Idle ELSE request[r]]
  /\ lost' = lost \cup {request[r].src : r \in {q \in Requests :
                             request[q].at = i /\ request[q].pc = "expire"}}
  /\ UNCHANGED <<timed, account>>

Arrive(r, s, i) == Incr(r, s, i) \/ IncrFails(r, s, i) \/ IncrUnanswered(r, s, i)

Step(r) ==
  \/ Expire(r) \/ ExpireFails(r) \/ Decide(r) \/ DecideFails(r)
  \/ Look(r) \/ WrongPassword(r) \/ RightPassword(r) \/ Leave(r)

Next ==
  \/ \E r \in Requests :
       Step(r) \/ \E s \in Sources, i \in Instances : Arrive(r, s, i)
  \/ \E s \in Sources : WindowEnds(s) \/ \E i \in Instances : LocalWindowEnds(i, s)
  \/ \E i \in Instances : Restart(i)
  \/ LockLapses \/ PasswordReset

Spec == Init /\ [][Next]_vars

-----------------------------------------------------------------------------
\* Safety

\* Of the requests counted in one window of a source, whatever they overtake
\* between INCR and the decision, at most Limit pass; and at most Limit pass an
\* instance that counts by itself (RateLimitService.consume).
WindowLimit == \A k \in Stores, s \in Sources : admitted[k][s] <= Limit

\* However many attempts are verified in parallel, and whenever the password is
\* reset, no more than Threshold - 1 wrong passwords, and those already past the
\* check when the last of them locks the account, get an answer before the count
\* is cleared, or a lock lapses with it at the threshold (authenticate,
\* registerFailedAttempt).
GuessesBounded == tries <= Threshold - 1 + Cardinality(Requests)

\* The count that locks is complete: below the threshold every wrong password
\* since it was last cleared is in it, under a lock that a reset left behind as
\* well; and an open account that has reached it (its lock lapsed) has not been
\* guessed at since (registerFailedAttempt, completePasswordReset).
OpenMeansFew == IF failed < Threshold THEN tries = failed ELSE ~locked => tries = 0

\* The inductive strengthening of the two: what passed, with what will pass,
\* was counted; and a lock leaves only those who looked before it.
Passing(s) ==
  {r \in Requests : /\ request[r].pc \in {"expire", "decide"} /\ request[r].src = s
                    /\ request[r].fresh /\ request[r].count <= Limit}

Verifying == {r \in Requests : request[r].pc = "verify"}

PassedIsCounted ==
  /\ \A k \in Stores, s \in Sources :
       admitted[k][s] <= counter[k][s] /\ admitted[k][s] <= Limit
  /\ \A s \in Sources :
       /\ admitted[Redis][s] + Cardinality(Passing(s)) <= counter[Redis][s]
       /\ admitted[Redis][s] + Cardinality(Passing(s)) <= Limit

LockHolds ==
  locked => tries + Cardinality(Verifying) <= Threshold - 1 + Cardinality(Requests)

IInv == TypeOK /\ PassedIsCounted /\ OpenMeansFew /\ LockHolds

-----------------------------------------------------------------------------
\* Liveness: Redis expires the keys that have an expiry, a request that began
\* goes on, and a lock has an end.
FairSpec ==
  /\ Spec
  /\ \A r \in Requests : WF_vars(Step(r))
  /\ \A s \in Sources : WF_vars(WindowEnds(s))
  /\ WF_vars(LockLapses)

\* Every window of a source ends, unless its key lost the expiry between INCR
\* and PEXPIRE; nothing else, also no steady stream of requests, keeps a window
\* open (RateLimitService.consume).
WindowsEnd == \A s \in Sources : []<>(counter[Redis][s] = 0) \/ <>[](s \in lost)

\* What the code's comments say, and it does not do once an expiry is lost:
\* whoever waits is admitted again.
RefusedIsAdmittedAgain == \A s \in Sources : []<>(counter[Redis][s] < Limit)
=============================================================================
