------------------------------ MODULE Members ------------------------------
(***************************************************************************)
(* The people of one tenant: invitations, their acceptance, the seats the  *)
(* tenant's package allows, and suspension.  The tables are "user",        *)
(* `user_invitation` and the seat columns of `tenant` and `plan`; the      *)
(* requests are packages/db/src/invitations.ts, modules.ts and             *)
(* user-administration.ts, each in one READ COMMITTED transaction.         *)
(*                                                                         *)
(* As in Sessions an action is one SQL statement.  None of the SELECTs     *)
(* here locks what it reads.  A transaction waits only for the row of one  *)
(* person, which it writes (accepting, suspending) or inserts (the unique  *)
(* index on the address).                                                  *)
(***************************************************************************)
EXTENDS Naturals, FiniteSets

CONSTANTS
  People,      \* addresses
  Founder,     \* the administrator the tenant is provisioned with
  Invitations, \* invitation tokens that can be issued (bounds a run)
  SeatLimits,  \* seat allowances an operator may set
  Conns,       \* connections of the pool
  None         \* the SQL NULL of an id column

ASSUME MembersAssumption ==
  /\ Founder \in People
  /\ Invitations # {} /\ None \notin People \cup Invitations
  /\ SeatLimits \subseteq Nat \ {0} /\ SeatLimits # {}
  /\ IsFiniteSet(Conns) /\ Conns # {}

VARIABLES
  user,       \* "user": address -> status, and how often a password was set
  invitation, \* user_invitation: id -> the address it was sent to
  accepted,   \* ids whose accepted_at is set
  expired,    \* ids past their expires_at
  seatLimit,  \* coalesce(tenant.seat_limit, plan.user_limit)
  peak,       \* history: the highest seatLimit so far
  tx          \* the transaction open on each connection

links == <<invitation, accepted, expired>>
seats == <<seatLimit, peak>>
vars  == <<user, links, seats, tx>>

Status == {"invited", "active", "disabled"}

Transaction ==
  [pc  : {"idle", "count", "insert", "issue", "hash", "mark", "status"},
   who : People \cup {None},
   inv : Invitations \cup {None},     \* the invitation being accepted
   add : BOOLEAN,                     \* inviting somebody who has no row yet
   next: {"active", "disabled"}]      \* the status an administrator asked for

TypeOK ==
  /\ user \in [DOMAIN user -> [status : Status, passwords : Nat]]
  /\ DOMAIN user \subseteq People
  /\ invitation \in [DOMAIN invitation -> People]
  /\ DOMAIN invitation \subseteq Invitations
  /\ accepted \subseteq DOMAIN invitation /\ expired \subseteq DOMAIN invitation
  /\ seatLimit \in Nat /\ peak \in Nat
  /\ tx \in [Conns -> Transaction]

-----------------------------------------------------------------------------
Idle == [pc |-> "idle", who |-> None, inv |-> None, add |-> FALSE, next |-> "active"]

Begin(c, t) ==
  /\ tx[c].pc = "idle"
  /\ tx' = [tx EXCEPT ![c] = t]

End(c) == tx' = [tx EXCEPT ![c] = Idle]

Goto(c, pc) == tx' = [tx EXCEPT ![c].pc = pc]

\* Transactions that have written, or will insert, a row of "user".
Writing(d) == tx[d].pc = "mark" \/ (tx[d].pc = "issue" /\ tx[d].add)

\* Nobody else holds the row, or the unique index entry, of p.
Free(c, p) == \A d \in Conns \ {c} : ~(Writing(d) /\ tx[d].who = p)

Insert(f, id, columns) ==
  [x \in DOMAIN f \cup {id} |-> IF x = id THEN columns ELSE f[x]]

\* provisionTenant: the tenant starts with an invited administrator.
Init ==
  /\ user = [p \in {Founder} |-> [status |-> "invited", passwords |-> 0]]
  /\ \E i \in Invitations : invitation = [x \in {i} |-> Founder]
  /\ accepted = {} /\ expired = {}
  /\ seatLimit \in SeatLimits /\ peak = seatLimit
  /\ tx = [c \in Conns |-> Idle]

-----------------------------------------------------------------------------
\* POST /users (UserService.invite): issueInvitation.

\* SELECT by address.  An active user is refused; anybody else who has a row,
\* invited or disabled, is sent a new link and takes no seat.
InviteSelect(c, p) ==
  /\ p \in DOMAIN user => user[p].status # "active"
  /\ Begin(c, [Idle EXCEPT !.pc = IF p \in DOMAIN user THEN "issue" ELSE "count",
                           !.who = p, !.add = p \notin DOMAIN user])
  /\ UNCHANGED <<user, links, seats>>

\* A mistake: the last seat is given twice.
SeatAvailableInclusive == Cardinality(DOMAIN user) <= seatLimit

\* assertSeatAvailable: the count and the allowance of one snapshot.
SeatAvailable == Cardinality(DOMAIN user) < seatLimit

InviteCount(c) ==
  /\ tx[c].pc = "count"
  /\ IF SeatAvailable THEN Goto(c, "insert") ELSE End(c)
  /\ UNCHANGED <<user, links, seats>>

\* INSERT "user": waits for a rival insert of the address, and rolls back with
\* EmailAlreadyInUseError if the rival committed.
InviteInsert(c) ==
  /\ tx[c].pc = "insert"
  /\ Free(c, tx[c].who)
  /\ IF tx[c].who \in DOMAIN user THEN End(c) ELSE Goto(c, "issue")
  /\ UNCHANGED <<user, links, seats>>

\* INSERT user_invitation, COMMIT.
InviteCommit(c) ==
  /\ tx[c].pc = "issue"
  /\ \E i \in Invitations \ DOMAIN invitation :
       invitation' = Insert(invitation, i, tx[c].who)
  /\ user' = IF tx[c].add
             THEN Insert(user, tx[c].who, [status |-> "invited", passwords |-> 0])
             ELSE user
  /\ End(c)
  /\ UNCHANGED <<accepted, expired, seats>>

-----------------------------------------------------------------------------
\* POST /auth/accept-invitation: acceptInvitation.

\* SELECT of the invitation and its user, without a lock.  The refusals write
\* nothing.  Then the password is hashed.
AcceptSelect(c, i) ==
  /\ i \in DOMAIN invitation \ (accepted \cup expired)
  /\ user[invitation[i]].status # "disabled"
  /\ Begin(c, [Idle EXCEPT !.pc = "hash", !.inv = i, !.who = invitation[i]])
  /\ UNCHANGED <<user, links, seats>>

\* UPDATE "user" waits for the row.
AcceptPassword(c) ==
  /\ tx[c].pc = "hash"
  /\ Free(c, tx[c].who)
  /\ Goto(c, "mark")
  /\ UNCHANGED <<user, links, seats>>

\* A mistake: the invitation is not marked.
AcceptUnmarked(c) ==
  /\ tx[c].pc = "mark"
  /\ user' = [user EXCEPT ![tx[c].who] =
                [status |-> "active", passwords |-> @.passwords + 1]]
  /\ End(c)
  /\ UNCHANGED <<links, seats>>

\* UPDATE user_invitation, COMMIT: both writes become visible.
AcceptCommit(c) ==
  /\ tx[c].pc = "mark"
  /\ user' = [user EXCEPT ![tx[c].who] =
                [status |-> "active", passwords |-> @.passwords + 1]]
  /\ accepted' = accepted \cup {tx[c].inv}
  /\ End(c)
  /\ UNCHANGED <<invitation, expired, seats>>

-----------------------------------------------------------------------------
\* setUserStatus: SELECT, refuse to activate who has no password, UPDATE.

\* A mistake: somebody without a password can be made active.
StatusUnchecked(c, p, s) ==
  /\ p \in DOMAIN user
  /\ user[p].status # s
  /\ Begin(c, [Idle EXCEPT !.pc = "status", !.who = p, !.next = s])
  /\ UNCHANGED <<user, links, seats>>

StatusSelect(c, p, s) ==
  /\ p \in DOMAIN user
  /\ user[p].status # s
  /\ s = "active" => user[p].passwords > 0
  /\ Begin(c, [Idle EXCEPT !.pc = "status", !.who = p, !.next = s])
  /\ UNCHANGED <<user, links, seats>>

StatusCommit(c) ==
  /\ tx[c].pc = "status"
  /\ Free(c, tx[c].who)
  /\ user' = [user EXCEPT ![tx[c].who].status = tx[c].next]
  /\ End(c)
  /\ UNCHANGED <<links, seats>>

-----------------------------------------------------------------------------
\* setTenantSeatLimit, setPlanUserLimit: any positive figure, also below the
\* number of people there are.
SetSeatLimit(n) ==
  /\ n # seatLimit
  /\ seatLimit' = n
  /\ peak' = IF n > peak THEN n ELSE peak
  /\ UNCHANGED <<user, links, tx>>

InvitationExpires(i) ==
  /\ i \in DOMAIN invitation \ expired
  /\ expired' = expired \cup {i}
  /\ UNCHANGED <<user, invitation, accepted, seats, tx>>

\* ROLLBACK at any point, also between the two UPDATEs of an acceptance.
Rollback(c) ==
  /\ tx[c].pc # "idle"
  /\ End(c)
  /\ UNCHANGED <<user, links, seats>>

Request(c) ==
  \/ \E p \in People : InviteSelect(c, p)
  \/ \E i \in Invitations : AcceptSelect(c, i)
  \/ \E p \in People, s \in {"active", "disabled"} : StatusSelect(c, p, s)

Step(c) ==
  \/ InviteCount(c) \/ InviteInsert(c) \/ InviteCommit(c)
  \/ AcceptPassword(c) \/ AcceptCommit(c)
  \/ StatusCommit(c)

Next ==
  \/ \E n \in SeatLimits : SetSeatLimit(n)
  \/ \E i \in Invitations : InvitationExpires(i)
  \/ \E c \in Conns : Request(c) \/ Step(c) \/ Rollback(c)

Spec == Init /\ [][Next]_vars

-----------------------------------------------------------------------------
\* Safety

\* The seat check is no lock, so the package can be exceeded, but only by the
\* invitations that were being counted at the same time: one seat for every
\* other connection of the pool (assertSeatAvailable).
SeatsBounded ==
  Cardinality(DOMAIN user) + 1 <= peak + Cardinality(Conns)

\* Nobody gets in without having accepted an invitation, and nobody who has
\* accepted one is left without a password, wherever a transaction failed:
\* active users have a password, and exactly those who accepted have one
\* (acceptInvitation, setUserStatus, user_active_requires_credential_check).
AccessIsEarned ==
  \A p \in DOMAIN user :
    /\ user[p].status = "active" => user[p].passwords > 0
    /\ user[p].passwords > 0 <=> \E i \in accepted : invitation[i] = p

\* The inductive strengthening.

\* Transactions that have seen a free seat and not yet taken it.
Reserving == {c \in Conns : tx[c].pc = "insert" \/ (tx[c].pc = "issue" /\ tx[c].add)}

SeatsReserved ==
  /\ IsFiniteSet(DOMAIN user)
  /\ seatLimit <= peak
  /\ Cardinality(DOMAIN user) + Cardinality(Reserving) + 1 <= peak + Cardinality(Conns)

\* What an open transaction has read is still there, and what it may write is
\* still allowed.
Sound(x) ==
  /\ x.pc # "idle" => x.who \in People
  /\ x.pc \in {"count", "insert"} => x.add
  /\ x.pc = "issue" => (x.add <=> x.who \notin DOMAIN user)
  /\ x.pc \in {"hash", "mark"} =>
       x.inv \in DOMAIN invitation /\ invitation[x.inv] = x.who
  /\ x.pc \in {"hash", "mark", "status"} => x.who \in DOMAIN user
  /\ x.pc = "status" /\ x.next = "active" => user[x.who].passwords > 0

\* One transaction at a time writes a person's row.
RowsExclusive ==
  \A c, d \in Conns : Writing(c) /\ Writing(d) /\ tx[c].who = tx[d].who => c = d

ForeignKeys == \A i \in DOMAIN invitation : invitation[i] \in DOMAIN user

IInv ==
  /\ TypeOK
  /\ \A c \in Conns : Sound(tx[c])
  /\ RowsExclusive /\ ForeignKeys
  /\ SeatsReserved
  /\ AccessIsEarned

-----------------------------------------------------------------------------
\* Whatever overlaps and fails, administrators see a directory in which people
\* come in by an invitation, get in by accepting it, and are reinstated only if
\* they once did (issueInvitation, acceptInvitation, setUserStatus).
Promised == INSTANCE Directory WITH
  status <- [p \in DOMAIN user |-> user[p].status],
  earned <- {invitation[i] : i \in accepted}

ImplementsDirectory == Promised!Spec

-----------------------------------------------------------------------------
\* What the comments say and the code does not do.

\* generateInvitationToken: "A single-use invitation token".
InvitationSingleUse ==
  \A p \in DOMAIN user :
    user[p].passwords <= Cardinality({i \in accepted : invitation[i] = p})
=============================================================================
