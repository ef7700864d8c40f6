------------------------------ MODULE Sessions ------------------------------
(***************************************************************************)
(* Sessions of the API: refresh-token families, how they are opened,       *)
(* exchanged and ended, and what ends them.  The tables are `refresh_token`,*)
(* `password_reset`, "user" and `tenant`; the requests are the handlers of *)
(* apps/api/src/auth/auth.service.ts over packages/db/src.                 *)
(*                                                                         *)
(* Every request runs in one READ COMMITTED transaction on one connection  *)
(* of the pool (packages/db/src/scoping.ts).  An action is one SQL         *)
(* statement, or a run of statements between which no other transaction    *)
(* can tell the difference.  A transaction therefore has                   *)
(*   - a snapshot per statement: a plain SELECT reads what is committed    *)
(*     when it starts, and an UPDATE chooses its rows then (targets);      *)
(*   - row locks (locks), held to the end, on the rows it selects FOR      *)
(*     UPDATE or updates; a statement waits for a row somebody else holds  *)
(*     and re-reads that row, not the others, once it gets it;             *)
(*   - writes that nobody sees before COMMIT (revoke, burn, new).          *)
(* ROLLBACK (Rollback) may come at any point: an exception, a lost         *)
(* connection, a crash of the process, the victim of a deadlock.           *)
(***************************************************************************)
EXTENDS Naturals

CONSTANTS
  Users,      \* accounts that have accepted their invitation
  MfaUsers,   \* those of them that have a second factor enabled
  Tokens,     \* refresh tokens that can be minted (bounds a run)
  Links,      \* password-reset links that can be issued (bounds a run)
  Conns,      \* connections of the pool, one transaction each
  Events,     \* what else happens: "status", "archive", "expiry", "link expiry"
  None        \* the SQL NULL of an id column

ASSUME SessionsAssumption ==
  /\ MfaUsers \subseteq Users
  /\ Events \subseteq {"status", "archive", "expiry", "link expiry"}
  /\ None \notin Tokens \cup Links \cup Users
  /\ Tokens \cap Links = {} /\ Tokens \cap Users = {} /\ Links \cap Users = {}

VARIABLES
  rt,          \* refresh_token: id -> columns written once, by its INSERT
  used,        \* ids whose used_at is set
  revoked,     \* ids whose revoked_at is set
  expired,     \* ids whose expires_at has passed
  status,      \* "user".status
  cred,        \* "user".password_hash, as the number of times it was reset
  archived,    \* tenant.deleted_at is set
  link,        \* password_reset: id -> user_id
  linkUsed,    \* ids of reset links whose used_at is set
  linkExpired, \* ids of reset links past their expiry
  redeemed,    \* history: how many passwords a link has set
  retired,     \* history: links that were there when a later password was set
  challenge,   \* MFA challenge tokens in callers' hands
  authEvent,   \* auth_event rows that record the end of a session
  tx           \* the transaction open on each connection

tokenTable == <<rt, used, revoked, expired>>
linkTable  == <<link, linkUsed, linkExpired, redeemed, retired>>
account    == <<status, cred, archived>>
vars == <<tokenTable, account, linkTable, challenge, authEvent, tx>>

Rows == Tokens \cup Links \cup Users

\* family_id is named by the token the family starts with.  signedInWith is
\* history: the password that opened the session, inherited by an exchange.
TokenRow == [owner : Users, family : Tokens, parent : Tokens \cup {None},
             signedInWith : Nat]

Challenge == [usr : Users, signedInWith : Nat]

AuthEvent ==
  [event : {"token.replayed", "session.signed_out"}, family : Tokens]
    \cup [event : {"password_reset.completed"}, usr : Users]

Transaction ==
  [pc : {"idle", "signIn", "verify", "lock", "exchange", "revoke", "revoking",
         "redeem", "password", "sweep", "sweeping", "burning", "status"},
   tok    : Tokens \cup {None},     \* the token presented
   new    : Tokens \cup {None},     \* the token its INSERT will mint
   usr    : Users \cup {None},
   lnk    : Links \cup {None},      \* the reset link presented
   live   : BOOLEAN,                \* the account was usable in the snapshot
   hash   : Nat,                    \* the password the sign-in was checked with
   next   : {"active", "disabled"}, \* the status an administrator asked for
   cause  : {"replayed", "inactive", "signedOut"}, \* why a family is revoked
   targets: SUBSET Rows,            \* rows of the running UPDATE still to visit
   locks  : SUBSET Rows,
   revoke : SUBSET Tokens,          \* revoked by this transaction
   burn   : SUBSET Links,           \* burnt by this transaction
   others : SUBSET Links]           \* history: the account's links as it set the password

TypeOK ==
  /\ rt \in [DOMAIN rt -> TokenRow]
  /\ DOMAIN rt \subseteq Tokens
  /\ used \subseteq Tokens /\ revoked \subseteq Tokens /\ expired \subseteq Tokens
  /\ status \in [Users -> {"active", "disabled"}]
  /\ cred \in [Users -> Nat]
  /\ archived \in BOOLEAN
  /\ link \in [DOMAIN link -> Users]
  /\ DOMAIN link \subseteq Links
  /\ linkUsed \subseteq Links /\ linkExpired \subseteq Links
  /\ redeemed \in [Links -> Nat] /\ retired \subseteq Links
  /\ challenge \subseteq Challenge
  /\ authEvent \subseteq AuthEvent
  /\ tx \in [Conns -> Transaction]

-----------------------------------------------------------------------------
\* Transactions

Idle == [pc |-> "idle", tok |-> None, new |-> None, usr |-> None, lnk |-> None,
         live |-> FALSE, hash |-> 0, next |-> "active", cause |-> "signedOut",
         targets |-> {}, locks |-> {}, revoke |-> {}, burn |-> {}, others |-> {}]

\* BEGIN and the first statement, on a connection nobody is using.
Begin(c, t) ==
  /\ tx[c].pc = "idle"
  /\ tx' = [tx EXCEPT ![c] = t]

\* COMMIT or ROLLBACK: locks are released and the connection goes back.
End(c) == tx' = [tx EXCEPT ![c] = Idle]

\* Row r is not held by another transaction.
Free(c, r) == \A d \in Conns \ {c} : r \notin tx[d].locks

Usable(u) == status[u] = "active" /\ ~archived

\* Token ids nobody has minted or is about to: 256 random bits never collide.
Fresh == Tokens \ (DOMAIN rt \cup {tx[c].new : c \in Conns})

Insert(f, id, columns) ==
  [x \in DOMAIN f \cup {id} |-> IF x = id THEN columns ELSE f[x]]

Family(f) == {t \in DOMAIN rt : rt[t].family = f}
OwnedBy(u) == {t \in DOMAIN rt : rt[t].owner = u}

\* A token that an exchange would still accept, expiry aside.
Unspent(t) == t \in DOMAIN rt /\ t \notin used /\ t \notin revoked

Init ==
  /\ rt = [t \in {} |-> None]
  /\ used = {} /\ revoked = {} /\ expired = {}
  /\ status = [u \in Users |-> "active"]
  /\ cred = [u \in Users |-> 0]
  /\ archived = FALSE
  /\ link = [l \in {} |-> None]
  /\ linkUsed = {} /\ linkExpired = {}
  /\ redeemed = [l \in Links |-> 0] /\ retired = {}
  /\ challenge = {}
  /\ authEvent = {}
  /\ tx = [c \in Conns |-> Idle]

-----------------------------------------------------------------------------
\* POST /auth/login.  The refusals (unknown, archived, not active, locked,
\* wrong password) leave these tables alone and are not modelled here.

\* SELECT of the user and the tenant; the password matches the hash it reads.
SignInSelect(c, u) ==
  /\ Usable(u)
  /\ \E n \in Fresh :
       Begin(c, [Idle EXCEPT !.pc = "signIn", !.usr = u, !.new = n,
                             !.hash = cred[u]])
  /\ UNCHANGED <<tokenTable, account, linkTable, challenge, authEvent>>

\* A mistake: the caller names no family and the INSERT mints none.
OpenNoFamily(c) ==
  /\ rt' = Insert(rt, tx[c].new,
                  [owner |-> tx[c].usr, family |-> None, parent |-> None,
                   signedInWith |-> tx[c].hash])
  /\ End(c)
  /\ UNCHANGED <<used, revoked, expired, account, linkTable, authEvent>>

OpenFamily(c) ==
  /\ rt' = Insert(rt, tx[c].new,
                  [owner |-> tx[c].usr, family |-> tx[c].new, parent |-> None,
                   signedInWith |-> tx[c].hash])
  /\ End(c)
  /\ UNCHANGED <<used, revoked, expired, account, linkTable, authEvent>>

\* UPDATE "user" (clears the failed attempts), INSERT refresh_token, COMMIT.
SignInIssue(c) ==
  /\ tx[c].pc = "signIn" /\ tx[c].usr \notin MfaUsers
  /\ Free(c, tx[c].usr)
  /\ OpenFamily(c)
  /\ UNCHANGED challenge

\* The same with a second factor: no refresh token, only a challenge token,
\* which carries the user and no more.
SignInChallenge(c) ==
  /\ tx[c].pc = "signIn" /\ tx[c].usr \in MfaUsers
  /\ Free(c, tx[c].usr)
  /\ challenge' = challenge \cup {[usr |-> tx[c].usr, signedInWith |-> tx[c].hash]}
  /\ End(c)
  /\ UNCHANGED <<tokenTable, account, linkTable, authEvent>>

\* POST /auth/mfa/verify with a right code: loadAuthenticatedUser re-reads the
\* account, then the INSERT and the COMMIT.
VerifyMfaSelect(c, ch) ==
  /\ ch \in challenge
  /\ Usable(ch.usr)
  /\ \E n \in Fresh :
       Begin(c, [Idle EXCEPT !.pc = "verify", !.usr = ch.usr, !.new = n,
                             !.hash = ch.signedInWith])
  /\ UNCHANGED <<tokenTable, account, linkTable, challenge, authEvent>>

VerifyMfaIssue(c) ==
  /\ tx[c].pc = "verify"
  /\ OpenFamily(c)
  /\ UNCHANGED challenge

ChallengeExpires(ch) ==
  /\ "expiry" \in Events
  /\ ch \in challenge
  /\ challenge' = challenge \ {ch}
  /\ UNCHANGED <<tokenTable, account, linkTable, authEvent, tx>>

-----------------------------------------------------------------------------
\* POST /auth/refresh: rotateRefreshToken.

\* The SELECT ... FOR UPDATE OF rt starts: the user and the tenant it joins
\* are read from the snapshot of this moment, however long the lock takes.
RefreshSelect(c, t) ==
  /\ t \in DOMAIN rt
  /\ \E n \in Fresh :
       Begin(c, [Idle EXCEPT !.pc = "lock", !.tok = t, !.new = n,
                             !.live = Usable(rt[t].owner)])
  /\ UNCHANGED <<tokenTable, account, linkTable, challenge, authEvent>>

\* A mistake: the SELECT without FOR UPDATE.
LockedWithoutWaiting(c) == tx[c].pc = "lock"

\* The statement holds the row and has re-read it.
Locked(c) == tx[c].pc = "lock" /\ Free(c, tx[c].tok)

HoldToken(c, pc, cause, n) ==
  tx' = [tx EXCEPT ![c].pc = pc, ![c].cause = cause, ![c].new = n,
                   ![c].locks = {tx[c].tok}]

\* A spent token is the signal of a leak and outranks every other refusal.
RefreshReplayed(c) ==
  /\ Locked(c)
  /\ tx[c].tok \in used
  /\ HoldToken(c, "revoke", "replayed", None)
  /\ UNCHANGED <<tokenTable, account, linkTable, challenge, authEvent>>

\* Revoked or expired: the refusal is recorded and the transaction commits.
RefreshRefused(c) ==
  /\ Locked(c)
  /\ tx[c].tok \notin used
  /\ tx[c].tok \in revoked \cup expired
  /\ End(c)
  /\ UNCHANGED <<tokenTable, account, linkTable, challenge, authEvent>>

\* A mistake: used_at is not looked at.
ExchangeableAgain(c) == Locked(c) /\ tx[c].tok \notin revoked \cup expired

Exchangeable(c) ==
  /\ Locked(c)
  /\ Unspent(tx[c].tok)
  /\ tx[c].tok \notin expired

\* The session outlived the account: its family is revoked.
RefreshInactive(c) ==
  /\ Exchangeable(c)
  /\ ~tx[c].live
  /\ HoldToken(c, "revoke", "inactive", None)
  /\ UNCHANGED <<tokenTable, account, linkTable, challenge, authEvent>>

\* UPDATE used_at and INSERT of the child, both invisible until COMMIT.
RefreshExchange(c) ==
  /\ Exchangeable(c)
  /\ tx[c].live
  /\ HoldToken(c, "exchange", "signedOut", tx[c].new)
  /\ UNCHANGED <<tokenTable, account, linkTable, challenge, authEvent>>

\* A mistake: the parent is not marked used.
CommitExchangeUnspent(c) ==
  /\ tx[c].pc = "exchange"
  /\ rt' = Insert(rt, tx[c].new, [rt[tx[c].tok] EXCEPT !.parent = tx[c].tok])
  /\ End(c)
  /\ UNCHANGED <<used, revoked, expired, account, linkTable, challenge, authEvent>>

CommitExchange(c) ==
  /\ tx[c].pc = "exchange"
  /\ LET t == tx[c].tok IN
       /\ rt' = Insert(rt, tx[c].new, [rt[t] EXCEPT !.parent = t])
       /\ used' = used \cup {t}
  /\ End(c)
  /\ UNCHANGED <<revoked, expired, account, linkTable, challenge, authEvent>>

\* POST /auth/logout: revokeSessionByRefreshToken.  The SELECT takes no lock
\* and reads only columns that never change.
LogoutSelect(c, t) ==
  /\ t \in DOMAIN rt
  /\ Begin(c, [Idle EXCEPT !.pc = "revoke", !.tok = t])
  /\ UNCHANGED <<tokenTable, account, linkTable, challenge, authEvent>>

-----------------------------------------------------------------------------
\* revokeRefreshTokenFamily: UPDATE ... WHERE family_id AND revoked_at IS NULL.

\* A mistake: only the token presented is revoked.
RevokeOnlyPresented(c) ==
  /\ tx[c].pc = "revoke"
  /\ tx' = [tx EXCEPT ![c].pc = "revoking", ![c].targets = {tx[c].tok} \ revoked]
  /\ UNCHANGED <<tokenTable, account, linkTable, challenge, authEvent>>

\* The statement starts: its snapshot decides which rows it will visit.
RevokeStart(c) ==
  /\ tx[c].pc = "revoke"
  /\ tx' = [tx EXCEPT ![c].pc = "revoking",
                      ![c].targets = Family(rt[tx[c].tok].family) \ revoked]
  /\ UNCHANGED <<tokenTable, account, linkTable, challenge, authEvent>>

\* It locks one row, waiting for its holder, and re-checks the WHERE clause.
\* The same statement shape serves the password reset.
RevokeRow(c, t) ==
  /\ tx[c].pc \in {"revoking", "sweeping"}
  /\ t \in tx[c].targets
  /\ Free(c, t)
  /\ tx' = [tx EXCEPT ![c].targets = @ \ {t}, ![c].locks = @ \cup {t},
                      ![c].revoke = @ \cup ({t} \ revoked)]
  /\ UNCHANGED <<tokenTable, account, linkTable, challenge, authEvent>>

\* The auth_event INSERT and COMMIT.
CommitRevocation(c) ==
  /\ tx[c].pc = "revoking"
  /\ tx[c].targets = {}
  /\ revoked' = revoked \cup tx[c].revoke
  /\ LET f == rt[tx[c].tok].family IN
       authEvent' = authEvent \cup
         CASE tx[c].cause = "replayed"  -> {[event |-> "token.replayed", family |-> f]}
           [] tx[c].cause = "signedOut" -> {[event |-> "session.signed_out", family |-> f]}
           [] tx[c].cause = "inactive"  -> {}
  /\ End(c)
  /\ UNCHANGED <<rt, used, expired, account, linkTable, challenge>>

-----------------------------------------------------------------------------
\* POST /auth/password-reset and .../complete.

\* requestPasswordReset: nothing else reads the row it inserts before COMMIT.
RequestReset(u) ==
  /\ Usable(u)
  /\ \E l \in Links \ DOMAIN link : link' = Insert(link, l, u)
  /\ UNCHANGED <<tokenTable, account, linkUsed, linkExpired, redeemed, retired>>
  /\ UNCHANGED <<challenge, authEvent, tx>>

\* completePasswordReset: SELECT ... FOR UPDATE OF pr, with the user's status
\* from the statement's snapshot.
ResetSelect(c, l) ==
  /\ l \in DOMAIN link
  /\ Begin(c, [Idle EXCEPT !.pc = "redeem", !.lnk = l, !.usr = link[l],
                           !.live = Usable(link[l])])
  /\ UNCHANGED <<tokenTable, account, linkTable, challenge, authEvent>>

\* A mistake: used_at of the link is not looked at.
RedeemableAgain(c) == tx[c].lnk \notin linkExpired /\ tx[c].live

Redeemable(c) ==
  tx[c].lnk \notin linkUsed \cup linkExpired /\ tx[c].live

ResetRefused(c) ==
  /\ tx[c].pc = "redeem" /\ Free(c, tx[c].lnk)
  /\ ~Redeemable(c)
  /\ End(c)
  /\ UNCHANGED <<tokenTable, account, linkTable, challenge, authEvent>>

ResetAccepted(c) ==
  /\ tx[c].pc = "redeem" /\ Free(c, tx[c].lnk)
  /\ Redeemable(c)
  /\ tx' = [tx EXCEPT ![c].pc = "password", ![c].locks = {tx[c].lnk}]
  /\ UNCHANGED <<tokenTable, account, linkTable, challenge, authEvent>>

\* UPDATE "user" waits for the row; then UPDATE password_reset of its own row.
ResetPassword(c) ==
  /\ tx[c].pc = "password"
  /\ Free(c, tx[c].usr)
  /\ tx' = [tx EXCEPT ![c].pc = "sweep", ![c].locks = @ \cup {tx[c].usr},
                      ![c].burn = {tx[c].lnk},
                      ![c].others = {l \in DOMAIN link : link[l] = tx[c].usr}]
  /\ UNCHANGED <<tokenTable, account, linkTable, challenge, authEvent>>

\* UPDATE refresh_token ... WHERE user_id AND revoked_at IS NULL starts.
SweepStart(c) ==
  /\ tx[c].pc = "sweep"
  /\ tx' = [tx EXCEPT ![c].pc = "sweeping",
                      ![c].targets = OwnedBy(tx[c].usr) \ revoked]
  /\ UNCHANGED <<tokenTable, account, linkTable, challenge, authEvent>>

\* A mistake: the account's other links are left alone.
BurnOwnOnly(c) ==
  /\ tx[c].pc = "sweeping"
  /\ tx[c].targets = {}
  /\ tx' = [tx EXCEPT ![c].pc = "burning"]
  /\ UNCHANGED <<tokenTable, account, linkTable, challenge, authEvent>>

\* UPDATE password_reset ... WHERE user_id AND used_at IS NULL starts.
BurnStart(c) ==
  /\ tx[c].pc = "sweeping"
  /\ tx[c].targets = {}
  /\ tx' = [tx EXCEPT ![c].pc = "burning",
                      ![c].targets = {l \in DOMAIN link : link[l] = tx[c].usr}
                                       \ (linkUsed \cup tx[c].burn)]
  /\ UNCHANGED <<tokenTable, account, linkTable, challenge, authEvent>>

BurnRow(c, l) ==
  /\ tx[c].pc = "burning"
  /\ l \in tx[c].targets
  /\ Free(c, l)
  /\ tx' = [tx EXCEPT ![c].targets = @ \ {l}, ![c].locks = @ \cup {l},
                      ![c].burn = @ \cup ({l} \ linkUsed)]
  /\ UNCHANGED <<tokenTable, account, linkTable, challenge, authEvent>>

CommitReset(c) ==
  /\ tx[c].pc = "burning"
  /\ tx[c].targets = {}
  /\ LET u == tx[c].usr IN
       /\ cred' = [cred EXCEPT ![u] = @ + 1]
       /\ status' = [status EXCEPT ![u] = "active"]
       /\ authEvent' = authEvent \cup {[event |-> "password_reset.completed", usr |-> u]}
  /\ revoked' = revoked \cup tx[c].revoke
  /\ linkUsed' = linkUsed \cup tx[c].burn
  /\ redeemed' = [redeemed EXCEPT ![tx[c].lnk] = @ + 1]
  /\ retired' = retired \cup tx[c].others
  /\ End(c)
  /\ UNCHANGED <<rt, used, expired, archived, link, linkExpired, challenge>>

-----------------------------------------------------------------------------
\* What an administrator does to the account, and the clock.

\* setUserStatus: a plain SELECT, then the UPDATE if the status differs.
StatusSelect(c, u, s) ==
  /\ "status" \in Events
  /\ status[u] # s
  /\ Begin(c, [Idle EXCEPT !.pc = "status", !.usr = u, !.next = s])
  /\ UNCHANGED <<tokenTable, account, linkTable, challenge, authEvent>>

StatusCommit(c) ==
  /\ tx[c].pc = "status"
  /\ Free(c, tx[c].usr)
  /\ status' = [status EXCEPT ![tx[c].usr] = tx[c].next]
  /\ End(c)
  /\ UNCHANGED <<tokenTable, cred, archived, linkTable, challenge, authEvent>>

\* softDeleteTenant and restoreTenant: one conditional UPDATE each.
ArchiveTenant ==
  /\ "archive" \in Events
  /\ ~archived /\ archived' = TRUE
  /\ UNCHANGED <<tokenTable, status, cred, linkTable, challenge, authEvent, tx>>

RestoreTenant ==
  /\ archived /\ archived' = FALSE
  /\ UNCHANGED <<tokenTable, status, cred, linkTable, challenge, authEvent, tx>>

TokenExpires(t) ==
  /\ "expiry" \in Events
  /\ t \in DOMAIN rt \ expired
  /\ expired' = expired \cup {t}
  /\ UNCHANGED <<rt, used, revoked, account, linkTable, challenge, authEvent, tx>>

LinkExpires(l) ==
  /\ "link expiry" \in Events
  /\ l \in DOMAIN link \ linkExpired
  /\ linkExpired' = linkExpired \cup {l}
  /\ UNCHANGED <<tokenTable, account, link, linkUsed, redeemed, retired>>
  /\ UNCHANGED <<challenge, authEvent, tx>>

\* A mistake: the handler of the error forgets the ROLLBACK.
RollbackForgotten(c) == tx[c].pc # "idle" /\ UNCHANGED vars

\* ROLLBACK at any point: nothing the transaction wrote was ever visible.
Rollback(c) ==
  /\ tx[c].pc # "idle"
  /\ End(c)
  /\ UNCHANGED <<tokenTable, account, linkTable, challenge, authEvent>>

-----------------------------------------------------------------------------
\* A new request arrives.
Request(c) ==
  \/ \E u \in Users : SignInSelect(c, u)
  \/ \E ch \in challenge : VerifyMfaSelect(c, ch)
  \/ \E t \in Tokens : RefreshSelect(c, t) \/ LogoutSelect(c, t)
  \/ \E l \in Links : ResetSelect(c, l)
  \/ \E u \in Users, s \in {"active", "disabled"} : StatusSelect(c, u, s)

\* The open transaction runs its next statement.
Step(c) ==
  \/ SignInIssue(c) \/ SignInChallenge(c) \/ VerifyMfaIssue(c)
  \/ RefreshReplayed(c) \/ RefreshRefused(c) \/ RefreshInactive(c)
  \/ RefreshExchange(c) \/ CommitExchange(c)
  \/ RevokeStart(c) \/ (\E t \in Tokens : RevokeRow(c, t)) \/ CommitRevocation(c)
  \/ ResetRefused(c) \/ ResetAccepted(c) \/ ResetPassword(c)
  \/ SweepStart(c) \/ BurnStart(c) \/ (\E l \in Links : BurnRow(c, l))
  \/ CommitReset(c) \/ StatusCommit(c)

Environment ==
  \/ \E ch \in challenge : ChallengeExpires(ch)
  \/ \E u \in Users : RequestReset(u)
  \/ \E t \in Tokens : TokenExpires(t)
  \/ \E l \in Links : LinkExpires(l)
  \/ ArchiveTenant \/ RestoreTenant

Next == Environment \/ \E c \in Conns : Request(c) \/ Step(c) \/ Rollback(c)

Spec == Init /\ [][Next]_vars

-----------------------------------------------------------------------------
\* Safety

\* A family never holds two tokens an exchange would accept: the row lock
\* serialises exchanges, so nobody can be mistaken for a thief after a double
\* submit (rotateRefreshToken).
OneUnspentPerFamily ==
  \A s, t \in DOMAIN rt :
    Unspent(s) /\ Unspent(t) /\ rt[s].family = rt[t].family => s = t

\* A refresh token is single use: whatever races, it was exchanged for at most
\* one other token, of the same session, and only by burning it
\* (rotateRefreshToken, issueRefreshToken).
SingleUse ==
  \A t \in DOMAIN rt : rt[t].parent # None =>
    /\ rt[t].parent \in used
    /\ rt[rt[t].parent].family = rt[t].family
    /\ rt[rt[t].parent].owner = rt[t].owner
    /\ \A s \in DOMAIN rt : rt[s].parent = rt[t].parent => s = t

\* Revocation reaches back to the sign-in: below a revoked token there is no
\* ancestor left unrevoked, even when two revocations and an exchange overlap
\* (revokeRefreshTokenFamily, completePasswordReset).
RevokedToTheRoot ==
  \A t \in revoked : rt[t].parent # None => rt[t].parent \in revoked

\* A reset link sets a password once: only while neither it nor a later password
\* has burnt it, and it is burnt in the same commit, however redemptions race and
\* roll back (completePasswordReset).
SpendsLink(l) ==
  redeemed'[l] # redeemed[l] =>
    redeemed[l] = 0 /\ l \notin linkUsed \cup retired /\ l \in linkUsed'

ResetLinkSingleUse == [][\A l \in Links : SpendsLink(l)]_vars

\* One redemption burns every link the account had when its password was set,
\* its own and those other redemptions hold at the time, so that no other email
\* can be redeemed after it (completePasswordReset).
RedemptionBurnsTheRest == retired \subseteq linkUsed

\* The inductive strengthening of the invariants above.

\* A row is locked by one transaction at a time.
LocksExclusive ==
  \A c, d \in Conns : c # d => tx[c].locks \cap tx[d].locks = {}

\* The token a transaction will mint is nobody else's.
NewTokensApart ==
  \A c \in Conns : tx[c].new # None =>
    /\ tx[c].new \notin DOMAIN rt
    /\ \A d \in Conns : tx[d].new = tx[c].new => d = c

\* Foreign keys: columns speak of rows that exist, and used_at and revoked_at
\* of rows that were inserted.
ForeignKeys ==
  /\ used \subseteq DOMAIN rt /\ revoked \subseteq DOMAIN rt
  /\ \A t \in DOMAIN rt :
       /\ rt[t].family \in DOMAIN rt
       /\ rt[t].parent \in DOMAIN rt \cup {None}

\* The tokens that will be revoked if transaction x commits.
Doomed(x) ==
  x.revoke \cup (IF x.pc \in {"revoking", "sweeping"} THEN x.targets ELSE {})

\* What holds of one open transaction: the rows it speaks of exist, the token
\* it is exchanging is locked and still good, what it revokes it has locked,
\* and it dooms no token without its ancestors.
Sound(x) ==
  /\ x.pc \in {"signIn", "verify"} => x.usr \in Users /\ x.new \in Tokens
  /\ x.pc = "lock" => x.tok \in DOMAIN rt /\ x.new \in Tokens
  /\ x.pc = "exchange" => Unspent(x.tok) /\ x.tok \in x.locks /\ x.new \in Tokens
  /\ x.pc \in {"revoke", "revoking"} => x.tok \in DOMAIN rt
  /\ x.pc \in {"redeem", "password", "sweep", "sweeping", "burning", "status"}
       => x.usr \in Users
  /\ x.pc \in {"redeem", "password"} => x.lnk \in Links
  /\ x.pc \in {"revoking", "sweeping"} => x.targets \subseteq DOMAIN rt
  /\ x.revoke \subseteq x.locks \cap DOMAIN rt
  /\ x.pc \notin {"revoking", "sweeping", "burning"} => x.revoke = {}
  /\ \A t \in Doomed(x) :
       rt[t].parent # None => rt[t].parent \in Doomed(x) \cup revoked

IInv ==
  /\ TypeOK
  /\ LocksExclusive /\ NewTokensApart /\ ForeignKeys
  /\ \A c \in Conns : Sound(tx[c])
  /\ OneUnspentPerFamily /\ SingleUse /\ RevokedToTheRoot

\* The same for reset links.  A redemption that passed its check holds its link
\* unburnt until it commits, will burn it, and burns links of one account only;
\* of those it found, each is burnt or still to be visited.
Redeeming(x) == x.pc \in {"password", "sweep", "sweeping", "burning"}

RedemptionSound(x) ==
  /\ x.pc = "redeem" \/ Redeeming(x) => x.lnk \in DOMAIN link /\ link[x.lnk] = x.usr
  /\ Redeeming(x) => x.lnk \in x.locks \ linkUsed
  /\ x.pc \in {"sweep", "sweeping", "burning"} => x.lnk \in x.burn
  /\ x.pc \notin {"sweep", "sweeping", "burning"} => x.burn = {} /\ x.others = {}
  /\ x.burn \subseteq x.locks
  /\ \A l \in x.burn \cup (IF x.pc = "burning" THEN x.targets ELSE {}) :
       l \in DOMAIN link /\ link[l] = x.usr
  /\ \A l \in x.others : l \in DOMAIN link /\ link[l] = x.usr
  /\ x.pc = "burning" => x.others \subseteq linkUsed \cup x.burn \cup x.targets

LinkIInv ==
  /\ IInv
  /\ linkUsed \subseteq DOMAIN link
  /\ \A c \in Conns : RedemptionSound(tx[c])
  /\ \A l \in Links : redeemed[l] # 0 => l \in linkUsed
  /\ RedemptionBurnsTheRest

-----------------------------------------------------------------------------
\* What the documentation says and the code does not do.

\* README.md: "Presenting a spent token revokes the entire family".
ReplayEndsFamily ==
  \A t \in Tokens :
    Unspent(t) => [event |-> "token.replayed", family |-> rt[t].family] \notin authEvent

\* README.md: "a password can never change without its sessions going with it".
PasswordChangeEndsSessions ==
  \A t \in Tokens : Unspent(t) => rt[t].signedInWith = cred[rt[t].owner]

-----------------------------------------------------------------------------
\* Liveness: PostgreSQL runs the statements it is given, serves a row's waiters
\* in turn (strong fairness of a statement that waits for locks) and rolls back
\* a victim of every deadlock.

\* The rows the running statement of c still has to lock.
Needs(c) ==
  CASE tx[c].pc = "lock" -> {tx[c].tok}
    [] tx[c].pc = "redeem" -> {tx[c].lnk}
    [] tx[c].pc \in {"signIn", "password", "status"} -> {tx[c].usr}
    [] tx[c].pc \in {"revoking", "sweeping", "burning"} -> tx[c].targets
    [] OTHER -> {}

\* c belongs to a set of transactions that wait for each other and nobody else.
Deadlocked(c) ==
  \E D \in SUBSET Conns :
    /\ c \in D
    /\ \A d \in D : Needs(d) # {} /\ \A r \in Needs(d) :
         \E e \in D \ {d} : r \in tx[e].locks

DeadlockVictim == \E c \in Conns : Deadlocked(c) /\ Rollback(c)

Fairness == (\A c \in Conns : SF_vars(Step(c))) /\ WF_vars(DeadlockVictim)

FairSpec == Spec /\ Fairness

\* Every request is answered: its transaction ends, by COMMIT or by ROLLBACK,
\* and gives its connection back to the pool (withoutTenantScope).
EveryRequestEnds == \A c \in Conns : []<>(tx[c].pc = "idle")

-----------------------------------------------------------------------------
\* What callers are promised of a session (SessionChain): one exchangeable
\* token, handed on by an exchange, and no way back once the session ended.
Chain == INSTANCE SessionChain WITH
  Tokens <- Tokens,
  live   <- [f \in Tokens |-> {t \in Tokens : Unspent(t) /\ rt[t].family = f}],
  minted <- DOMAIN rt

ImplementsChain == Chain!Spec
=============================================================================
