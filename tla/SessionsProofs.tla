--------------------------- MODULE SessionsProofs ---------------------------
(***************************************************************************)
(* Proofs about Sessions, for every set of users, tokens, links and        *)
(* connections.  IInv is inductive: each action preserves it               *)
(* and the safety properties are among its conjuncts.                      *)
(***************************************************************************)
EXTENDS Sessions, TLAPS

\* What an open transaction may be left in by the actions of others: rows are
\* only added, columns of a row never change, and the token it is exchanging
\* is still good.
LEMMA SoundIsStable ==
  ASSUME NEW x \in Transaction, Sound(x),
         DOMAIN rt \subseteq DOMAIN rt',
         \A t \in DOMAIN rt : rt'[t] = rt[t],
         revoked \subseteq revoked',
         x.pc = "exchange" => Unspent(x.tok)'
  PROVE  Sound(x)'
<1>1. Doomed(x) \subseteq DOMAIN rt
  BY DEF Sound, Doomed
<1>2. \A t \in Doomed(x) :
        rt'[t].parent # None => rt'[t].parent \in Doomed(x) \cup revoked'
  BY <1>1 DEF Sound
<1> QED
  BY <1>2 DEF Sound, Doomed

\* A step that touches one transaction and no token.
LEMMA LocalStep ==
  ASSUME IInv, TypeOK', UNCHANGED <<rt, used, revoked>>,
         NEW c \in Conns, NEW r \in Transaction,
         tx' = [tx EXCEPT ![c] = r],
         Sound(r),
         \A d \in Conns \ {c} : r.locks \cap tx[d].locks = {},
         r.new # None => /\ r.new \notin DOMAIN rt
                         /\ \A d \in Conns \ {c} : tx[d].new # r.new
  PROVE  IInv'
<1> USE DEF IInv
<1>1. tx \in [Conns -> Transaction]
  BY DEF TypeOK
<1>2. tx'[c] = r /\ \A d \in Conns \ {c} : tx'[d] = tx[d]
  BY <1>1
<1>3. LocksExclusive'
  BY <1>2 DEF LocksExclusive
<1>4. NewTokensApart'
  BY <1>2 DEF NewTokensApart
<1>5. (\A d \in Conns : Sound(tx[d]))'
  <2> SUFFICES ASSUME NEW d \in Conns PROVE Sound(tx[d])'
    OBVIOUS
  <2>1. Sound(tx'[d])
    BY <1>2
  <2> QED
    BY <2>1 DEF Sound, Doomed, Unspent
<1> QED
  BY <1>3, <1>4, <1>5 DEF ForeignKeys, OneUnspentPerFamily, SingleUse,
                          RevokedToTheRoot, Unspent

\* A step that touches neither a transaction nor a token.
LEMMA ClockStep ==
  ASSUME IInv, TypeOK', UNCHANGED <<rt, used, revoked, tx>>
  PROVE  IInv'
  BY DEF IInv, LocksExclusive, NewTokensApart, ForeignKeys, Sound, Doomed,
         OneUnspentPerFamily, SingleUse, RevokedToTheRoot, Unspent

LEMMA IdleIsSound ==
  /\ Idle \in Transaction
  /\ Sound(Idle)
  /\ Idle.locks = {} /\ Idle.new = None
  BY DEF Idle, Transaction, Sound, Doomed

\* BEGIN, COMMIT and ROLLBACK of a transaction that changed no token.
LEMMA EndStep ==
  ASSUME IInv, TypeOK', UNCHANGED <<rt, used, revoked>>,
         NEW c \in Conns, End(c)
  PROVE  IInv'
<1> QED
  BY IdleIsSound, LocalStep DEF End

THEOREM InitIInv == Init => IInv
<1> SUFFICES ASSUME Init PROVE IInv
  OBVIOUS
<1> USE DEF Init
<1>1. TypeOK
  BY IdleIsSound DEF TypeOK
<1>2. \A c \in Conns : tx[c] = Idle
  OBVIOUS
<1> QED
  BY <1>1, <1>2, IdleIsSound DEF IInv, LocksExclusive, NewTokensApart, ForeignKeys,
     OneUnspentPerFamily, SingleUse, RevokedToTheRoot

-----------------------------------------------------------------------------
\* One lemma per group of actions.

\* A request begins on an idle connection, possibly reserving a fresh token.
LEMMA RequestStep ==
  ASSUME IInv, NEW c \in Conns, Request(c)
  PROVE  IInv'
<1> USE DEF IInv
<1>1. TypeOK /\ tx[c] \in Transaction
  BY DEF TypeOK
<1>2. UNCHANGED <<rt, used, revoked>>
  BY DEF Request, SignInSelect, VerifyMfaSelect, RefreshSelect, LogoutSelect,
         ResetSelect, StatusSelect, tokenTable
<1>3. ASSUME NEW r \in Transaction, Begin(c, r), Sound(r), r.locks = {},
             r.new \in Fresh \cup {None},
             UNCHANGED <<tokenTable, account, linkTable, challenge, authEvent>>
      PROVE  IInv'
  <2>1. TypeOK'
    BY <1>1, <1>3 DEF TypeOK, Begin, tokenTable, account, linkTable
  <2> QED
    BY <1>2, <1>3, <2>1, LocalStep DEF Begin, Fresh
<1> USE SessionsAssumption
<1>4. ASSUME NEW u \in Users, SignInSelect(c, u) PROVE IInv'
  <2>1. PICK n \in Fresh :
          Begin(c, [Idle EXCEPT !.pc = "signIn", !.usr = u, !.new = n,
                                !.hash = cred[u]])
    BY <1>4 DEF SignInSelect
  <2> DEFINE r == [Idle EXCEPT !.pc = "signIn", !.usr = u, !.new = n, !.hash = cred[u]]
  <2>2. cred[u] \in Nat /\ n \in Tokens
    BY <1>1 DEF TypeOK, Fresh
  <2>3. r \in Transaction /\ r.locks = {} /\ r.new \in Fresh
    BY <2>2 DEF Idle, Transaction
  <2>4. Sound(r)
    BY <2>2 DEF Idle, Sound, Doomed
  <2> QED
    BY <1>3, <1>4, <2>1, <2>3, <2>4 DEF SignInSelect
<1>5. ASSUME NEW ch \in challenge, VerifyMfaSelect(c, ch) PROVE IInv'
  <2>1. PICK n \in Fresh :
          Begin(c, [Idle EXCEPT !.pc = "verify", !.usr = ch.usr, !.new = n,
                                !.hash = ch.signedInWith])
    BY <1>5 DEF VerifyMfaSelect
  <2> DEFINE r == [Idle EXCEPT !.pc = "verify", !.usr = ch.usr, !.new = n,
                               !.hash = ch.signedInWith]
  <2>2. ch.usr \in Users /\ ch.signedInWith \in Nat /\ n \in Tokens
    BY <1>1 DEF TypeOK, Challenge, Fresh
  <2>3. r \in Transaction /\ r.locks = {} /\ r.new \in Fresh
    BY <2>2 DEF Idle, Transaction
  <2>4. Sound(r)
    BY <2>2 DEF Idle, Sound, Doomed
  <2> QED
    BY <1>3, <1>5, <2>1, <2>3, <2>4 DEF VerifyMfaSelect
<1>6. ASSUME NEW t \in Tokens, RefreshSelect(c, t) PROVE IInv'
  <2>1. PICK n \in Fresh :
          Begin(c, [Idle EXCEPT !.pc = "lock", !.tok = t, !.new = n,
                                !.live = Usable(rt[t].owner)])
    BY <1>6 DEF RefreshSelect
  <2> DEFINE r == [Idle EXCEPT !.pc = "lock", !.tok = t, !.new = n,
                               !.live = Usable(rt[t].owner)]
  <2>2. Usable(rt[t].owner) \in BOOLEAN /\ t \in DOMAIN rt /\ n \in Tokens
    BY <1>6 DEF RefreshSelect, Usable, Fresh
  <2>3. r \in Transaction /\ r.locks = {} /\ r.new \in Fresh
    BY <2>2 DEF Idle, Transaction
  <2>4. Sound(r)
    BY <2>2 DEF Idle, Sound, Doomed
  <2> QED
    BY <1>3, <1>6, <2>1, <2>3, <2>4 DEF RefreshSelect
<1>7. ASSUME NEW t \in Tokens, LogoutSelect(c, t) PROVE IInv'
  <2> DEFINE r == [Idle EXCEPT !.pc = "revoke", !.tok = t]
  <2>1. r \in Transaction /\ r.locks = {} /\ r.new = None /\ Sound(r)
    BY <1>7 DEF LogoutSelect, Idle, Transaction, Sound, Doomed
  <2> QED
    BY <1>3, <1>7, <2>1 DEF LogoutSelect
<1>8. ASSUME NEW l \in Links, ResetSelect(c, l) PROVE IInv'
  <2> DEFINE r == [Idle EXCEPT !.pc = "redeem", !.lnk = l, !.usr = link[l],
                               !.live = Usable(link[l])]
  <2>1. link[l] \in Users /\ Usable(link[l]) \in BOOLEAN
    BY <1>1, <1>8 DEF TypeOK, ResetSelect, Usable
  <2>2. r \in Transaction /\ r.locks = {} /\ r.new = None
    BY <2>1 DEF Idle, Transaction
  <2>3. Sound(r)
    BY <2>1 DEF Idle, Sound, Doomed
  <2> QED
    BY <1>3, <1>8, <2>2, <2>3 DEF ResetSelect
<1>9. ASSUME NEW u \in Users, NEW s \in {"active", "disabled"}, StatusSelect(c, u, s)
      PROVE  IInv'
  <2> DEFINE r == [Idle EXCEPT !.pc = "status", !.usr = u, !.next = s]
  <2>1. r \in Transaction /\ r.locks = {} /\ r.new = None /\ Sound(r)
    BY <1>9 DEF Idle, Transaction, Sound, Doomed
  <2> QED
    BY <1>3, <1>9, <2>1 DEF StatusSelect
<1> QED
  BY <1>4, <1>5, <1>6, <1>7, <1>8, <1>9 DEF Request

\* Administrators who act in one statement, and the clock.
LEMMA EnvironmentStep ==
  ASSUME IInv, Environment
  PROVE  IInv'
<1> USE DEF IInv
<1>1. UNCHANGED <<rt, used, revoked, tx>>
  BY DEF Environment, ChallengeExpires, RequestReset, TokenExpires, LinkExpires,
         ArchiveTenant, RestoreTenant, tokenTable
<1>2. TypeOK'
  <2>1. ASSUME NEW u \in Users, RequestReset(u) PROVE TypeOK'
    BY <2>1 DEF TypeOK, RequestReset, Insert, tokenTable, account
  <2>2. ASSUME \E t \in Tokens : TokenExpires(t) PROVE TypeOK'
    BY <2>2 DEF TypeOK, TokenExpires, account, linkTable
  <2>3. ASSUME \E l \in Links : LinkExpires(l) PROVE TypeOK'
    BY <2>3 DEF TypeOK, LinkExpires, tokenTable, account
  <2>4. ASSUME \E ch \in challenge : ChallengeExpires(ch) PROVE TypeOK'
    BY <2>4 DEF TypeOK, ChallengeExpires, tokenTable, account, linkTable
  <2>5. ASSUME ArchiveTenant \/ RestoreTenant PROVE TypeOK'
    BY <2>5 DEF TypeOK, ArchiveTenant, RestoreTenant, tokenTable, linkTable
  <2> QED
    BY <2>1, <2>2, <2>3, <2>4, <2>5 DEF Environment
<1> QED
  BY <1>1, <1>2, ClockStep

\* A statement of the open transaction that only locks rows and records what
\* it will write: no other transaction can tell yet.
LEMMA StatementStep ==
  ASSUME IInv, UNCHANGED <<tokenTable, account, linkTable, challenge, authEvent>>,
         NEW c \in Conns, NEW r \in Transaction,
         tx' = [tx EXCEPT ![c] = r],
         Sound(r),
         \A d \in Conns \ {c} : r.locks \cap tx[d].locks = {},
         r.new \in {tx[c].new, None}
  PROVE  IInv'
<1>1. TypeOK'
  BY DEF IInv, TypeOK, tokenTable, account, linkTable
<1>2. r.new # None => /\ r.new \notin DOMAIN rt
                      /\ \A d \in Conns \ {c} : tx[d].new # r.new
  BY DEF IInv, NewTokensApart
<1> QED
  BY <1>1, <1>2, LocalStep DEF tokenTable

\* The exchange, the replay and the closed account: the token's row is held.
LEMMA HoldTokenStep ==
  ASSUME IInv, NEW c \in Conns,
         RefreshReplayed(c) \/ RefreshInactive(c) \/ RefreshExchange(c)
  PROVE  IInv'
<1>1. /\ tx[c] \in Transaction /\ Sound(tx[c])
      /\ tx \in [Conns -> Transaction]
  BY DEF IInv, TypeOK
<1>2. /\ tx[c].pc = "lock" /\ tx[c].tok \in DOMAIN rt /\ tx[c].tok \in Tokens
      /\ tx[c].new \in Tokens
      /\ \A d \in Conns \ {c} : tx[c].tok \notin tx[d].locks
      /\ tx[c].revoke = {}
  BY <1>1 DEF IInv, TypeOK, RefreshReplayed, RefreshInactive, RefreshExchange,
             Exchangeable, Locked, Free, Sound
<1>3. UNCHANGED <<tokenTable, account, linkTable, challenge, authEvent>>
  BY DEF RefreshReplayed, RefreshInactive, RefreshExchange
<1>4. ASSUME NEW cause \in {"replayed", "inactive"}, HoldToken(c, "revoke", cause, None)
      PROVE  IInv'
  <2> DEFINE r == [tx[c] EXCEPT !.pc = "revoke", !.cause = cause, !.new = None,
                                !.locks = {tx[c].tok}]
  <2>1. r \in Transaction /\ r.locks = {tx[c].tok} /\ r.new = None
    BY <1>1, <1>2 DEF Transaction, Rows
  <2>2. Sound(r)
    BY <1>1, <1>2 DEF Transaction, Sound, Doomed
  <2>3. tx' = [tx EXCEPT ![c] = r]
    BY <1>1, <1>4 DEF HoldToken
  <2> HIDE DEF r
  <2>4. \A d \in Conns \ {c} : r.locks \cap tx[d].locks = {}
    BY <1>2, <2>1
  <2>5. r.new \in {tx[c].new, None}
    BY <2>1
  <2> QED
    BY <1>3, <2>1, <2>2, <2>3, <2>4, <2>5, StatementStep
<1>5. ASSUME Unspent(tx[c].tok), HoldToken(c, "exchange", "signedOut", tx[c].new)
      PROVE  IInv'
  <2> DEFINE r == [tx[c] EXCEPT !.pc = "exchange", !.cause = "signedOut",
                                !.new = tx[c].new, !.locks = {tx[c].tok}]
  <2>1. r \in Transaction /\ r.locks = {tx[c].tok} /\ r.new = tx[c].new
    BY <1>1, <1>2 DEF Transaction, Rows
  <2>2. Sound(r)
    BY <1>1, <1>2, <1>5 DEF Transaction, Sound, Doomed
  <2>3. tx' = [tx EXCEPT ![c] = r]
    BY <1>1, <1>5 DEF HoldToken
  <2> HIDE DEF r
  <2>4. \A d \in Conns \ {c} : r.locks \cap tx[d].locks = {}
    BY <1>2, <2>1
  <2>5. r.new \in {tx[c].new, None}
    BY <2>1
  <2> QED
    BY <1>3, <2>1, <2>2, <2>3, <2>4, <2>5, StatementStep
<1>6. CASE RefreshReplayed(c)
  BY <1>4, <1>6 DEF RefreshReplayed
<1>7. CASE RefreshInactive(c)
  BY <1>4, <1>7 DEF RefreshInactive
<1>8. CASE RefreshExchange(c)
  BY <1>5, <1>8 DEF RefreshExchange, Exchangeable
<1> QED
  BY <1>6, <1>7, <1>8

\* The revoking UPDATE of a replay, a sign-out or a closed account starts: its
\* targets are closed under parents because a family is.
LEMMA RevokeStartStep ==
  ASSUME IInv, NEW c \in Conns, RevokeStart(c)
  PROVE  IInv'
<1> DEFINE S == Family(rt[tx[c].tok].family) \ revoked
           r == [tx[c] EXCEPT !.pc = "revoking", !.targets = S]
<1>1. /\ tx[c] \in Transaction /\ Sound(tx[c]) /\ tx[c].pc = "revoke"
      /\ tx \in [Conns -> Transaction] /\ tx[c].tok \in DOMAIN rt
      /\ tx[c].revoke = {}
  BY DEF IInv, TypeOK, RevokeStart, Sound
<1>2. S \subseteq DOMAIN rt /\ DOMAIN rt \subseteq Tokens
  BY DEF IInv, TypeOK, Family
<1>3. r \in Transaction /\ r.locks = tx[c].locks /\ r.new = tx[c].new
  BY <1>1, <1>2 DEF Transaction, Rows
<1>4. \A t \in S : rt[t].parent # None => rt[t].parent \in S \cup revoked
  BY DEF IInv, SingleUse, ForeignKeys, Family
<1>5. Sound(r)
  BY <1>1, <1>2, <1>4 DEF Transaction, Sound, Doomed
<1>6. tx' = [tx EXCEPT ![c] = r]
  BY <1>1 DEF RevokeStart
<1>7. \A d \in Conns \ {c} : r.locks \cap tx[d].locks = {}
  BY <1>3 DEF IInv, LocksExclusive
<1> QED
  BY <1>3, <1>5, <1>6, <1>7, StatementStep DEF RevokeStart

\* The same for the UPDATE of a password reset, whose targets are the tokens
\* of an account: an exchange does not change the owner.
LEMMA SweepStartStep ==
  ASSUME IInv, NEW c \in Conns, SweepStart(c)
  PROVE  IInv'
<1> DEFINE S == OwnedBy(tx[c].usr) \ revoked
           r == [tx[c] EXCEPT !.pc = "sweeping", !.targets = S]
<1>1. /\ tx[c] \in Transaction /\ Sound(tx[c]) /\ tx[c].pc = "sweep"
      /\ tx \in [Conns -> Transaction] /\ tx[c].usr \in Users
      /\ tx[c].revoke = {}
  BY DEF IInv, TypeOK, SweepStart, Sound
<1>2. S \subseteq DOMAIN rt /\ DOMAIN rt \subseteq Tokens
  BY DEF IInv, TypeOK, OwnedBy
<1>3. r \in Transaction /\ r.locks = tx[c].locks /\ r.new = tx[c].new
  BY <1>1, <1>2 DEF Transaction, Rows
<1>4. \A t \in S : rt[t].parent # None => rt[t].parent \in S \cup revoked
  BY DEF IInv, SingleUse, ForeignKeys, OwnedBy
<1>5. Sound(r)
  BY <1>1, <1>2, <1>4 DEF Transaction, Sound, Doomed
<1>6. tx' = [tx EXCEPT ![c] = r]
  BY <1>1 DEF SweepStart
<1>7. \A d \in Conns \ {c} : r.locks \cap tx[d].locks = {}
  BY <1>3 DEF IInv, LocksExclusive
<1> QED
  BY <1>3, <1>5, <1>6, <1>7, StatementStep DEF SweepStart

\* Either UPDATE locks one of its rows and marks it, unless it was marked.
LEMMA RevokeRowStep ==
  ASSUME IInv, NEW c \in Conns, NEW t \in Tokens, RevokeRow(c, t)
  PROVE  IInv'
<1> DEFINE r == [tx[c] EXCEPT !.targets = @ \ {t}, !.locks = @ \cup {t},
                              !.revoke = @ \cup ({t} \ revoked)]
<1>1. /\ tx[c] \in Transaction /\ Sound(tx[c])
      /\ tx[c].pc \in {"revoking", "sweeping"} /\ t \in tx[c].targets
      /\ tx \in [Conns -> Transaction] /\ revoked \subseteq Tokens
  BY DEF IInv, TypeOK, RevokeRow
<1>2. r \in Transaction /\ r.new = tx[c].new
  <2>1. tx[c].targets \ {t} \subseteq Rows /\ tx[c].locks \cup {t} \subseteq Rows
    BY <1>1 DEF Transaction, Rows
  <2>2. tx[c].revoke \cup ({t} \ revoked) \subseteq Tokens
    BY <1>1 DEF Transaction
  <2> QED
    BY <1>1, <2>1, <2>2 DEF Transaction
<1>3. Sound(r)
  <2>0. /\ r.pc = tx[c].pc /\ r.targets = tx[c].targets \ {t}
        /\ r.revoke = tx[c].revoke \cup ({t} \ revoked)
    BY <1>1 DEF Transaction
  <2>1. Doomed(tx[c]) \subseteq Doomed(r) \cup revoked /\ Doomed(r) \subseteq Doomed(tx[c])
    BY <1>1, <2>0 DEF Doomed
  <2>2. \A s \in Doomed(r) :
          rt[s].parent # None => rt[s].parent \in Doomed(r) \cup revoked
    BY <1>1, <2>1 DEF Sound
  <2> QED
    BY <1>1, <2>2 DEF Transaction, Sound
<1>4. tx' = [tx EXCEPT ![c] = r]
  BY <1>1 DEF RevokeRow
<1>5. \A d \in Conns \ {c} : r.locks \cap tx[d].locks = {}
  BY <1>1 DEF IInv, LocksExclusive, RevokeRow, Free, Transaction
<1> HIDE DEF r
<1> QED
  BY <1>2, <1>3, <1>4, <1>5, StatementStep DEF RevokeRow

LEMMA BurnRowStep ==
  ASSUME IInv, NEW c \in Conns, NEW l \in Links, BurnRow(c, l)
  PROVE  IInv'
<1> DEFINE r == [tx[c] EXCEPT !.targets = @ \ {l}, !.locks = @ \cup {l},
                              !.burn = @ \cup ({l} \ linkUsed)]
<1>1. /\ tx[c] \in Transaction /\ Sound(tx[c]) /\ tx[c].pc = "burning"
      /\ tx \in [Conns -> Transaction]
  BY DEF IInv, TypeOK, BurnRow
<1>2. r \in Transaction /\ r.new = tx[c].new
  <2>1. tx[c].targets \ {l} \subseteq Rows /\ tx[c].locks \cup {l} \subseteq Rows
    BY <1>1 DEF Transaction, Rows
  <2>2. tx[c].burn \cup ({l} \ linkUsed) \subseteq Links
    BY <1>1 DEF Transaction
  <2> QED
    BY <1>1, <2>1, <2>2 DEF Transaction
<1>3. Sound(r)
  BY <1>1 DEF Transaction, Sound, Doomed
<1>4. tx' = [tx EXCEPT ![c] = r]
  BY <1>1 DEF BurnRow
<1>5. \A d \in Conns \ {c} : r.locks \cap tx[d].locks = {}
  BY <1>1 DEF IInv, LocksExclusive, BurnRow, Free, Transaction
<1> HIDE DEF r
<1> QED
  BY <1>2, <1>3, <1>4, <1>5, StatementStep DEF BurnRow

\* The redemption of a reset link up to its first UPDATEs, and BurnStart.
LEMMA RedeemStep ==
  ASSUME IInv, NEW c \in Conns, ResetAccepted(c) \/ ResetPassword(c) \/ BurnStart(c)
  PROVE  IInv'
<1>1. /\ tx[c] \in Transaction /\ Sound(tx[c]) /\ tx \in [Conns -> Transaction]
  BY DEF IInv, TypeOK
<1>2. CASE ResetAccepted(c)
  <2> DEFINE r == [tx[c] EXCEPT !.pc = "password", !.locks = {tx[c].lnk}]
  <2>1. tx[c].pc = "redeem" /\ tx[c].lnk \in Links /\ tx[c].usr \in Users
    BY <1>1, <1>2 DEF ResetAccepted, Sound
  <2>2. r \in Transaction /\ r.new = tx[c].new
    BY <1>1, <2>1 DEF Transaction, Rows
  <2>3. Sound(r)
    BY <1>1, <2>1 DEF Transaction, Sound, Doomed
  <2>4. tx' = [tx EXCEPT ![c] = r]
    BY <1>1, <1>2 DEF ResetAccepted
  <2>5. \A d \in Conns \ {c} : r.locks \cap tx[d].locks = {}
    BY <1>1, <1>2 DEF ResetAccepted, Free, Transaction
  <2> HIDE DEF r
  <2> QED
    BY <1>2, <2>2, <2>3, <2>4, <2>5, StatementStep DEF ResetAccepted
<1>3. CASE ResetPassword(c)
  <2> DEFINE A == {l \in DOMAIN link : link[l] = tx[c].usr}
  <2> DEFINE r == [tx[c] EXCEPT !.pc = "sweep", !.locks = @ \cup {tx[c].usr},
                                !.burn = {tx[c].lnk}, !.others = A]
  <2>1. /\ tx[c].pc = "password" /\ tx[c].lnk \in Links /\ tx[c].usr \in Users
        /\ A \subseteq Links
    BY <1>1, <1>3 DEF ResetPassword, Sound, IInv, TypeOK
  <2>2. r \in Transaction /\ r.new = tx[c].new
    BY <1>1, <2>1 DEF Transaction, Rows
  <2>3. Sound(r)
    BY <1>1, <2>1 DEF Transaction, Sound, Doomed
  <2>4. tx' = [tx EXCEPT ![c] = r]
    BY <1>1, <1>3 DEF ResetPassword
  <2>5. \A d \in Conns \ {c} : r.locks \cap tx[d].locks = {}
    BY <1>1, <1>3 DEF IInv, LocksExclusive, ResetPassword, Free, Transaction
  <2> HIDE DEF r
  <2> QED
    BY <1>3, <2>2, <2>3, <2>4, <2>5, StatementStep DEF ResetPassword
<1>4. CASE BurnStart(c)
  <2> DEFINE S == {l \in DOMAIN link : link[l] = tx[c].usr} \ (linkUsed \cup tx[c].burn)
             r == [tx[c] EXCEPT !.pc = "burning", !.targets = S]
  <2>1. tx[c].pc = "sweeping" /\ tx[c].targets = {} /\ S \subseteq Rows
    BY <1>4 DEF IInv, TypeOK, BurnStart, Rows
  <2> HIDE DEF S
  <2>2. r \in Transaction /\ r.new = tx[c].new /\ r.locks = tx[c].locks
    BY <1>1, <2>1 DEF Transaction
  <2>3. Sound(r)
    BY <1>1, <2>1 DEF Transaction, Sound, Doomed
  <2>4. tx' = [tx EXCEPT ![c] = r]
    BY <1>1, <1>4 DEF BurnStart, S
  <2>5. \A d \in Conns \ {c} : r.locks \cap tx[d].locks = {}
    BY <2>2 DEF IInv, LocksExclusive
  <2> HIDE DEF r
  <2> QED
    BY <1>4, <2>2, <2>3, <2>4, <2>5, StatementStep DEF BurnStart
<1> QED
  BY <1>2, <1>3, <1>4

\* Transactions that end and leave the tokens alone.
LEMMA AnswerStep ==
  ASSUME IInv, NEW c \in Conns,
         \/ SignInChallenge(c) \/ RefreshRefused(c) \/ ResetRefused(c)
         \/ StatusCommit(c) \/ Rollback(c)
  PROVE  IInv'
<1>1. End(c) /\ UNCHANGED tokenTable
  BY DEF SignInChallenge, RefreshRefused, ResetRefused, StatusCommit, Rollback
<1>2. tx' \in [Conns -> Transaction]
  BY <1>1, IdleIsSound DEF IInv, TypeOK, End
<1>3. /\ tx[c] \in Transaction /\ Sound(tx[c])
  BY DEF IInv, TypeOK
<1>4. TypeOK'
  <2>1. CASE SignInChallenge(c)
    <3>1. tx[c].usr \in Users /\ tx[c].hash \in Nat
      BY <1>3, <2>1 DEF SignInChallenge, Sound, Transaction
    <3> QED
      BY <1>2, <2>1, <3>1
         DEF IInv, TypeOK, SignInChallenge, Challenge, tokenTable, account, linkTable
  <2>2. CASE RefreshRefused(c) \/ ResetRefused(c) \/ Rollback(c)
    BY <1>2, <2>2 DEF IInv, TypeOK, RefreshRefused, ResetRefused, Rollback,
                      tokenTable, account, linkTable
  <2>3. CASE StatusCommit(c)
    <3>1. tx[c].usr \in Users /\ tx[c].next \in {"active", "disabled"}
      BY <1>3, <2>3 DEF StatusCommit, Sound, Transaction
    <3> QED
      BY <1>2, <2>3, <3>1 DEF IInv, TypeOK, StatusCommit, tokenTable, linkTable
  <2> QED
    BY <2>1, <2>2, <2>3
<1> QED
  BY <1>1, <1>4, EndStep DEF tokenTable

\* A COMMIT that spends, revokes or inserts tokens leaves the transactions of
\* the others sound: the tokens it spends or revokes are locked by it, and the
\* one it inserts is not the one another will insert.
LEMMA CommitStep ==
  ASSUME IInv, TypeOK', NEW c \in Conns, End(c),
         DOMAIN rt \subseteq DOMAIN rt',
         DOMAIN rt' \subseteq DOMAIN rt \cup ({tx[c].new} \ {None}),
         \A t \in DOMAIN rt : rt'[t] = rt[t],
         revoked \subseteq revoked',
         used' \subseteq used \cup tx[c].locks,
         revoked' \subseteq revoked \cup tx[c].locks
  PROVE  /\ LocksExclusive' /\ NewTokensApart'
         /\ (\A d \in Conns : Sound(tx[d]))'
<1>1. /\ tx \in [Conns -> Transaction]
      /\ LocksExclusive /\ NewTokensApart
      /\ \A d \in Conns : Sound(tx[d])
  BY DEF IInv, TypeOK
<1>2. tx'[c] = Idle /\ \A d \in Conns \ {c} : tx'[d] = tx[d]
  BY <1>1 DEF End
<1>3. LocksExclusive'
  BY <1>1, <1>2, IdleIsSound DEF LocksExclusive
<1>4. NewTokensApart'
  BY <1>1, <1>2, IdleIsSound DEF NewTokensApart
<1>5. ASSUME NEW x \in Transaction, Sound(x), x.locks \cap tx[c].locks = {}
      PROVE  Sound(x)'
  <2>1. x.pc = "exchange" => Unspent(x.tok)'
    BY <1>5 DEF Sound, Unspent
  <2> QED
    BY <1>5, <2>1, SoundIsStable
<1>6. (\A d \in Conns : Sound(tx[d]))'
  <2> SUFFICES ASSUME NEW d \in Conns PROVE Sound(tx[d])'
    OBVIOUS
  <2>1. CASE d = c
    <3>1. tx'[d] = Idle
      BY <1>2, <2>1
    <3> QED
      BY <3>1 DEF Idle, Sound, Doomed
  <2>2. CASE d # c
    <3> DEFINE x == tx[d]
    <3>1. x \in Transaction /\ Sound(x) /\ x.locks \cap tx[c].locks = {}
      BY <1>1, <2>2 DEF LocksExclusive
    <3>2. tx'[d] = x
      BY <1>2, <2>2
    <3>3. \A y \in Transaction :
            Sound(y) /\ y.locks \cap tx[c].locks = {} => Sound(y)'
      BY <1>5
    <3> QED
      BY <3>1, <3>2, <3>3 DEF Sound, Doomed, Unspent
  <2> QED
    BY <2>1, <2>2
<1> QED
  BY <1>3, <1>4, <1>6

\* A sign-in commits: the new token is the root of a family of its own.
LEMMA OpenFamilyStep ==
  ASSUME IInv, NEW c \in Conns, SignInIssue(c) \/ VerifyMfaIssue(c)
  PROVE  IInv'
<1> DEFINE n == tx[c].new
           row == [owner |-> tx[c].usr, family |-> n, parent |-> None,
                   signedInWith |-> tx[c].hash]
<1>1. /\ End(c) /\ rt' = Insert(rt, n, row)
      /\ UNCHANGED <<used, revoked, expired, account, linkTable, authEvent, challenge>>
  BY DEF SignInIssue, VerifyMfaIssue, OpenFamily
<1>2. /\ tx[c] \in Transaction /\ tx \in [Conns -> Transaction]
      /\ tx[c].usr \in Users /\ n \in Tokens /\ n # None
      /\ n \notin DOMAIN rt /\ DOMAIN rt \subseteq Tokens
      /\ rt \in [DOMAIN rt -> TokenRow]
  <2>1. Sound(tx[c]) /\ tx[c].pc \in {"signIn", "verify"}
    BY DEF IInv, SignInIssue, VerifyMfaIssue
  <2>2. tx[c].usr \in Users /\ n \in Tokens
    BY <2>1 DEF Sound
  <2>3. n # None /\ n \notin DOMAIN rt
    BY <2>2, SessionsAssumption DEF IInv, NewTokensApart
  <2> QED
    BY <2>2, <2>3 DEF IInv, TypeOK
<1>3. row \in TokenRow
  BY <1>2 DEF TokenRow, Transaction
<1> HIDE DEF n
<1>4. /\ DOMAIN rt' = DOMAIN rt \cup {n} /\ rt'[n] = row
      /\ \A t \in DOMAIN rt : rt'[t] = rt[t]
  BY <1>1, <1>2 DEF Insert
<1>5. TypeOK'
  <2>1. tx' \in [Conns -> Transaction]
    BY <1>1, <1>2, IdleIsSound DEF End
  <2>2. rt' \in [DOMAIN rt' -> TokenRow] /\ DOMAIN rt' \subseteq Tokens
    BY <1>1, <1>2, <1>3, <1>4 DEF Insert
  <2> QED
    BY <1>1, <2>1, <2>2 DEF IInv, TypeOK, account, linkTable
<1>6. /\ LocksExclusive' /\ NewTokensApart'
      /\ (\A d \in Conns : Sound(tx[d]))'
  BY <1>1, <1>2, <1>4, <1>5, CommitStep DEF n
<1>7. used \subseteq DOMAIN rt /\ revoked \subseteq DOMAIN rt
      /\ \A t \in DOMAIN rt : rt[t].family \in DOMAIN rt
                            /\ rt[t].parent \in DOMAIN rt \cup {None}
  BY DEF IInv, ForeignKeys
<1>8. row.family = n /\ row.parent = None
  OBVIOUS
<1> HIDE DEF row
<1>9. ForeignKeys'
  BY <1>1, <1>4, <1>7, <1>8 DEF ForeignKeys
<1>10. OneUnspentPerFamily'
  BY <1>1, <1>2, <1>4, <1>7, <1>8 DEF IInv, OneUnspentPerFamily, Unspent
<1>11. SingleUse'
  BY <1>1, <1>2, <1>4, <1>7, <1>8 DEF IInv, SingleUse
<1>12. RevokedToTheRoot'
  BY <1>1, <1>2, <1>4, <1>7 DEF IInv, RevokedToTheRoot
<1> QED
  BY <1>5, <1>6, <1>9, <1>10, <1>11, <1>12 DEF IInv

\* An exchange commits: the parent is spent in the same step as its only child
\* is inserted.
LEMMA CommitExchangeStep ==
  ASSUME IInv, NEW c \in Conns, CommitExchange(c)
  PROVE  IInv'
<1> DEFINE n == tx[c].new
           t == tx[c].tok
           row == [rt[t] EXCEPT !.parent = t]
<1>1. /\ End(c) /\ rt' = Insert(rt, n, row) /\ used' = used \cup {t}
      /\ UNCHANGED <<revoked, expired, account, linkTable, challenge, authEvent>>
  BY DEF CommitExchange
<1>2. /\ tx[c] \in Transaction /\ tx \in [Conns -> Transaction]
      /\ Unspent(t) /\ t \in tx[c].locks /\ n \in Tokens /\ n # None
      /\ n \notin DOMAIN rt /\ DOMAIN rt \subseteq Tokens
      /\ rt \in [DOMAIN rt -> TokenRow]
  <2>1. Sound(tx[c]) /\ tx[c].pc = "exchange"
    BY DEF IInv, CommitExchange
  <2>2. Unspent(t) /\ t \in tx[c].locks /\ n \in Tokens
    BY <2>1 DEF Sound
  <2>3. n # None /\ n \notin DOMAIN rt
    BY <2>2, SessionsAssumption DEF IInv, NewTokensApart
  <2> QED
    BY <2>2, <2>3 DEF IInv, TypeOK
<1> HIDE DEF n, t
<1>3. t \in DOMAIN rt /\ rt[t] \in TokenRow /\ t # None /\ t \in Tokens
  BY <1>2, SessionsAssumption DEF Unspent
<1>4. /\ row \in TokenRow /\ row.parent = t
      /\ row.family = rt[t].family /\ row.owner = rt[t].owner
  BY <1>3 DEF TokenRow
<1> HIDE DEF row
<1>5. /\ DOMAIN rt' = DOMAIN rt \cup {n} /\ rt'[n] = row
      /\ \A s \in DOMAIN rt : rt'[s] = rt[s]
  BY <1>1, <1>2 DEF Insert
<1>6. TypeOK'
  <2>1. tx' \in [Conns -> Transaction]
    BY <1>1, <1>2, IdleIsSound DEF End
  <2>2. rt' \in [DOMAIN rt' -> TokenRow] /\ DOMAIN rt' \subseteq Tokens
    BY <1>1, <1>2, <1>4, <1>5 DEF Insert
  <2> QED
    BY <1>1, <1>3, <2>1, <2>2 DEF IInv, TypeOK, account, linkTable
<1>7. /\ LocksExclusive' /\ NewTokensApart'
      /\ (\A d \in Conns : Sound(tx[d]))'
  BY <1>1, <1>2, <1>5, <1>6, CommitStep DEF n
<1>8. /\ used \subseteq DOMAIN rt /\ revoked \subseteq DOMAIN rt
      /\ \A s \in DOMAIN rt : rt[s].family \in DOMAIN rt
                            /\ rt[s].parent \in DOMAIN rt \cup {None}
  BY DEF IInv, ForeignKeys
<1>9. ForeignKeys'
  BY <1>1, <1>3, <1>4, <1>5, <1>8 DEF ForeignKeys
<1>10. OneUnspentPerFamily'
  BY <1>1, <1>2, <1>3, <1>4, <1>5, <1>8 DEF IInv, OneUnspentPerFamily, Unspent
<1>11. SingleUse'
  <2>1. \A s \in DOMAIN rt : rt[s].parent # t
    BY <1>2, <1>3 DEF IInv, SingleUse, Unspent
  <2> QED
    BY <1>1, <1>2, <1>3, <1>4, <1>5, <1>8, <2>1 DEF IInv, SingleUse
<1>12. RevokedToTheRoot'
  BY <1>1, <1>2, <1>5, <1>8 DEF IInv, RevokedToTheRoot
<1> QED
  BY <1>6, <1>7, <1>9, <1>10, <1>11, <1>12 DEF IInv

\* A revocation commits: of a family, or of all the sessions of an account.
LEMMA CommitRevocationStep ==
  ASSUME IInv, NEW c \in Conns, CommitRevocation(c) \/ CommitReset(c)
  PROVE  IInv'
<1>1. /\ End(c) /\ UNCHANGED <<rt, used, expired, archived, link, linkExpired, challenge>>
      /\ revoked' = revoked \cup tx[c].revoke
      /\ tx[c].pc \in {"revoking", "burning"}
      /\ tx[c].pc = "revoking" => tx[c].targets = {}
  BY DEF CommitRevocation, CommitReset, account, linkTable
<1>2. /\ tx[c] \in Transaction /\ tx \in [Conns -> Transaction] /\ Sound(tx[c])
  BY DEF IInv, TypeOK
<1>3. /\ tx[c].revoke \subseteq tx[c].locks \cap DOMAIN rt
      /\ Doomed(tx[c]) = tx[c].revoke
      /\ \A t \in tx[c].revoke :
            rt[t].parent # None => rt[t].parent \in tx[c].revoke \cup revoked
  BY <1>1, <1>2 DEF Sound, Doomed
<1>4. tx' \in [Conns -> Transaction] /\ revoked' \subseteq Tokens
  BY <1>1, <1>2, <1>3, IdleIsSound DEF IInv, TypeOK, End
<1>5. TypeOK'
  <2>1. CASE CommitRevocation(c)
    <3>1. tx[c].tok \in DOMAIN rt /\ rt[tx[c].tok].family \in Tokens
      BY <1>2, <2>1 DEF IInv, TypeOK, Sound, CommitRevocation, TokenRow
    <3>2. authEvent' \subseteq AuthEvent
      BY <1>2, <2>1, <3>1 DEF IInv, TypeOK, CommitRevocation, AuthEvent, Transaction
    <3> QED
      BY <1>1, <1>4, <2>1, <3>2 DEF IInv, TypeOK, CommitRevocation, account, linkTable
  <2>2. CASE CommitReset(c)
    <3>1. tx[c].usr \in Users /\ tx[c].burn \subseteq Links
      BY <1>2, <2>2 DEF Sound, CommitReset, Transaction
    <3>2. authEvent' \subseteq AuthEvent
      BY <2>2, <3>1 DEF IInv, TypeOK, CommitReset, AuthEvent
    <3>3. /\ status' \in [Users -> {"active", "disabled"}] /\ cred' \in [Users -> Nat]
          /\ linkUsed' \subseteq Links
      BY <2>2, <3>1 DEF IInv, TypeOK, CommitReset
    <3>4. redeemed' \in [Links -> Nat] /\ retired' \subseteq Links
      <4>1. /\ redeemed' = [redeemed EXCEPT ![tx[c].lnk] = redeemed[tx[c].lnk] + 1]
            /\ retired' = retired \cup tx[c].others
        BY <2>2 DEF CommitReset
      <4>2. redeemed \in [Links -> Nat] /\ retired \subseteq Links
        BY DEF IInv, TypeOK
      <4>3. tx[c].others \subseteq Links
        BY <1>2 DEF Transaction
      <4>4. CASE tx[c].lnk \in Links
        <5>1. redeemed[tx[c].lnk] + 1 \in Nat
          BY <4>2, <4>4
        <5> QED
          BY <4>1, <4>2, <4>3, <5>1
      <4>5. CASE tx[c].lnk \notin Links
        <5>1. redeemed' = redeemed
          BY <4>1, <4>2, <4>5
        <5> QED
          BY <4>1, <4>2, <4>3, <5>1
      <4> QED
        BY <4>4, <4>5
    <3>5. UNCHANGED <<used, expired, archived, link, linkExpired, challenge>>
      BY <2>2 DEF CommitReset
    <3> QED
      BY <1>1, <1>4, <3>2, <3>3, <3>4, <3>5 DEF IInv, TypeOK
  <2> QED
    BY <2>1, <2>2
<1>6. /\ LocksExclusive' /\ NewTokensApart'
      /\ (\A d \in Conns : Sound(tx[d]))'
  BY <1>1, <1>3, <1>5, CommitStep
<1>7. ForeignKeys'
  BY <1>1, <1>3 DEF IInv, ForeignKeys
<1>8. OneUnspentPerFamily' /\ SingleUse'
  BY <1>1 DEF IInv, OneUnspentPerFamily, SingleUse, Unspent
<1>9. RevokedToTheRoot'
  BY <1>1, <1>3 DEF IInv, RevokedToTheRoot
<1> QED
  BY <1>5, <1>6, <1>7, <1>8, <1>9 DEF IInv

-----------------------------------------------------------------------------
\* Every step preserves the invariant.
THEOREM Inductive == IInv /\ [Next]_vars => IInv'
<1> SUFFICES ASSUME IInv, [Next]_vars PROVE IInv'
  OBVIOUS
<1>1. ASSUME NEW c \in Conns, Step(c) PROVE IInv'
  <2>1. CASE SignInIssue(c) \/ VerifyMfaIssue(c)
    BY <2>1, OpenFamilyStep
  <2>2. CASE SignInChallenge(c) \/ RefreshRefused(c) \/ ResetRefused(c) \/ StatusCommit(c)
    BY <2>2, AnswerStep
  <2>3. CASE RefreshReplayed(c) \/ RefreshInactive(c) \/ RefreshExchange(c)
    BY <2>3, HoldTokenStep
  <2>4. CASE CommitExchange(c)
    BY <2>4, CommitExchangeStep
  <2>5. CASE RevokeStart(c)
    BY <2>5, RevokeStartStep
  <2>6. CASE \E t \in Tokens : RevokeRow(c, t)
    BY <2>6, RevokeRowStep
  <2>7. CASE CommitRevocation(c) \/ CommitReset(c)
    BY <2>7, CommitRevocationStep
  <2>8. CASE ResetAccepted(c) \/ ResetPassword(c) \/ BurnStart(c)
    BY <2>8, RedeemStep
  <2>9. CASE SweepStart(c)
    BY <2>9, SweepStartStep
  <2>10. CASE \E l \in Links : BurnRow(c, l)
    BY <2>10, BurnRowStep
  <2> QED
    BY <1>1, <2>1, <2>2, <2>3, <2>4, <2>5, <2>6, <2>7, <2>8, <2>9, <2>10 DEF Step
<1>2. CASE Environment
  BY <1>2, EnvironmentStep
<1>3. ASSUME NEW c \in Conns, Request(c) \/ Rollback(c) PROVE IInv'
  BY <1>3, RequestStep, AnswerStep
<1>4. CASE UNCHANGED vars
  <2>1. TypeOK'
    BY <1>4 DEF IInv, TypeOK, vars, tokenTable, account, linkTable
  <2> QED
    BY <1>4, <2>1, ClockStep DEF vars, tokenTable
<1> QED
  BY <1>1, <1>2, <1>3, <1>4 DEF Next

\* The tables and the transactions are always in the states described by IInv.
THEOREM Invariance == Spec => []IInv
<1> QED
  BY InitIInv, Inductive, PTL DEF Spec

\* Columns and transactions keep their types.
THEOREM TypeCorrect == Spec => []TypeOK
<1>1. IInv => TypeOK
  BY DEF IInv
<1> QED
  BY <1>1, Invariance, PTL

\* No two tokens of a family can be exchanged (rotateRefreshToken).
THEOREM UnspentIsUnique == Spec => []OneUnspentPerFamily
<1>1. IInv => OneUnspentPerFamily
  BY DEF IInv
<1> QED
  BY <1>1, Invariance, PTL

\* A token is exchanged for at most one other (rotateRefreshToken).
THEOREM TokensAreSingleUse == Spec => []SingleUse
<1>1. IInv => SingleUse
  BY DEF IInv
<1> QED
  BY <1>1, Invariance, PTL

\* A revoked token has no unrevoked ancestor (revokeRefreshTokenFamily).
THEOREM RevocationReachesTheRoot == Spec => []RevokedToTheRoot
<1>1. IInv => RevokedToTheRoot
  BY DEF IInv
<1> QED
  BY <1>1, Invariance, PTL

-----------------------------------------------------------------------------
\* Sessions implements SessionChain.

\* The exchangeable tokens of session f, as SessionChain sees them.
LiveOf(f) == {t \in Tokens : Unspent(t) /\ rt[t].family = f}

LEMMA LiveChain ==
  ASSUME IInv, IInv',
         UNCHANGED <<rt, used, revoked>>
  PROVE  UNCHANGED Chain!vars
  BY DEF Chain!vars, Unspent

\* A sign-in opens a session.
LEMMA OpensSession ==
  ASSUME IInv, NEW c \in Conns, SignInIssue(c) \/ VerifyMfaIssue(c)
  PROVE  Chain!Next
<1>1. /\ tx[c].new \in Tokens /\ tx[c].new \notin DOMAIN rt
      /\ used \subseteq DOMAIN rt /\ revoked \subseteq DOMAIN rt
      /\ \A t \in DOMAIN rt : rt[t].family \in DOMAIN rt
  <2>1. Sound(tx[c]) /\ tx[c].pc \in {"signIn", "verify"}
    BY DEF IInv, SignInIssue, VerifyMfaIssue
  <2>2. tx[c].new \in Tokens
    BY <2>1 DEF Sound
  <2>3. tx[c].new \notin DOMAIN rt
    BY <2>2, SessionsAssumption DEF IInv, NewTokensApart
  <2> QED
    BY <2>2, <2>3 DEF IInv, ForeignKeys
<1>2. PICK n \in Tokens : n = tx[c].new
  BY <1>1
<1>3. PICK row : row.family = n /\ rt' = Insert(rt, n, row)
  <2> DEFINE row == [owner |-> tx[c].usr, family |-> n, parent |-> None,
                     signedInWith |-> tx[c].hash]
  <2>1. row.family = n /\ rt' = Insert(rt, n, row)
    BY <1>2 DEF SignInIssue, VerifyMfaIssue, OpenFamily
  <2> QED
    BY <2>1
<1>4. /\ DOMAIN rt' = DOMAIN rt \cup {n} /\ rt'[n] = row
      /\ \A t \in DOMAIN rt : rt'[t] = rt[t]
      /\ UNCHANGED <<used, revoked>>
  BY <1>1, <1>2, <1>3 DEF Insert, SignInIssue, VerifyMfaIssue, OpenFamily
<1>5. \A f \in Tokens \ {n} : LiveOf(f)' = LiveOf(f)
  BY <1>1, <1>2, <1>3, <1>4 DEF LiveOf, Unspent
<1>6. LiveOf(n)' = {n}
  BY <1>1, <1>2, <1>3, <1>4 DEF LiveOf, Unspent
<1>7. Chain!Open(n)
  <2>1. n \notin DOMAIN rt
    BY <1>1, <1>2
  <2>2. [f \in Tokens |-> LiveOf(f)]' = [[f \in Tokens |-> LiveOf(f)] EXCEPT ![n] = {n}]
    BY <1>5, <1>6
  <2> QED
    BY <1>4, <2>1, <2>2 DEF Chain!Open, LiveOf
<1> QED
  BY <1>7 DEF Chain!Next

\* An exchange hands the session on: OneUnspentPerFamily says that the parent
\* was its only token.
LEMMA HandsSessionOn ==
  ASSUME IInv, NEW c \in Conns, CommitExchange(c)
  PROVE  Chain!Next
<1>1. /\ tx[c].new \in Tokens /\ tx[c].new \notin DOMAIN rt
      /\ tx[c].tok \in Tokens /\ Unspent(tx[c].tok)
      /\ used \subseteq DOMAIN rt /\ revoked \subseteq DOMAIN rt
      /\ \A t \in DOMAIN rt : rt[t].family \in Tokens /\ rt[t] \in TokenRow
  <2>1. Sound(tx[c]) /\ tx[c].pc = "exchange"
    BY DEF IInv, CommitExchange
  <2>2. tx[c].new \in Tokens /\ Unspent(tx[c].tok)
    BY <2>1 DEF Sound
  <2>3. tx[c].new \notin DOMAIN rt
    BY <2>2, SessionsAssumption DEF IInv, NewTokensApart
  <2>4. /\ DOMAIN rt \subseteq Tokens /\ \A t \in DOMAIN rt : rt[t] \in TokenRow
    BY DEF IInv, TypeOK
  <2>5. used \subseteq DOMAIN rt /\ revoked \subseteq DOMAIN rt
    BY DEF IInv, ForeignKeys
  <2>6. \A t \in DOMAIN rt : rt[t].family \in Tokens
    BY <2>4 DEF TokenRow
  <2>7. tx[c].tok \in Tokens
    BY <2>2, <2>4 DEF Unspent
  <2> QED
    BY <2>2, <2>3, <2>4, <2>5, <2>6, <2>7
<1>2. PICK n, t \in Tokens : n = tx[c].new /\ t = tx[c].tok
  BY <1>1
<1>3. PICK f \in Tokens : f = rt[t].family
  BY <1>1, <1>2 DEF Unspent
<1>4. PICK row : row.family = f /\ rt' = Insert(rt, n, row)
  <2>1. rt[t] \in TokenRow
    BY <1>1, <1>2 DEF Unspent
  <2>2. [rt[t] EXCEPT !.parent = t].family = f
    BY <1>3, <2>1 DEF TokenRow
  <2> QED
    BY <1>2, <2>2 DEF CommitExchange
<1>5. /\ DOMAIN rt' = DOMAIN rt \cup {n} /\ rt'[n] = row
      /\ \A s \in DOMAIN rt : rt'[s] = rt[s]
      /\ used' = used \cup {t} /\ revoked' = revoked
  BY <1>1, <1>2, <1>4 DEF Insert, CommitExchange
<1>6. LiveOf(f) = {t}
  BY <1>1, <1>2, <1>3 DEF IInv, OneUnspentPerFamily, LiveOf, Unspent
<1>7. LiveOf(f)' = (LiveOf(f) \cup {n}) \ {t}
  BY <1>1, <1>2, <1>4, <1>5 DEF LiveOf, Unspent
<1>8. \A g \in Tokens \ {f} : LiveOf(g)' = LiveOf(g)
  BY <1>1, <1>2, <1>3, <1>4, <1>5 DEF LiveOf, Unspent
<1>9. LiveOf(f)' = {n}
  BY <1>1, <1>2, <1>6, <1>7 DEF Unspent
<1> DEFINE L == [g \in Tokens |-> LiveOf(g)]
<1>10. L[f] = {t} /\ L' = [L EXCEPT ![f] = {n}]
  BY <1>6, <1>8, <1>9
<1>11. Chain!Exchange(f, t, n)
  BY <1>1, <1>2, <1>5, <1>10 DEF Chain!Exchange, LiveOf
<1> QED
  BY <1>11 DEF Chain!Next

\* A revocation takes the only token of the sessions it reaches.
LEMMA EndsSessions ==
  ASSUME IInv, NEW c \in Conns, CommitRevocation(c) \/ CommitReset(c)
  PROVE  Chain!Next
<1>1. UNCHANGED <<rt, used>> /\ revoked \subseteq revoked'
  BY DEF CommitRevocation, CommitReset
<1>2. PICK F \in SUBSET Tokens : F = {f \in Tokens : LiveOf(f)' # LiveOf(f)}
  OBVIOUS
<1>3. \A f \in F : LiveOf(f)' = {}
  BY <1>1, <1>2 DEF IInv, OneUnspentPerFamily, LiveOf, Unspent
<1>4. Chain!EndSessions(F)
  BY <1>1, <1>2, <1>3 DEF Chain!EndSessions, LiveOf
<1> QED
  BY <1>4 DEF Chain!Next

\* Whatever races, callers see a session with at most one exchangeable token,
\* handed on by exchanges and never back once it has ended: every step of the
\* requests maps to a step of SessionChain or to a stutter.
THEOREM SessionsImplementChain == Spec => ImplementsChain
<1>1. Init => Chain!Init
  BY DEF Init, Chain!Init, Unspent
<1>2. IInv /\ IInv' /\ [Next]_vars => [Chain!Next]_(Chain!vars)
  <2> SUFFICES ASSUME IInv, IInv', [Next]_vars
               PROVE  Chain!Next \/ UNCHANGED Chain!vars
    OBVIOUS
  <2>1. ASSUME NEW c \in Conns, Step(c) PROVE Chain!Next \/ UNCHANGED Chain!vars
    <3>1. CASE SignInIssue(c) \/ VerifyMfaIssue(c)
      BY <3>1, OpensSession
    <3>2. CASE CommitExchange(c)
      BY <3>2, HandsSessionOn
    <3>3. CASE CommitRevocation(c) \/ CommitReset(c)
      BY <3>3, EndsSessions
    <3>4. \/ UNCHANGED <<rt, used, revoked>>
          \/ SignInIssue(c) \/ VerifyMfaIssue(c) \/ CommitExchange(c)
          \/ CommitRevocation(c) \/ CommitReset(c)
      BY <2>1 DEF Step, SignInChallenge, RefreshReplayed, RefreshRefused,
         RefreshInactive, RefreshExchange, RevokeStart, RevokeRow, ResetRefused,
         ResetAccepted, ResetPassword, SweepStart, BurnStart, BurnRow,
         StatusCommit, tokenTable
    <3> QED
      BY <3>1, <3>2, <3>3, <3>4, LiveChain
  <2>2. CASE Environment
    <3>1. UNCHANGED <<rt, used, revoked>>
      BY <2>2 DEF Environment, ChallengeExpires, RequestReset, TokenExpires,
         LinkExpires, ArchiveTenant, RestoreTenant, tokenTable
    <3> QED
      BY <3>1, LiveChain
  <2>3. ASSUME NEW c \in Conns, Request(c) \/ Rollback(c)
        PROVE  UNCHANGED <<rt, used, revoked>>
    BY <2>3 DEF Request, SignInSelect, VerifyMfaSelect, RefreshSelect, LogoutSelect,
       ResetSelect, StatusSelect, Rollback, tokenTable
  <2>4. CASE UNCHANGED vars
    <3>1. UNCHANGED <<rt, used, revoked>>
      BY <2>4 DEF vars, tokenTable
    <3> QED
      BY <3>1, LiveChain
  <2> QED
    BY <2>1, <2>2, <2>3, <2>4, LiveChain DEF Next
<1> QED
  BY <1>1, <1>2, Invariance, PTL DEF Spec, ImplementsChain, Chain!Spec

\* A session that has ended stays ended: opening takes a token nobody has seen,
\* and only an exchangeable token can be exchanged.
LEMMA ChainStaysEnded ==
  ASSUME TypeOK, Chain!Next
  PROVE  \A f \in DOMAIN rt : LiveOf(f) = {} => LiveOf(f)' = {}
<1> DEFINE L == [f \in Tokens |-> LiveOf(f)]
<1>1. DOMAIN rt \subseteq Tokens /\ \A f \in Tokens : L[f] = LiveOf(f) /\ L'[f] = LiveOf(f)'
  BY DEF TypeOK
<1>2. ASSUME NEW t \in Tokens, Chain!Open(t)
      PROVE  t \notin DOMAIN rt /\ L' = [L EXCEPT ![t] = {t}]
  BY <1>2 DEF Chain!Open, LiveOf
<1>3. ASSUME NEW f \in Tokens, NEW t \in Tokens, NEW n \in Tokens, Chain!Exchange(f, t, n)
      PROVE  L[f] = {t} /\ L' = [L EXCEPT ![f] = {n}]
  BY <1>3 DEF Chain!Exchange, LiveOf
<1>4. ASSUME NEW F \in SUBSET Tokens, Chain!EndSessions(F)
      PROVE  L' = [f \in Tokens |-> IF f \in F THEN {} ELSE L[f]]
  BY <1>4 DEF Chain!EndSessions, LiveOf
<1> SUFFICES ASSUME NEW f \in DOMAIN rt, L[f] = {}
             PROVE  L'[f] = {}
  BY <1>1
<1>5. f \in Tokens /\ DOMAIN L = Tokens
  BY <1>1
<1> HIDE DEF L
<1> QED
  BY <1>2, <1>3, <1>4, <1>5 DEF Chain!Next

\* Who is signed out stays signed out: once a session has no exchangeable token,
\* no exchange, sign-in or overtaking request ever gives it one (US-023).
THEOREM SessionsEndForGood == Spec => Chain!EndedForGood
<1>1. TypeOK /\ Chain!Next => Chain!NoneReturns
  BY ChainStaysEnded DEF TypeOK, LiveOf, Chain!NoneReturns
<1> QED
  BY <1>1, TypeCorrect, SessionsImplementChain, PTL
  DEF ImplementsChain, Chain!Spec, Chain!EndedForGood

-----------------------------------------------------------------------------
(***************************************************************************)
(* Reset links: one sets a password at most once, and burns every other    *)
(* link its account had then, for every set of users, links and            *)
(* connections.  LinkIInv is IInv and what holds of redemptions: the link  *)
(* is locked and unburnt from its check to the commit, and so are the      *)
(* others from the moment they are visited.                                *)
(***************************************************************************)
\* A step that changes one transaction and no reset link.
LEMMA LinksLocalStep ==
  ASSUME LinkIInv, IInv', UNCHANGED <<link, linkUsed, redeemed, retired>>,
         NEW c \in Conns, NEW r,
         tx' = [tx EXCEPT ![c] = r],
         RedemptionSound(r)
  PROVE  LinkIInv'
<1>1. tx'[c] = r /\ \A d \in Conns \ {c} : tx'[d] = tx[d]
  BY DEF LinkIInv, IInv, TypeOK
<1>2. \A d \in Conns : RedemptionSound(tx[d])'
  <2> SUFFICES ASSUME NEW d \in Conns PROVE RedemptionSound(tx[d])'
    OBVIOUS
  <2>1. RedemptionSound(tx'[d])
    BY <1>1 DEF LinkIInv
  <2> QED
    BY <2>1 DEF RedemptionSound, Redeeming
<1> QED
  BY <1>2 DEF LinkIInv, RedemptionBurnsTheRest

\* A transaction that has nothing to do with reset links.
LEMMA OtherStep ==
  ASSUME LinkIInv, IInv', UNCHANGED <<link, linkUsed, redeemed, retired>>,
         NEW c \in Conns, NEW r,
         tx' = [tx EXCEPT ![c] = r],
         r.pc \notin {"redeem", "password", "sweep", "sweeping", "burning"},
         r.burn = {}, r.others = {}
  PROVE  LinkIInv'
<1>1. RedemptionSound(r)
  BY DEF RedemptionSound, Redeeming
<1> QED
  BY <1>1, LinksLocalStep

LEMMA EndsStep ==
  ASSUME LinkIInv, IInv', UNCHANGED <<link, linkUsed, redeemed, retired>>, NEW c \in Conns, End(c)
  PROVE  LinkIInv'
<1> DEFINE r == Idle
<1>1. tx' = [tx EXCEPT ![c] = r]
  BY DEF End
<1>2. r.pc = "idle" /\ r.burn = {} /\ r.others = {}
  BY DEF Idle
<1> HIDE DEF r
<1> QED
  BY <1>1, <1>2, OtherStep

THEOREM InitLinkIInv == Init => LinkIInv
<1> SUFFICES ASSUME Init PROVE LinkIInv
  OBVIOUS
<1>1. IInv
  BY InitIInv
<1>2. \A c \in Conns : RedemptionSound(tx[c])
  BY DEF Init, Idle, RedemptionSound, Redeeming
<1> QED
  BY <1>1, <1>2 DEF Init, LinkIInv, RedemptionBurnsTheRest

-----------------------------------------------------------------------------
\* The steps of a redemption.

LEMMA ResetSelectStep ==
  ASSUME LinkIInv, IInv', NEW c \in Conns, NEW l \in Links, ResetSelect(c, l)
  PROVE  LinkIInv'
<1> DEFINE r == [Idle EXCEPT !.pc = "redeem", !.lnk = l, !.usr = link[l],
                             !.live = Usable(link[l])]
<1>1. tx' = [tx EXCEPT ![c] = r] /\ UNCHANGED <<link, linkUsed, redeemed, retired>> /\ l \in DOMAIN link
  BY DEF ResetSelect, Begin, linkTable
<1>2. r.pc = "redeem" /\ r.lnk = l /\ r.usr = link[l] /\ r.burn = {} /\ r.others = {}
  BY DEF Idle
<1> HIDE DEF r
<1>3. RedemptionSound(r)
  BY <1>1, <1>2 DEF RedemptionSound, Redeeming
<1> QED
  BY <1>1, <1>3, LinksLocalStep

\* The link passed its check, so it is not burnt, and is locked from here on.
LEMMA ResetAcceptedStep ==
  ASSUME LinkIInv, IInv', NEW c \in Conns, ResetAccepted(c)
  PROVE  LinkIInv'
<1> DEFINE r == [tx[c] EXCEPT !.pc = "password", !.locks = {tx[c].lnk}]
<1>1. tx[c] \in Transaction /\ RedemptionSound(tx[c])
  BY DEF LinkIInv, IInv, TypeOK
<1>2. tx' = [tx EXCEPT ![c] = r] /\ UNCHANGED <<link, linkUsed, redeemed, retired>>
  BY DEF ResetAccepted, linkTable, LinkIInv, IInv, TypeOK
<1>3. r.pc = "password" /\ r.lnk = tx[c].lnk /\ r.usr = tx[c].usr
      /\ r.burn = tx[c].burn /\ r.others = tx[c].others /\ r.locks = {tx[c].lnk}
  BY <1>1 DEF Transaction
<1> HIDE DEF r
<1>4. RedemptionSound(r)
  BY <1>1, <1>3 DEF RedemptionSound, Redeeming, ResetAccepted, Redeemable
<1> QED
  BY <1>2, <1>4, LinksLocalStep

LEMMA ResetPasswordStep ==
  ASSUME LinkIInv, IInv', NEW c \in Conns, ResetPassword(c)
  PROVE  LinkIInv'
<1> DEFINE A == {l \in DOMAIN link : link[l] = tx[c].usr}
<1> DEFINE r == [tx[c] EXCEPT !.pc = "sweep", !.locks = @ \cup {tx[c].usr},
                              !.burn = {tx[c].lnk}, !.others = A]
<1>1. tx[c] \in Transaction /\ RedemptionSound(tx[c]) /\ tx[c].pc = "password"
  BY DEF LinkIInv, IInv, TypeOK, ResetPassword
<1>2. tx' = [tx EXCEPT ![c] = r] /\ UNCHANGED <<link, linkUsed, redeemed, retired>>
  BY DEF ResetPassword, linkTable, LinkIInv, IInv, TypeOK
<1>3. r.pc = "sweep" /\ r.lnk = tx[c].lnk /\ r.usr = tx[c].usr
      /\ r.burn = {tx[c].lnk} /\ r.others = A
      /\ r.locks = tx[c].locks \cup {tx[c].usr}
  BY <1>1 DEF Transaction
<1> HIDE DEF r
<1>4. RedemptionSound(r)
  BY <1>1, <1>3 DEF RedemptionSound, Redeeming
<1> QED
  BY <1>2, <1>4, LinksLocalStep

LEMMA SweepStep ==
  ASSUME LinkIInv, IInv', NEW c \in Conns, SweepStart(c)
  PROVE  LinkIInv'
<1> DEFINE r == [tx[c] EXCEPT !.pc = "sweeping",
                              !.targets = OwnedBy(tx[c].usr) \ revoked]
<1>1. tx[c] \in Transaction /\ RedemptionSound(tx[c]) /\ tx[c].pc = "sweep"
  BY DEF LinkIInv, IInv, TypeOK, SweepStart
<1>2. tx' = [tx EXCEPT ![c] = r] /\ UNCHANGED <<link, linkUsed, redeemed, retired>>
  BY DEF SweepStart, linkTable, LinkIInv, IInv, TypeOK
<1>3. r.pc = "sweeping" /\ r.lnk = tx[c].lnk /\ r.usr = tx[c].usr
      /\ r.burn = tx[c].burn /\ r.others = tx[c].others /\ r.locks = tx[c].locks
  BY <1>1 DEF Transaction
<1> HIDE DEF r
<1>4. RedemptionSound(r)
  BY <1>1, <1>3 DEF RedemptionSound, Redeeming
<1> QED
  BY <1>2, <1>4, LinksLocalStep

\* The statement visits tokens: of a reset, or of a family.
LEMMA VisitTokenStep ==
  ASSUME LinkIInv, IInv', NEW c \in Conns, NEW t \in Tokens, RevokeRow(c, t)
  PROVE  LinkIInv'
<1> DEFINE r == [tx[c] EXCEPT !.targets = @ \ {t}, !.locks = @ \cup {t},
                              !.revoke = @ \cup ({t} \ revoked)]
<1>1. tx[c] \in Transaction /\ RedemptionSound(tx[c]) /\ tx[c].pc \in {"revoking", "sweeping"}
  BY DEF LinkIInv, IInv, TypeOK, RevokeRow
<1>2. tx' = [tx EXCEPT ![c] = r] /\ UNCHANGED <<link, linkUsed, redeemed, retired>>
  BY DEF RevokeRow, linkTable, LinkIInv, IInv, TypeOK
<1>3. r.pc = tx[c].pc /\ r.lnk = tx[c].lnk /\ r.usr = tx[c].usr
      /\ r.burn = tx[c].burn /\ r.others = tx[c].others
      /\ r.locks = tx[c].locks \cup {t}
  BY <1>1 DEF Transaction
<1> HIDE DEF r
<1>4. RedemptionSound(r)
  BY <1>1, <1>3 DEF RedemptionSound, Redeeming
<1> QED
  BY <1>2, <1>4, LinksLocalStep

LEMMA BurnStartStep ==
  ASSUME LinkIInv, IInv', NEW c \in Conns, BurnStart(c)
  PROVE  LinkIInv'
<1> DEFINE S == {l \in DOMAIN link : link[l] = tx[c].usr} \ (linkUsed \cup tx[c].burn)
<1> DEFINE r == [tx[c] EXCEPT !.pc = "burning", !.targets = S]
<1>1. tx[c] \in Transaction /\ RedemptionSound(tx[c]) /\ tx[c].pc = "sweeping"
  BY DEF LinkIInv, IInv, TypeOK, BurnStart
<1>2. tx' = [tx EXCEPT ![c] = r] /\ UNCHANGED <<link, linkUsed, redeemed, retired>>
  BY DEF BurnStart, linkTable, LinkIInv, IInv, TypeOK
<1>3. r.pc = "burning" /\ r.lnk = tx[c].lnk /\ r.usr = tx[c].usr
      /\ r.burn = tx[c].burn /\ r.others = tx[c].others /\ r.locks = tx[c].locks
      /\ r.targets = S
  BY <1>1 DEF Transaction
<1> HIDE DEF r
<1>4. RedemptionSound(r)
  BY <1>1, <1>3 DEF RedemptionSound, Redeeming
<1> QED
  BY <1>2, <1>4, LinksLocalStep

LEMMA VisitLinkStep ==
  ASSUME LinkIInv, IInv', NEW c \in Conns, NEW l \in Links, BurnRow(c, l)
  PROVE  LinkIInv'
<1> DEFINE r == [tx[c] EXCEPT !.targets = @ \ {l}, !.locks = @ \cup {l},
                              !.burn = @ \cup ({l} \ linkUsed)]
<1>1. tx[c] \in Transaction /\ RedemptionSound(tx[c]) /\ tx[c].pc = "burning"
      /\ l \in tx[c].targets
  BY DEF LinkIInv, IInv, TypeOK, BurnRow
<1>2. tx' = [tx EXCEPT ![c] = r] /\ UNCHANGED <<link, linkUsed, redeemed, retired>>
  BY DEF BurnRow, linkTable, LinkIInv, IInv, TypeOK
<1>3. r.pc = "burning" /\ r.lnk = tx[c].lnk /\ r.usr = tx[c].usr
      /\ r.burn = tx[c].burn \cup ({l} \ linkUsed) /\ r.locks = tx[c].locks \cup {l}
      /\ r.targets = tx[c].targets \ {l} /\ r.others = tx[c].others
  BY <1>1 DEF Transaction
<1> HIDE DEF r
<1>4. RedemptionSound(r)
  BY <1>1, <1>3 DEF RedemptionSound, Redeeming
<1> QED
  BY <1>2, <1>4, LinksLocalStep

\* The commit burns the link it was redeemed with, which nobody burnt before
\* because its row was locked, and every other link it found.
LEMMA CommitResetStep ==
  ASSUME LinkIInv, IInv', NEW c \in Conns, CommitReset(c)
  PROVE  LinkIInv' /\ \A l \in Links : SpendsLink(l)
<1> DEFINE k == tx[c].lnk
<1>1. /\ tx[c].pc = "burning" /\ tx[c].targets = {} /\ RedemptionSound(tx[c])
      /\ tx \in [Conns -> Transaction] /\ redeemed \in [Links -> Nat]
  BY DEF CommitReset, LinkIInv, IInv, TypeOK
<1>2. /\ linkUsed' = linkUsed \cup tx[c].burn /\ link' = link
      /\ redeemed' = [redeemed EXCEPT ![k] = redeemed[k] + 1]
      /\ retired' = retired \cup tx[c].others /\ tx' = [tx EXCEPT ![c] = Idle]
  BY DEF CommitReset, End
<1>3. /\ k \in tx[c].burn \ linkUsed /\ tx[c].burn \subseteq DOMAIN link
      /\ tx[c].others \subseteq linkUsed'
  BY <1>1, <1>2 DEF RedemptionSound, Redeeming
<1>4. linkUsed' \subseteq DOMAIN link' /\ RedemptionBurnsTheRest'
  BY <1>2, <1>3 DEF LinkIInv, RedemptionBurnsTheRest
<1>5. (\A d \in Conns : RedemptionSound(tx[d]))'
  <2> SUFFICES ASSUME NEW d \in Conns PROVE RedemptionSound(tx[d])'
    OBVIOUS
  <2>1. CASE d = c
    <3>1. tx'[d] = Idle
      BY <1>1, <1>2, <2>1
    <3> QED
      BY <3>1 DEF Idle, RedemptionSound, Redeeming
  <2>2. CASE d # c
    <3>1. tx'[d] = tx[d] /\ RedemptionSound(tx[d])
      BY <1>1, <1>2, <2>2 DEF LinkIInv
    <3>2. tx[d].locks \cap tx[c].burn = {}
      BY <1>1, <2>2 DEF LinkIInv, IInv, LocksExclusive, RedemptionSound
    <3> QED
      BY <1>2, <3>1, <3>2 DEF RedemptionSound, Redeeming
  <2> QED
    BY <2>1, <2>2
<1>6. \A l \in Links : redeemed'[l] # 0 => l \in linkUsed'
  BY <1>1, <1>2, <1>3 DEF LinkIInv
<1>7. \A l \in Links : SpendsLink(l)
  BY <1>1, <1>2, <1>3 DEF LinkIInv, RedemptionBurnsTheRest, SpendsLink
<1> QED
  BY <1>4, <1>5, <1>6, <1>7 DEF LinkIInv

\* A new link is nobody's and not burnt.
LEMMA RequestResetStep ==
  ASSUME LinkIInv, IInv', NEW u \in Users, RequestReset(u)
  PROVE  LinkIInv'
<1>1. PICK l \in Links \ DOMAIN link : link' = Insert(link, l, u)
  BY DEF RequestReset
<1>2. DOMAIN link' = DOMAIN link \cup {l} /\ \A k \in DOMAIN link : link'[k] = link[k]
  BY <1>1 DEF Insert
<1>3. UNCHANGED <<linkUsed, redeemed, retired, tx>>
  BY DEF RequestReset
<1>4. (\A c \in Conns : RedemptionSound(tx[c]))'
  BY <1>2, <1>3 DEF LinkIInv, RedemptionSound, Redeeming
<1> QED
  BY <1>2, <1>3, <1>4 DEF LinkIInv, RedemptionBurnsTheRest

-----------------------------------------------------------------------------
\* The steps of the other requests.

LEMMA OtherRequestStep ==
  ASSUME LinkIInv, IInv', NEW c \in Conns, Request(c),
         ~ \E l \in Links : ResetSelect(c, l)
  PROVE  LinkIInv'
<1>1. UNCHANGED <<link, linkUsed, redeemed, retired>>
  BY DEF Request, SignInSelect, VerifyMfaSelect, RefreshSelect, LogoutSelect,
         StatusSelect, linkTable
<1>2. tx \in [Conns -> Transaction]
  BY DEF LinkIInv, IInv, TypeOK
<1>3. /\ tx' = [tx EXCEPT ![c] = tx'[c]]
      /\ tx'[c].pc \in {"signIn", "verify", "lock", "revoke", "status"}
      /\ tx'[c].burn = {} /\ tx'[c].others = {}
  <2>1. CASE \E u \in Users : SignInSelect(c, u)
    BY <1>2, <2>1 DEF SignInSelect, Begin, Idle
  <2>2. CASE \E ch \in challenge : VerifyMfaSelect(c, ch)
    BY <1>2, <2>2 DEF VerifyMfaSelect, Begin, Idle
  <2>3. CASE \E t \in Tokens : RefreshSelect(c, t)
    BY <1>2, <2>3 DEF RefreshSelect, Begin, Idle
  <2>4. CASE \E t \in Tokens : LogoutSelect(c, t)
    BY <1>2, <2>4 DEF LogoutSelect, Begin, Idle
  <2>5. CASE \E u \in Users, s \in {"active", "disabled"} : StatusSelect(c, u, s)
    BY <1>2, <2>5 DEF StatusSelect, Begin, Idle
  <2> QED
    BY <2>1, <2>2, <2>3, <2>4, <2>5 DEF Request
<1> QED
  BY <1>1, <1>3, OtherStep

\* Statements of sign-in, exchange and sign-out.
LEMMA OtherStatementStep ==
  ASSUME LinkIInv, IInv', NEW c \in Conns,
         \/ RefreshReplayed(c) \/ RefreshInactive(c) \/ RefreshExchange(c)
         \/ RevokeStart(c)
  PROVE  LinkIInv'
<1>1. tx[c] \in Transaction /\ RedemptionSound(tx[c]) /\ tx \in [Conns -> Transaction]
  BY DEF LinkIInv, IInv, TypeOK
<1>2. UNCHANGED <<link, linkUsed, redeemed, retired>> /\ tx[c].pc \in {"lock", "revoke"}
  BY DEF RefreshReplayed, RefreshInactive, RefreshExchange, Exchangeable, Locked,
         RevokeStart, linkTable
<1>3. tx' = [tx EXCEPT ![c] = tx'[c]]
      /\ tx'[c].burn = tx[c].burn /\ tx'[c].others = tx[c].others
      /\ tx'[c].pc \in {"revoke", "exchange", "revoking"}
  BY <1>1 DEF RefreshReplayed, RefreshInactive, RefreshExchange, HoldToken,
              RevokeStart, Transaction
<1>4. tx[c].burn = {} /\ tx[c].others = {}
  BY <1>1, <1>2 DEF RedemptionSound
<1> QED
  BY <1>2, <1>3, <1>4, OtherStep

LEMMA OtherCommitStep ==
  ASSUME LinkIInv, IInv', NEW c \in Conns,
         \/ SignInIssue(c) \/ SignInChallenge(c) \/ VerifyMfaIssue(c)
         \/ RefreshRefused(c) \/ CommitExchange(c) \/ CommitRevocation(c)
         \/ ResetRefused(c) \/ StatusCommit(c) \/ Rollback(c)
  PROVE  LinkIInv'
<1>1. End(c)
  BY DEF SignInIssue, SignInChallenge, VerifyMfaIssue, OpenFamily, RefreshRefused,
         CommitExchange, CommitRevocation, ResetRefused, StatusCommit, Rollback
<1>2. UNCHANGED <<link, linkUsed, redeemed, retired>>
  BY DEF SignInIssue, SignInChallenge, VerifyMfaIssue, OpenFamily, RefreshRefused,
         CommitExchange, CommitRevocation, ResetRefused, StatusCommit, Rollback,
         linkTable, account
<1> QED
  BY <1>1, <1>2, EndsStep

LEMMA NothingOfLinks ==
  ASSUME LinkIInv, IInv', UNCHANGED <<link, linkUsed, redeemed, retired, tx>>
  PROVE  LinkIInv'
<1>1. (\A c \in Conns : RedemptionSound(tx[c]))'
  BY DEF LinkIInv, RedemptionSound, Redeeming
<1> QED
  BY <1>1 DEF LinkIInv, RedemptionBurnsTheRest

THEOREM LinkInductive == LinkIInv /\ [Next]_vars => LinkIInv'
<1> SUFFICES ASSUME LinkIInv, [Next]_vars PROVE LinkIInv'
  OBVIOUS
<1>1. IInv'
  BY Inductive DEF LinkIInv
<1>2. ASSUME NEW c \in Conns, Step(c) PROVE LinkIInv'
  BY <1>1, <1>2, OtherCommitStep, OtherStatementStep, ResetAcceptedStep,
     ResetPasswordStep, SweepStep, VisitTokenStep, BurnStartStep, VisitLinkStep,
     CommitResetStep DEF Step
<1>3. ASSUME NEW c \in Conns, Request(c) PROVE LinkIInv'
  BY <1>1, <1>3, OtherRequestStep, ResetSelectStep
<1>4. ASSUME NEW c \in Conns, Rollback(c) PROVE LinkIInv'
  BY <1>1, <1>4, OtherCommitStep
<1>5. CASE Environment
  <2>1. CASE \E u \in Users : RequestReset(u)
    BY <1>1, <2>1, RequestResetStep
  <2>2. CASE ~ \E u \in Users : RequestReset(u)
    <3>1. UNCHANGED <<link, linkUsed, redeemed, retired, tx>>
      BY <1>5, <2>2 DEF Environment, ChallengeExpires, TokenExpires, LinkExpires,
                        ArchiveTenant, RestoreTenant, linkTable
    <3> QED
      BY <1>1, <3>1, NothingOfLinks
  <2> QED
    BY <2>1, <2>2
<1>6. CASE UNCHANGED vars
  BY <1>1, <1>6, NothingOfLinks DEF vars, linkTable
<1> QED
  BY <1>2, <1>3, <1>4, <1>5, <1>6 DEF Next

\* In every reachable state, for every number of links and redemptions
\* (password-reset.ts).
THEOREM LinkInvariance == Spec => []LinkIInv
BY InitLinkIInv, LinkInductive, PTL DEF Spec

\* Links are redeemed by commits of redemptions only.
LEMMA NothingRedeemed ==
  ASSUME [Next]_vars, ~ \E c \in Conns : CommitReset(c)
  PROVE  redeemed' = redeemed
<1>1. ASSUME NEW c \in Conns, Step(c) PROVE redeemed' = redeemed
  BY <1>1 DEF Step, SignInIssue, SignInChallenge, VerifyMfaIssue, OpenFamily,
     RefreshReplayed, RefreshRefused, RefreshInactive, RefreshExchange,
     CommitExchange, RevokeStart, RevokeRow, CommitRevocation, ResetRefused,
     ResetAccepted, ResetPassword, SweepStart, BurnStart, BurnRow, StatusCommit,
     linkTable
<1>2. ASSUME NEW c \in Conns, Request(c) \/ Rollback(c) PROVE redeemed' = redeemed
  BY <1>2 DEF Request, SignInSelect, VerifyMfaSelect, RefreshSelect, LogoutSelect,
     ResetSelect, StatusSelect, Rollback, linkTable
<1>3. CASE Environment
  BY <1>3 DEF Environment, ChallengeExpires, RequestReset, TokenExpires, LinkExpires,
     ArchiveTenant, RestoreTenant, linkTable
<1> QED
  BY <1>1, <1>2, <1>3 DEF Next, vars, linkTable

LinksAreSpent == \A l \in Links : SpendsLink(l)

\* However redemptions race and roll back, a link sets a password once, and never
\* after it or a later password has burnt it (completePasswordReset).
THEOREM LinksAreSingleUse == Spec => ResetLinkSingleUse
<1>1. LinkIInv /\ [Next]_vars => [LinksAreSpent]_vars
  <2> SUFFICES ASSUME LinkIInv, [Next]_vars PROVE LinksAreSpent
    OBVIOUS
  <2>1. CASE \E c \in Conns : CommitReset(c)
    BY <2>1, Inductive, CommitResetStep DEF LinkIInv, LinksAreSpent
  <2>2. CASE ~ \E c \in Conns : CommitReset(c)
    BY <2>2, NothingRedeemed DEF LinksAreSpent, SpendsLink
  <2> QED
    BY <2>1, <2>2
<1>2. Spec => [][LinksAreSpent]_vars
  BY <1>1, LinkInvariance, PTL DEF Spec
<1> QED
  BY <1>2 DEF ResetLinkSingleUse, LinksAreSpent

\* Once a redemption has committed, every link its account had when the password
\* was set is burnt (completePasswordReset).
THEOREM RedemptionsBurnTheRest == Spec => []RedemptionBurnsTheRest
<1>1. LinkIInv => RedemptionBurnsTheRest
  BY DEF LinkIInv
<1> QED
  BY <1>1, LinkInvariance, PTL
=============================================================================
