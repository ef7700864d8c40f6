-------------------------------- MODULE Mfa --------------------------------
(***************************************************************************)
(* The second factor of one account: enrolment in two steps, begin and     *)
(* confirm, and the check of a code at the sign-in gate (mfa.ts).  What is *)
(* presented there is a code of the authenticator, valid for one 30-second *)
(* step, or a recovery code; either may be presented again, by several     *)
(* requests at once.                                                       *)
(*                                                                         *)
(* A step is a statement of a transaction; the last one commits.  The      *)
(* INSERT that claims a TOTP step (unique per user and step) and the       *)
(* UPDATE that claims a recovery code hold their row until then, and who   *)
(* wants the same row waits.  One code stands for the ten a confirmation   *)
(* issues.                                                                 *)
(*                                                                         *)
(* Init, Next and the like carry the module's name, because SignInProofs   *)
(* extends this module together with Throttling.                           *)
(***************************************************************************)
EXTENDS Naturals

CONSTANTS
  Secrets,   \* what generateTotpSecret may return
  Codes,     \* recovery codes; one for each confirmation that may commit
  LastStep,  \* bound: the clock stops there
  Conns,     \* transactions in progress at a time
  None

Steps == 1..LastStep

ASSUME MfaAssumption ==
  /\ LastStep \in Nat \ {0}
  /\ Codes \cap Steps = {}
  /\ None \notin Secrets \cup Codes \cup Steps

VARIABLES
  secret,    \* "user".mfa_secret
  enabled,   \* "user".mfa_enabled_at is set
  spent,     \* mfa_code_use: by whom a step was claimed
  recovery,  \* mfa_recovery_code
  now,       \* totpStep
  tx,        \* the transactions in progress
  proven,    \* history: secrets a confirmation was computed from
  sessions   \* history: sessions opened with a step or a recovery code

enrolment == <<secret, enabled>>
factors   == <<spent, recovery>>
history   == <<proven, sessions>>
mfaVars   == <<enrolment, factors, now, tx, history>>

Transaction ==
  [pc     : {"idle", "begin", "confirm", "enable", "verify", "open"},
   secret : Secrets \cup {None},         \* to be confirmed, as read
   factor : Steps \cup Codes \cup {None},
   owns   : BOOLEAN]                     \* the row of the factor is claimed

MfaTypeOK ==
  /\ secret \in Secrets \cup {None} /\ enabled \in BOOLEAN
  /\ spent \in [Steps -> {"free", "enrolment", "gate"}]
  /\ recovery \in [Codes -> {"absent", "unused", "used"}]
  /\ now \in Steps
  /\ tx \in [Conns -> Transaction]
  /\ proven \subseteq Secrets
  /\ sessions \in [Steps \cup Codes -> Nat]

NoTransaction == [pc |-> "idle", secret |-> None, factor |-> None, owns |-> FALSE]

MfaInit ==
  /\ secret = None /\ enabled = FALSE
  /\ spent = [s \in Steps |-> "free"]
  /\ recovery = [k \in Codes |-> "absent"]
  /\ now = 1
  /\ tx = [c \in Conns |-> NoTransaction]
  /\ proven = {}
  /\ sessions = [f \in Steps \cup Codes |-> 0]

End(c) == tx' = [tx EXCEPT ![c] = NoTransaction]

\* verifyTotpCode: the steps whose code is accepted now.
Window == {s \in Steps : s + 1 >= now /\ s <= now + 1}

\* Nobody else's open transaction holds the row of c's factor.
Free(c) ==
  \A d \in Conns \ {c} : ~(tx[d].owns /\ tx[d].factor = tx[c].factor)

Unspent(f) == IF f \in Codes THEN recovery[f] = "unused" ELSE spent[f] = "free"

\* The row of a factor that is claimed at the sign-in gate.
SpendAtGate(f) ==
  IF f \in Codes
  THEN recovery' = [recovery EXCEPT ![f] = "used"] /\ UNCHANGED spent
  ELSE spent' = [spent EXCEPT ![f] = "gate"] /\ UNCHANGED recovery

-----------------------------------------------------------------------------
\* beginMfaEnrolment

BeginSelect(c) ==
  /\ tx[c].pc = "idle" /\ ~enabled
  /\ tx' = [tx EXCEPT ![c].pc = "begin"]
  /\ UNCHANGED <<enrolment, factors, now, history>>

\* The UPDATE does not look at mfa_enabled_at again.
BeginUpdate(c, k) ==
  /\ tx[c].pc = "begin"
  /\ secret' = k
  /\ End(c)
  /\ UNCHANGED <<enabled, factors, now, history>>

-----------------------------------------------------------------------------
\* confirmMfaEnrolment

\* The SELECT, and a code of the secret it read.
ConfirmSelect(c, s) ==
  /\ tx[c].pc = "idle" /\ ~enabled /\ secret # None
  /\ s \in Window
  /\ tx' = [tx EXCEPT ![c] = [pc |-> "confirm", secret |-> secret, factor |-> s,
                              owns |-> FALSE]]
  /\ UNCHANGED <<enrolment, factors, now, history>>

\* INSERT ... ON CONFLICT DO NOTHING, whose outcome nobody looks at.
ConfirmClaim(c) ==
  /\ tx[c].pc = "confirm"
  /\ Free(c)
  /\ tx' = [tx EXCEPT ![c].pc = "enable", ![c].owns = Unspent(tx[c].factor)]
  /\ UNCHANGED <<enrolment, factors, now, history>>

\* mfa_enabled_at, the recovery codes, the audit entry, the event; COMMIT.
ConfirmCommit(c, k) ==
  /\ tx[c].pc = "enable"
  /\ recovery[k] = "absent"
  /\ enabled' = TRUE /\ proven' = proven \cup {tx[c].secret}
  /\ recovery' = [recovery EXCEPT ![k] = "unused"]
  /\ spent' = IF tx[c].owns THEN [spent EXCEPT ![tx[c].factor] = "enrolment"] ELSE spent
  /\ End(c)
  /\ UNCHANGED <<secret, now, sessions>>

-----------------------------------------------------------------------------
\* verifyMfa

\* The SELECT, and a code: of the secret it read, or a recovery code somebody
\* was given once.
VerifySelect(c, f) ==
  /\ tx[c].pc = "idle" /\ enabled
  /\ \/ f \in Window
     \/ f \in Codes /\ recovery[f] # "absent"
  /\ tx' = [tx EXCEPT ![c] = [pc |-> "verify", secret |-> None, factor |-> f,
                              owns |-> FALSE]]
  /\ UNCHANGED <<enrolment, factors, now, history>>

\* A mistake: the code is looked up first and claimed afterwards.
VerifyLookup(c) ==
  /\ tx[c].pc = "verify"
  /\ tx' = [tx EXCEPT ![c] = IF Unspent(tx[c].factor) THEN [@ EXCEPT !.pc = "open", !.owns = TRUE]
                             ELSE NoTransaction]
  /\ UNCHANGED <<enrolment, factors, now, history>>

\* A mistake: who waits for a row is not woken up when it was spent.
VerifyStuck(c) ==
  /\ tx[c].pc = "verify"
  /\ Free(c) /\ Unspent(tx[c].factor)
  /\ tx' = [tx EXCEPT ![c].pc = "open", ![c].owns = TRUE]
  /\ UNCHANGED <<enrolment, factors, now, history>>

\* INSERT ... ON CONFLICT DO NOTHING RETURNING, or UPDATE ... WHERE used_at IS
\* NULL: without a row, the code is refused.
VerifyClaim(c) ==
  /\ tx[c].pc = "verify"
  /\ Free(c)
  /\ tx' = [tx EXCEPT ![c] = IF Unspent(tx[c].factor) THEN [@ EXCEPT !.pc = "open", !.owns = TRUE]
                             ELSE NoTransaction]
  /\ UNCHANGED <<enrolment, factors, now, history>>

\* issueRefreshToken; COMMIT.
VerifyCommit(c) ==
  /\ tx[c].pc = "open"
  /\ SpendAtGate(tx[c].factor)
  /\ sessions' = [sessions EXCEPT ![tx[c].factor] = @ + 1]
  /\ End(c)
  /\ UNCHANGED <<enrolment, now, proven>>

\* loadAuthenticatedUser finds nobody active: the code is spent, for nothing.
VerifyDenied(c) ==
  /\ tx[c].pc = "open"
  /\ SpendAtGate(tx[c].factor)
  /\ End(c)
  /\ UNCHANGED <<enrolment, now, history>>

-----------------------------------------------------------------------------
\* A statement fails, or the instance stops: ROLLBACK gives the row back.
Fails(c) ==
  /\ tx[c].pc # "idle"
  /\ End(c)
  /\ UNCHANGED <<enrolment, factors, now, history>>

Tick ==
  /\ now < LastStep
  /\ now' = now + 1
  /\ UNCHANGED <<enrolment, factors, tx, history>>

MfaStep(c) ==
  \/ \E k \in Secrets : BeginUpdate(c, k)
  \/ ConfirmClaim(c) \/ \E k \in Codes : ConfirmCommit(c, k)
  \/ VerifyClaim(c) \/ VerifyCommit(c) \/ VerifyDenied(c)

MfaNext ==
  \/ \E c \in Conns :
       \/ MfaStep(c) \/ Fails(c) \/ BeginSelect(c)
       \/ \E s \in Steps : ConfirmSelect(c, s)
       \/ \E f \in Steps \cup Codes : VerifySelect(c, f)
  \/ Tick

MfaSpec == MfaInit /\ [][MfaNext]_mfaVars

-----------------------------------------------------------------------------
\* Safety

\* A code of the authenticator opens at most one session, however many requests
\* present it at once and whichever of them fail; so does a recovery code; and
\* a code that confirmed the enrolment opens none afterwards (US-025 AC3).
CodeOpensOneSession ==
  /\ \A f \in Steps \cup Codes : sessions[f] <= 1
  /\ \A s \in Steps : sessions[s] = 1 => spent[s] = "gate"
  /\ \A k \in Codes : sessions[k] = 1 => recovery[k] = "used"

\* The inductive strengthening: a claimed row has one owner, and it is unspent
\* until the owner commits.
ClaimsExclusive ==
  \A c \in Conns :
    /\ tx[c].pc \in {"confirm", "enable"} => tx[c].factor \in Steps /\ tx[c].secret # None
    /\ tx[c].pc \in {"verify", "open"} => tx[c].factor \in Steps \cup Codes
    /\ tx[c].pc = "open" => tx[c].owns
    /\ tx[c].owns => /\ tx[c].pc \in {"enable", "open"}
                     /\ Unspent(tx[c].factor)
                     /\ Free(c)

MfaIInv == MfaTypeOK /\ ClaimsExclusive /\ CodeOpensOneSession

\* What the comment of confirmMfaEnrolment says of an account that is enrolled,
\* and a begin that overtakes the confirmation undoes.
EnabledSecretIsProven == enabled => secret \in proven

-----------------------------------------------------------------------------
\* Liveness: a request that can go on does, and PostgreSQL queues those who
\* wait for a row, so that each has its turn.
MfaFairSpec ==
  /\ MfaSpec
  /\ \A c \in Conns : WF_mfaVars(MfaStep(c)) /\ SF_mfaVars(ConfirmClaim(c) \/ VerifyClaim(c))

\* Nobody waits for ever for a row that somebody else claimed.
EveryRequestEnds == \A c \in Conns : []<>(tx[c].pc = "idle")
=============================================================================
