------------------------ MODULE ErpConnectionProofs ------------------------
(***************************************************************************)
(* Proofs about ErpConnection, for every number of instances, devices,     *)
(* administrators, configurations, authorities and secrets.  IInv is       *)
(* inductive; four safety properties are conjuncts of it and the fifth, of *)
(* what a save may change, follows from it.                                *)
(***************************************************************************)
EXTENDS ErpConnection, TLAPS

LEMMA HomeIsAnInstance == Home \in Instances
BY ErpConnectionAssumption DEF Home

LEMMA IdleIsTyped == IdleDevice \in DeviceState /\ IdleAdmin \in AdminState
BY HomeIsAnInstance DEF IdleDevice, IdleAdmin, DeviceState, AdminState

Parts == {"authority", "secret"}

\* What a save would store is a credential: of what it gives and of what is
\* stored.
LEMMA MergedIsACredential ==
  ASSUME NEW c \in Credential, NEW omit \in SUBSET Parts,
         cred \in Credential \cup {None}, "secret" \in omit => cred # None
  PROVE  /\ Merged(c, omit) \in Credential
         /\ Merged(c, omit).client = c.client
         /\ Merged(c, omit).authority =
              IF "authority" \in omit THEN StoredAuthority ELSE c.authority
         /\ Merged(c, omit).secret = IF "secret" \in omit THEN cred.secret ELSE c.secret
<1>1. StoredAuthority \in Authorities
  BY ErpConnectionAssumption DEF StoredAuthority, Credential
<1> QED
  BY <1>1 DEF Merged, Credential

THEOREM InitIInv == Init => IInv
<1> SUFFICES ASSUME Init PROVE IInv
  OBVIOUS
<1> USE DEF Init
<1>1. TypeOK
  BY IdleIsTyped DEF TypeOK
<1>2. \A d \in Devices : device[d].pc = "idle"
  BY DEF IdleDevice
<1>3. \A a \in Admins : admin[a].pc = "idle"
  BY DEF IdleAdmin
<1>4. SingleFlight
  BY <1>2, ErpConnectionAssumption DEF SingleFlight, Waiting
<1>5. TokensWereIssued /\ ResolvedIsConfigured /\ PartsWereTested
  BY <1>2 DEF TokensWereIssued, ResolvedIsConfigured, PartsWereTested
<1> QED
  BY <1>1, <1>2, <1>3, <1>4, <1>5 DEF IInv, DeviceSound, AdminSound

-----------------------------------------------------------------------------
\* The exchange.

\* The exchange d leads settles: everybody who waits for it has its answer and
\* nobody leads or waits on that instance any more.
LEMMA SettleStep ==
  ASSUME IInv, NEW d \in Devices, device[d].pc \in {"load", "exchange"},
         NEW minted \in Credential \cup {None}, Settle(d, minted),
         issued' = IF minted = None THEN issued ELSE issued \cup {minted},
         UNCHANGED <<stored, admin, tested>>
  PROVE  IInv'
<1> DEFINE i == device[d].at
<1> USE DEF IInv, Settle, stored
<1>1. i \in Instances
  BY DEF TypeOK, DeviceState
<1>2. /\ flight' = [flight EXCEPT ![i] = None]
      /\ cache' = IF minted = None THEN cache ELSE [cache EXCEPT ![i] = minted]
      /\ device' = Answers(d, minted)
  OBVIOUS
<1>3. \A e \in Devices : device'[e] =
        IF e # d /\ e \notin Waiting(i) THEN device[e]
        ELSE IF minted = None THEN IdleDevice
        ELSE [device[e] EXCEPT !.pc = "send", !.cred = minted]
  BY <1>2 DEF Answers
<1>4. ASSUME NEW e \in Devices PROVE device'[e] \in DeviceState
  <2>1. device[e] \in DeviceState
    BY DEF TypeOK
  <2>2. minted # None => [device[e] EXCEPT !.pc = "send", !.cred = minted] \in DeviceState
    BY <2>1 DEF DeviceState
  <2> QED
    BY <1>3, <2>1, <2>2, IdleIsTyped
<1>5. TypeOK'
  <2>1. device' \in [Devices -> DeviceState]
    BY <1>2, <1>4 DEF Answers
  <2>2. cache' \in [Instances -> Credential \cup {None}]
    BY <1>1, <1>2 DEF TypeOK
  <2>3. flight' \in [Instances -> Devices \cup {None}] /\ issued' \subseteq Credential
    BY <1>1, <1>2 DEF TypeOK
  <2> QED
    BY <2>1, <2>2, <2>3 DEF TypeOK
<1>6. \A e \in Devices : e # d /\ e \notin Waiting(i) => device'[e] = device[e]
  BY <1>3
<1>7. \A e \in Devices : e = d \/ e \in Waiting(i) =>
        /\ device'[e].pc \in {"idle", "send"}
        /\ device'[e].pc = "send" => minted # None /\ device'[e].cred = minted
  <2> SUFFICES ASSUME NEW e \in Devices, e = d \/ e \in Waiting(i)
               PROVE  /\ device'[e].pc \in {"idle", "send"}
                      /\ device'[e].pc = "send" => minted # None /\ device'[e].cred = minted
    OBVIOUS
  <2>1. device[e] \in DeviceState
    BY DEF TypeOK
  <2>2. device'[e] = IF minted = None THEN IdleDevice
                     ELSE [device[e] EXCEPT !.pc = "send", !.cred = minted]
    BY <1>3
  <2>3. CASE minted = None
    BY <2>2, <2>3 DEF IdleDevice
  <2>4. CASE minted # None
    BY <2>1, <2>2, <2>4 DEF DeviceState
  <2> QED
    BY <2>3, <2>4
<1>8. flight[i] = d
  BY <1>1 DEF SingleFlight
<1>9. SingleFlight'
  <2>1. ASSUME NEW e \in Devices, NEW j \in Instances
        PROVE  flight'[j] = e <=> device'[e].pc \in {"load", "exchange"} /\ device'[e].at = j
    <3>1. CASE e = d \/ e \in Waiting(i)
      <4>1. device'[e].pc \notin {"load", "exchange"}
        BY <1>7, <3>1
      <4>2. flight'[j] # e
        BY <1>1, <1>2, <1>8, <3>1, ErpConnectionAssumption
           DEF SingleFlight, Waiting, TypeOK
      <4> QED
        BY <4>1, <4>2
    <3>2. CASE ~(e = d \/ e \in Waiting(i))
      BY <1>1, <1>2, <1>6, <1>8, <3>2, ErpConnectionAssumption DEF SingleFlight, TypeOK
    <3> QED
      BY <3>1, <3>2
  <2>2. ASSUME NEW j \in Instances, Waiting(j)' # {} PROVE flight'[j] # None
    <3>1. PICK e \in Devices : device'[e].pc = "join" /\ device'[e].at = j
      BY <2>2 DEF Waiting
    <3>2. e # d /\ e \notin Waiting(i) /\ device[e].pc = "join" /\ device[e].at = j
      BY <1>6, <1>7, <3>1
    <3>3. j # i /\ Waiting(j) # {}
      BY <3>2 DEF Waiting
    <3> QED
      BY <1>1, <1>2, <3>3 DEF SingleFlight, TypeOK
  <2> QED
    BY <2>1, <2>2 DEF SingleFlight
<1>10. TokensWereIssued'
  BY <1>1, <1>2, <1>6, <1>7 DEF TokensWereIssued, TypeOK
<1>11. ResolvedIsConfigured' /\ PartsWereTested'
  BY <1>6, <1>7 DEF ResolvedIsConfigured, PartsWereTested
<1>12. (\A e \in Devices : DeviceSound(device[e]))'
  BY <1>6, <1>7 DEF DeviceSound
<1>13. (\A a \in Admins : AdminSound(admin[a]))'
  BY DEF AdminSound
<1> QED
  BY <1>5, <1>9, <1>10, <1>11, <1>12, <1>13 DEF DeviceSound

\* A device that leads nothing and waits for nothing asks for a token.
LEMMA TokenForStep ==
  ASSUME IInv, NEW d \in Devices, device[d].pc \in {"idle", "send"},
         NEW i \in Instances, NEW retry \in BOOLEAN, NEW live \in Credential \cup {None},
         live # None => live \in issued,
         cred # None,
         TokenFor(d, i, retry, live),
         cache' \in [Instances -> Credential \cup {None}],
         \A j \in Instances : cache'[j] \in {cache[j], None},
         UNCHANGED <<stored, admin, history>>
  PROVE  IInv'
<1> DEFINE now(pc, c) == [pc |-> pc, at |-> i, retry |-> retry, cred |-> c]
<1> USE DEF IInv, stored, history
<1>1. PICK pc \in {"send", "join", "load"}, c \in Credential \cup {None} :
        /\ device' = [device EXCEPT ![d] = now(pc, c)]
        /\ pc = "send" => c # None /\ c \in issued
        /\ pc = "join" => flight[i] # None
        /\ pc = "load" => flight[i] = None
        /\ flight' = IF pc = "load" THEN [flight EXCEPT ![i] = d] ELSE flight
  BY DEF TokenFor
<1> DEFINE r == now(pc, c)
<1>2. r \in DeviceState /\ r.pc = pc /\ r.at = i /\ r.cred = c
  BY DEF DeviceState
<1> HIDE DEF r
<1>3. device' = [device EXCEPT ![d] = r]
  BY <1>1 DEF r
<1>4. device'[d] = r /\ \A e \in Devices \ {d} : device'[e] = device[e]
  BY <1>3 DEF TypeOK
<1>5. TypeOK'
  BY <1>1, <1>2, <1>3 DEF TypeOK
<1>6. SingleFlight'
  <2>1. ASSUME NEW e \in Devices, NEW j \in Instances
        PROVE  flight'[j] = e <=> device'[e].pc \in {"load", "exchange"} /\ device'[e].at = j
    <3>1. CASE e = d
      <4>1. flight[j] # d
        BY DEF SingleFlight
      <4> QED
        BY <1>1, <1>2, <1>4, <3>1, <4>1 DEF TypeOK
    <3>2. CASE e # d
      BY <1>1, <1>4, <3>2, ErpConnectionAssumption DEF SingleFlight, TypeOK
    <3> QED
      BY <3>1, <3>2
  <2>2. ASSUME NEW j \in Instances, Waiting(j)' # {} PROVE flight'[j] # None
    <3>1. PICK e \in Devices : device'[e].pc = "join" /\ device'[e].at = j
      BY <2>2 DEF Waiting
    <3>2. flight[j] # None
      BY <1>1, <1>2, <1>4, <3>1 DEF SingleFlight, Waiting
    <3> QED
      BY <1>1, <3>2, ErpConnectionAssumption DEF TypeOK
  <2> QED
    BY <2>1, <2>2 DEF SingleFlight
<1>7. TokensWereIssued'
  BY <1>1, <1>2, <1>4 DEF TokensWereIssued, TypeOK
<1>8. ResolvedIsConfigured' /\ PartsWereTested'
  BY <1>1, <1>2, <1>4 DEF ResolvedIsConfigured, PartsWereTested
<1>9. (\A e \in Devices : DeviceSound(device[e]))'
  BY <1>1, <1>2, <1>4 DEF DeviceSound
<1>10. (\A a \in Admins : AdminSound(admin[a]))'
  BY DEF AdminSound
<1> QED
  BY <1>5, <1>6, <1>7, <1>8, <1>9, <1>10 DEF DeviceSound

\* A device that is not, and will not be, part of an exchange.
LEMMA DeviceMovesStep ==
  ASSUME IInv, NEW d \in Devices, NEW r \in DeviceState,
         device' = [device EXCEPT ![d] = r],
         \/ device[d].pc = "send" /\ r.pc = "idle"
         \/ /\ device[d].pc = "load" /\ r.pc = "exchange" /\ r.at = device[d].at
            /\ r.cred # None,
         UNCHANGED <<stored, caches, admin, history>>
  PROVE  IInv'
<1> USE DEF IInv, stored, caches, history
<1>1. device'[d] = r /\ \A e \in Devices \ {d} : device'[e] = device[e]
  BY DEF TypeOK
<1>2. TypeOK'
  BY DEF TypeOK
<1>3. SingleFlight'
  <2>1. ASSUME NEW e \in Devices, NEW j \in Instances
        PROVE  flight'[j] = e <=> device'[e].pc \in {"load", "exchange"} /\ device'[e].at = j
    BY <1>1 DEF SingleFlight
  <2>2. \A j \in Instances : Waiting(j)' \subseteq Waiting(j)
    BY <1>1 DEF Waiting
  <2> QED
    BY <2>1, <2>2 DEF SingleFlight
<1>4. TokensWereIssued'
  BY <1>1 DEF TokensWereIssued
<1>5. ResolvedIsConfigured' /\ PartsWereTested'
  BY <1>1 DEF ResolvedIsConfigured, PartsWereTested
<1>6. (\A e \in Devices : DeviceSound(device[e]))'
  BY <1>1 DEF DeviceSound
<1>7. (\A a \in Admins : AdminSound(admin[a]))'
  BY DEF AdminSound
<1> QED
  BY <1>2, <1>3, <1>4, <1>5, <1>6, <1>7 DEF DeviceSound

\* A step of an administrator's request, which leaves the devices alone.  It
\* may grow what was tested, replace what is stored and evict a cache.
LEMMA AdminMovesStep ==
  ASSUME IInv, NEW a \in Admins, NEW r \in AdminState,
         admin' = [admin EXCEPT ![a] = r],
         r.pc = "check" => r.cred # None,
         r.pc = "commit" => r.cred \in tested',
         r.pc \in {"check", "commit"} /\ "secret" \in r.omit => cred' # None,
         r.pc \in {"check", "commit"} /\ "authority" \in r.omit /\ cred' = None
           => r.cred.authority = Commercial,
         cred' \in Credential \cup {None}, cred # None => cred' # None,
         state' \in {"not_configured", "connected", "failing"},
         ResolvedIsConfigured', PartsWereTested',
         tested' \subseteq Credential, tested \subseteq tested',
         cache' \in [Instances -> Credential \cup {None}],
         \A j \in Instances : cache'[j] \in {cache[j], None},
         UNCHANGED <<flight, device, issued>>
  PROVE  IInv'
<1> USE DEF IInv
<1>1. admin'[a] = r /\ \A b \in Admins \ {a} : admin'[b] = admin[b]
  BY DEF TypeOK
<1>2. TypeOK'
  BY DEF TypeOK
<1>3. SingleFlight'
  BY DEF SingleFlight, Waiting
<1>4. TokensWereIssued'
  BY DEF TokensWereIssued
<1>5. \A b \in Admins : AdminSound(admin[b])'
  BY <1>1 DEF AdminSound
<1>6. (\A e \in Devices : DeviceSound(device[e]))'
  BY DEF DeviceSound
<1> QED
  BY <1>2, <1>3, <1>4, <1>5, <1>6

-----------------------------------------------------------------------------
\* One lemma per action.

LEMMA LoadStep ==
  ASSUME IInv, NEW d \in Devices, Load(d)
  PROVE  IInv'
<1> USE DEF Load, history
<1>1. CASE Settle(d, None)
  BY <1>1, SettleStep DEF stored
<1>2. CASE /\ cred # None
           /\ device' = [device EXCEPT ![d].pc = "exchange", ![d].cred = cred]
           /\ UNCHANGED caches
  <2> DEFINE r == [device[d] EXCEPT !.pc = "exchange", !.cred = cred]
  <2>1. device[d] \in DeviceState /\ cred \in Credential \cup {None}
    BY DEF IInv, TypeOK
  <2>2. r \in DeviceState /\ r.pc = "exchange" /\ r.at = device[d].at /\ r.cred = cred
    BY <2>1 DEF DeviceState
  <2>3. device' = [device EXCEPT ![d] = r]
    BY <1>2 DEF IInv, TypeOK
  <2> HIDE DEF r
  <2> QED
    BY <1>2, <2>2, <2>3, DeviceMovesStep
<1> QED
  BY <1>1, <1>2

LEMMA ExchangeStep ==
  ASSUME IInv, NEW d \in Devices, Exchange(d)
  PROVE  IInv'
<1> USE DEF Exchange
<1>1. device[d].cred \in Credential /\ device[d].cred # None
  BY ErpConnectionAssumption DEF IInv, TypeOK, DeviceState, DeviceSound, Credential
<1>2. CASE Settle(d, device[d].cred) /\ issued' = issued \cup {device[d].cred}
  BY <1>1, <1>2, SettleStep
<1>3. CASE Settle(d, None) /\ UNCHANGED issued
  BY <1>3, SettleStep
<1> QED
  BY <1>2, <1>3

LEMMA AnsweredStep ==
  ASSUME IInv, NEW d \in Devices, Answered(d)
  PROVE  IInv'
<1>1. IdleDevice.pc = "idle"
  BY DEF IdleDevice
<1> QED
  BY <1>1, IdleIsTyped, DeviceMovesStep DEF Answered

\* A cached token was issued, so somebody may be handed it; and a device that
\* got so far shows that a credential is stored.
LEMMA ForwardStep ==
  ASSUME IInv, NEW d \in Devices, NEW i \in Instances, Forward(d, i)
  PROVE  IInv'
<1> USE DEF IInv, Forward
<1>1. cache[i] \in Credential \cup {None} /\ (cache[i] # None => cache[i] \in issued)
  BY DEF TypeOK, TokensWereIssued
<1>2. cred # None
  BY DEF ResolvedIsConfigured
<1>3. cache' \in [Instances -> Credential \cup {None}]
      /\ \A j \in Instances : cache'[j] \in {cache[j], None}
  BY DEF TypeOK
<1> HIDE DEF IInv
<1> QED
  BY <1>1, <1>2, <1>3, TokenForStep

LEMMA RefusedStep ==
  ASSUME IInv, NEW d \in Devices, Refused(d)
  PROVE  IInv'
<1> USE DEF Refused
<1>1. device[d].at \in Instances
  BY DEF IInv, TypeOK, DeviceState
<1>2. cred # None
  BY DEF IInv, DeviceSound
<1>3. cache' \in [Instances -> Credential \cup {None}]
      /\ \A j \in Instances : cache'[j] \in {cache[j], None}
  BY <1>1 DEF IInv, TypeOK
<1> QED
  BY <1>1, <1>2, <1>3, TokenForStep

LEMMA TokenExpiresStep ==
  ASSUME IInv, NEW i \in Instances, TokenExpires(i)
  PROVE  IInv'
<1> USE DEF IInv, TokenExpires, stored, history
<1>1. TypeOK'
  BY DEF TypeOK
<1>2. SingleFlight'
  BY DEF SingleFlight, Waiting
<1>3. TokensWereIssued'
  BY DEF TokensWereIssued, TypeOK
<1>4. ResolvedIsConfigured' /\ PartsWereTested'
  BY DEF ResolvedIsConfigured, PartsWereTested
<1> QED
  BY <1>1, <1>2, <1>3, <1>4 DEF DeviceSound, AdminSound

LEMMA SavePrepareStep ==
  ASSUME IInv, NEW a \in Admins, NEW i \in Instances, NEW c \in Credential,
         NEW omit \in SUBSET Parts, SavePrepare(a, i, c, omit)
  PROVE  IInv'
<1> DEFINE r == [pc |-> "check", at |-> i, save |-> TRUE, omit |-> omit,
                 cred |-> Merged(c, omit), verdict |-> "failing"]
<1> USE DEF SavePrepare, stored, caches, history
<1>1. /\ Merged(c, omit) \in Credential
      /\ Merged(c, omit).authority =
           IF "authority" \in omit THEN StoredAuthority ELSE c.authority
  BY MergedIsACredential DEF IInv, TypeOK
<1>2. r \in AdminState
  BY <1>1 DEF AdminState, Parts
<1>3. /\ r.pc = "check" /\ r.cred # None
      /\ "secret" \in r.omit => cred' # None
      /\ "authority" \in r.omit /\ cred' = None => r.cred.authority = Commercial
  BY <1>1, ErpConnectionAssumption DEF StoredAuthority
<1>4. admin' = [admin EXCEPT ![a] = r]
  OBVIOUS
<1>5. r.pc # "commit"
  OBVIOUS
<1> HIDE DEF r
<1>6. UNCHANGED <<cred, state, cache, flight, device, tested, issued>>
  OBVIOUS
<1> HIDE DEF SavePrepare, stored, caches, history
<1>7. ResolvedIsConfigured' /\ PartsWereTested'
  BY <1>6 DEF IInv, ResolvedIsConfigured, PartsWereTested
<1> QED
  BY <1>2, <1>3, <1>4, <1>5, <1>6, <1>7, AdminMovesStep DEF IInv, TypeOK

LEMMA TestPrepareStep ==
  ASSUME IInv, NEW a \in Admins, NEW i \in Instances, TestPrepare(a, i)
  PROVE  IInv'
<1> DEFINE r == [pc |-> "check", at |-> i, save |-> FALSE, omit |-> {},
                 cred |-> cred, verdict |-> "failing"]
<1> USE DEF TestPrepare, stored, caches, history
<1>1. r \in AdminState
  BY DEF AdminState, IInv, TypeOK
<1>2. r.pc = "check" /\ r.cred # None /\ r.omit = {}
  OBVIOUS
<1>3. admin' = [admin EXCEPT ![a] = r]
  OBVIOUS
<1> HIDE DEF r
<1>4. UNCHANGED <<cred, state, cache, flight, device, tested, issued>>
  OBVIOUS
<1> HIDE DEF TestPrepare, stored, caches, history
<1>5. ResolvedIsConfigured' /\ PartsWereTested'
  BY <1>4 DEF IInv, ResolvedIsConfigured, PartsWereTested
<1> QED
  BY <1>1, <1>2, <1>3, <1>4, <1>5, AdminMovesStep DEF IInv, TypeOK

\* Only what the check accepted goes on to the commit.
LEMMA CheckStep ==
  ASSUME IInv, NEW a \in Admins, Check(a)
  PROVE  IInv'
<1> USE DEF Check, stored, caches
<1>1. admin[a] \in AdminState /\ AdminSound(admin[a])
  BY DEF IInv, TypeOK
<1>2. admin[a].cred \in Credential
  BY <1>1 DEF AdminState, AdminSound
<1>3. CASE /\ tested' = tested \cup {admin[a].cred}
           /\ admin' = [admin EXCEPT ![a].pc = IF admin[a].save THEN "commit" ELSE "record",
                                     ![a].verdict = "connected"]
  <2> DEFINE r == [admin[a] EXCEPT !.pc = IF admin[a].save THEN "commit" ELSE "record",
                                   !.verdict = "connected"]
  <2>1. r \in AdminState /\ r.pc \in {"commit", "record"} /\ r.cred = admin[a].cred
        /\ r.omit = admin[a].omit
    BY <1>1 DEF AdminState
  <2>2. admin' = [admin EXCEPT ![a] = r]
    BY <1>3 DEF IInv, TypeOK
  <2> HIDE DEF r
  <2>3. /\ r.cred \in tested'
        /\ "secret" \in r.omit => cred' # None
        /\ "authority" \in r.omit /\ cred' = None => r.cred.authority = Commercial
    BY <1>1, <1>3, <2>1 DEF AdminSound
  <2>4. PartsWereTested'
    BY <1>3 DEF IInv, PartsWereTested
  <2>5. tested' \subseteq Credential /\ tested \subseteq tested'
    BY <1>2, <1>3 DEF IInv, TypeOK
  <2>6. UNCHANGED <<cred, state, cache, flight, device, issued>>
    OBVIOUS
  <2>7. ResolvedIsConfigured'
    BY <2>6 DEF IInv, ResolvedIsConfigured
  <2> HIDE DEF Check
  <2> QED
    BY <2>1, <2>2, <2>3, <2>4, <2>5, <2>6, <2>7, AdminMovesStep DEF IInv, TypeOK
<1>4. CASE admin' = [admin EXCEPT ![a].pc = "record"] /\ UNCHANGED tested
  <2> DEFINE r == [admin[a] EXCEPT !.pc = "record"]
  <2>1. r \in AdminState /\ r.pc = "record"
    BY <1>1 DEF AdminState
  <2>2. admin' = [admin EXCEPT ![a] = r]
    BY <1>4 DEF IInv, TypeOK
  <2> HIDE DEF r
  <2>3. UNCHANGED <<cred, state, cache, flight, device, tested, issued>>
    BY <1>4
  <2>4. ResolvedIsConfigured' /\ PartsWereTested'
    BY <2>3 DEF IInv, ResolvedIsConfigured, PartsWereTested
  <2> HIDE DEF Check, stored, caches
  <2> QED
    BY <2>1, <2>2, <2>3, <2>4, AdminMovesStep DEF IInv, TypeOK
<1> QED
  BY <1>3, <1>4

\* The client of what is stored now passed this save's check; its authority and
\* its secret did too, or are the ones that were stored already.
LEMMA SaveCommitStep ==
  ASSUME IInv, NEW a \in Admins, SaveCommit(a)
  PROVE  IInv' /\ \A b \in Admins : KeepsOthers(b)
<1> DEFINE r == [admin[a] EXCEPT !.pc = "evict"]
<1> DEFINE x == admin[a]
<1> USE DEF SaveCommit, caches, history
<1>1. x \in AdminState /\ AdminSound(x) /\ tested \subseteq Credential
  BY DEF IInv, TypeOK
<1>2. /\ x.cred \in tested /\ x.cred \in Credential /\ x.omit \in SUBSET Parts
      /\ "secret" \in x.omit => cred # None
      /\ "authority" \in x.omit /\ cred = None => x.cred.authority = Commercial
  BY <1>1 DEF AdminState, AdminSound, Parts
<1>3. r \in AdminState /\ r.pc = "evict"
  BY <1>1 DEF AdminState
<1>4. admin' = [admin EXCEPT ![a] = r]
  BY DEF IInv, TypeOK
<1> HIDE DEF r
<1>5. /\ cred' \in Credential
      /\ cred'.client = x.cred.client
      /\ cred'.authority =
           IF "authority" \in x.omit THEN StoredAuthority ELSE x.cred.authority
      /\ cred'.secret = IF "secret" \in x.omit THEN cred.secret ELSE x.cred.secret
  BY <1>2, MergedIsACredential DEF IInv, TypeOK
<1>6. cred' # None
  BY <1>5, ErpConnectionAssumption
<1>7. PartsWereTested'
  <2>1. \E k \in tested : k.client = cred'.client
    BY <1>2, <1>5
  <2>2. \E k \in tested : k.authority = cred'.authority
    BY <1>2, <1>5 DEF IInv, PartsWereTested, StoredAuthority
  <2>3. \E k \in tested : k.secret = cred'.secret
    BY <1>2, <1>5 DEF IInv, PartsWereTested
  <2> QED
    BY <2>1, <2>2, <2>3 DEF PartsWereTested
<1>8. ResolvedIsConfigured'
  BY <1>6 DEF IInv, ResolvedIsConfigured
<1>9. IInv'
  BY <1>3, <1>4, <1>5, <1>6, <1>7, <1>8, AdminMovesStep DEF IInv, TypeOK
<1>10. \A b \in Admins \ {a} : admin'[b] = admin[b]
  BY DEF IInv, TypeOK
<1>11. \A b \in Admins : KeepsOthers(b)
  BY <1>2, <1>5, <1>10 DEF KeepsOthers
<1> QED
  BY <1>9, <1>11

\* A request that ends without touching what is stored.
LEMMA AdminEndsStep ==
  ASSUME IInv, NEW a \in Admins, admin' = [admin EXCEPT ![a] = IdleAdmin],
         cache' \in [Instances -> Credential \cup {None}],
         \A j \in Instances : cache'[j] \in {cache[j], None},
         state' \in {"not_configured", "connected", "failing"},
         state' # "not_configured" <=> cred # None,
         UNCHANGED <<cred, flight, device, history>>
  PROVE  IInv'
<1>1. IdleAdmin.pc = "idle"
  BY DEF IdleAdmin
<1>2. ResolvedIsConfigured' /\ PartsWereTested'
  BY DEF IInv, ResolvedIsConfigured, PartsWereTested, history
<1> QED
  BY <1>1, <1>2, IdleIsTyped, AdminMovesStep DEF IInv, TypeOK, history

LEMMA SaveEvictStep ==
  ASSUME IInv, NEW a \in Admins, SaveEvict(a)
  PROVE  IInv'
<1> USE DEF IInv, SaveEvict, stored
<1>1. cache' \in [Instances -> Credential \cup {None}]
      /\ \A j \in Instances : cache'[j] \in {cache[j], None}
  BY DEF TypeOK
<1> QED
  BY <1>1, AdminEndsStep DEF TypeOK, ResolvedIsConfigured

LEMMA RecordStep ==
  ASSUME IInv, NEW a \in Admins, Record(a)
  PROVE  IInv'
<1> USE DEF IInv, Record, caches
<1>1. admin[a].verdict \in {"connected", "failing"}
  BY DEF TypeOK, AdminState
<1> QED
  BY <1>1, AdminEndsStep DEF TypeOK, ResolvedIsConfigured

LEMMA RequestFailsStep ==
  ASSUME IInv, NEW a \in Admins, RequestFails(a)
  PROVE  IInv'
BY AdminEndsStep DEF RequestFails, stored, caches, IInv, TypeOK, ResolvedIsConfigured

\* Nobody of the stopped instance is left: no leader, no waiter.
LEMMA RestartStep ==
  ASSUME IInv, NEW i \in Instances, Restart(i)
  PROVE  IInv'
<1> USE DEF IInv, Restart, stored, history
<1>1. \A d \in Devices : device'[d] = IF device[d].at = i THEN IdleDevice ELSE device[d]
  OBVIOUS
<1>2. \A a \in Admins : admin'[a] = IF admin[a].at = i THEN IdleAdmin ELSE admin[a]
  OBVIOUS
<1>3. TypeOK'
  <2>1. device' \in [Devices -> DeviceState] /\ admin' \in [Admins -> AdminState]
    BY IdleIsTyped DEF TypeOK
  <2> QED
    BY <2>1 DEF TypeOK
<1>4. IdleDevice.pc = "idle" /\ IdleAdmin.pc = "idle"
  BY DEF IdleDevice, IdleAdmin
<1>5. SingleFlight'
  <2>1. ASSUME NEW d \in Devices, NEW j \in Instances
        PROVE  flight'[j] = d <=> device'[d].pc \in {"load", "exchange"} /\ device'[d].at = j
    BY <1>1, <1>4, ErpConnectionAssumption DEF SingleFlight, TypeOK
  <2>2. \A j \in Instances : Waiting(j)' \subseteq Waiting(j) /\ (j = i => Waiting(j)' = {})
    BY <1>1, <1>4 DEF Waiting
  <2> QED
    BY <2>1, <2>2 DEF SingleFlight, TypeOK
<1>6. TokensWereIssued'
  BY <1>1, <1>4 DEF TokensWereIssued, TypeOK
<1>7. ResolvedIsConfigured' /\ PartsWereTested'
  BY <1>1, <1>4 DEF ResolvedIsConfigured, PartsWereTested
<1>8. (\A d \in Devices : DeviceSound(device[d]))'
  BY <1>1, <1>4 DEF DeviceSound
<1>9. (\A a \in Admins : AdminSound(admin[a]))'
  BY <1>2, <1>4 DEF AdminSound
<1> QED
  BY <1>3, <1>5, <1>6, <1>7, <1>8, <1>9

-----------------------------------------------------------------------------
\* IInv is inductive: every action preserves it.
THEOREM Inductive == IInv /\ [Next]_vars => IInv'
<1> SUFFICES ASSUME IInv, [Next]_vars PROVE IInv'
  OBVIOUS
<1>1. CASE UNCHANGED vars
  BY <1>1 DEF vars, stored, caches, history, IInv, TypeOK, SingleFlight, Waiting,
              TokensWereIssued, ResolvedIsConfigured, PartsWereTested,
              DeviceSound, AdminSound
<1>2. ASSUME NEW d \in Devices, DeviceStep(d) PROVE IInv'
  BY <1>2, LoadStep, ExchangeStep, AnsweredStep, RefusedStep DEF DeviceStep
<1>3. ASSUME NEW a \in Admins, AdminStep(a) PROVE IInv'
  BY <1>3, CheckStep, SaveCommitStep, SaveEvictStep, RecordStep, RequestFailsStep
     DEF AdminStep
<1>4. CASE Next
  BY <1>2, <1>3, <1>4, TokenExpiresStep, RestartStep, ForwardStep,
     TestPrepareStep, SavePrepareStep DEF Next, Parts
<1> QED
  BY <1>1, <1>4

\* In every reachable state, for every number of instances, devices and
\* administrators (connection.service.ts, d365-token.cache.ts).
THEOREM Invariance == Spec => []IInv
BY InitIInv, Inductive, PTL DEF Spec

\* One exchange per instance at a time, and nobody waits for one that is over
\* (D365TokenCache.inFlight).
THEOREM ExchangesAreShared == Spec => []SingleFlight
<1>1. IInv => SingleFlight
  BY DEF IInv
<1> QED
  BY <1>1, Invariance, PTL

\* No failure is cached or presented to the ERP (D365TokenCache.acquire).
THEOREM OnlyIssuedTokensAreSent == Spec => []TokensWereIssued
<1>1. IInv => TokensWereIssued
  BY DEF IInv
<1> QED
  BY <1>1, Invariance, PTL

\* What is stored is made of a client, an authority and a secret that each passed
\* a live check (ConnectionService.save).
THEOREM StoredPartsWereTested == Spec => []PartsWereTested
<1>1. IInv => PartsWereTested
  BY DEF IInv
<1> QED
  BY <1>1, Invariance, PTL

\* Only the commit of a save goes from "commit" to "evict".
LEMMA OthersEvictNothing ==
  ASSUME IInv, [Next]_vars, ~ \E a \in Admins : SaveCommit(a), NEW b \in Admins
  PROVE  ~(admin[b].pc = "commit" /\ admin'[b].pc = "evict")
<1>1. admin \in [Admins -> AdminState] /\ IdleAdmin.pc = "idle"
  BY DEF IInv, TypeOK, IdleAdmin
<1>2. ASSUME NEW a \in Admins, AdminStep(a)
      PROVE  ~(admin[b].pc = "commit" /\ admin'[b].pc = "evict")
  BY <1>1, <1>2 DEF AdminStep, Check, SaveEvict, Record, RequestFails
<1>3. ASSUME NEW a \in Admins, NEW i \in Instances,
             TestPrepare(a, i) \/ \E c \in Credential, omit \in SUBSET Parts :
                                    SavePrepare(a, i, c, omit)
      PROVE  ~(admin[b].pc = "commit" /\ admin'[b].pc = "evict")
  BY <1>1, <1>3 DEF TestPrepare, SavePrepare
<1>4. ASSUME NEW i \in Instances, TokenExpires(i) \/ Restart(i)
      PROVE  ~(admin[b].pc = "commit" /\ admin'[b].pc = "evict")
  BY <1>1, <1>4 DEF TokenExpires, Restart
<1>5. ASSUME NEW d \in Devices,
             DeviceStep(d) \/ \E i \in Instances : Forward(d, i)
      PROVE  ~(admin[b].pc = "commit" /\ admin'[b].pc = "evict")
  BY <1>1, <1>5 DEF DeviceStep, Load, Exchange, Answered, Refused, Forward
<1> QED
  BY <1>2, <1>3, <1>4, <1>5 DEF Next, vars, Parts

AllKeepOthers == \A a \in Admins : KeepsOthers(a)

\* A save stores parts that passed a check and undoes nothing it was silent
\* about, however many of them race (saveConnection).
THEOREM SavesKeepWhatTheyOmit == Spec => SavesUndoNothing
<1>1. IInv /\ [Next]_vars => [AllKeepOthers]_vars
  <2> SUFFICES ASSUME IInv, [Next]_vars PROVE AllKeepOthers
    OBVIOUS
  <2>1. CASE \E a \in Admins : SaveCommit(a)
    BY <2>1, SaveCommitStep DEF AllKeepOthers
  <2>2. CASE ~ \E a \in Admins : SaveCommit(a)
    BY <2>2, OthersEvictNothing DEF AllKeepOthers, KeepsOthers
  <2> QED
    BY <2>1, <2>2
<1>2. Spec => [][AllKeepOthers]_vars
  BY <1>1, Invariance, PTL DEF Spec
<1> QED
  BY <1>2 DEF SavesUndoNothing, AllKeepOthers

\* No device is let through before there is a credential, and what a device
\* resolved was configured (D365ProxyService.credentialsFor).
THEOREM DevicesNeedACredential == Spec => []ResolvedIsConfigured
<1>1. IInv => ResolvedIsConfigured
  BY DEF IInv
<1> QED
  BY <1>1, Invariance, PTL
=============================================================================
