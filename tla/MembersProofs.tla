--------------------------- MODULE MembersProofs ---------------------------
(***************************************************************************)
(* Proofs about Members, for every set of people, invitations, allowances  *)
(* and connections.  IInv is inductive; the bound on the seats counts, on  *)
(* top of the rows, the transactions that have seen a free seat (Reserving)*)
(* and AccessIsEarned is a conjunct of its own.                            *)
(***************************************************************************)
EXTENDS Members, FiniteSetTheorems, TLAPS

\* A connection that reserves a seat was counted, a connection that stops
\* reserving frees its part of the bound.
LEMMA ReservingIsFinite ==
  IsFiniteSet(Reserving) /\ Cardinality(Reserving) \in Nat
    /\ Cardinality(Reserving) <= Cardinality(Conns) /\ Cardinality(Conns) \in Nat \ {0}
<1>1. Reserving \in SUBSET Conns
  BY DEF Reserving
<1> QED
  BY <1>1, FS_Subset, FS_CardinalityType, FS_EmptySet, MembersAssumption

LEMMA ReservingIsFiniteNext ==
  IsFiniteSet(Reserving') /\ Cardinality(Reserving') \in Nat
    /\ Cardinality(Reserving') <= Cardinality(Conns)
<1>1. Reserving' \in SUBSET Conns
  BY DEF Reserving
<1> QED
  BY <1>1, FS_Subset, FS_CardinalityType, MembersAssumption

\* No more reservations than before, and no more people.
LEMMA SeatsKept ==
  ASSUME IInv, UNCHANGED <<seats>>, DOMAIN user' = DOMAIN user, Reserving' \subseteq Reserving
  PROVE  SeatsReserved'
<1>1. Cardinality(Reserving') <= Cardinality(Reserving)
  BY ReservingIsFinite, FS_Subset
<1>2. Cardinality(DOMAIN user) \in Nat
  BY FS_CardinalityType DEF IInv, SeatsReserved
<1> QED
  BY <1>1, <1>2, ReservingIsFinite, ReservingIsFiniteNext
     DEF IInv, SeatsReserved, seats, TypeOK

\* A step that moves one transaction on and writes no table: what has to be
\* shown is about that transaction.
LEMMA LocalStep ==
  ASSUME IInv, UNCHANGED <<user, links, seats>>,
         NEW c \in Conns, NEW r \in Transaction,
         tx' = [tx EXCEPT ![c] = r],
         Sound(r),
         r.pc = "mark" \/ (r.pc = "issue" /\ r.add) =>
           \A d \in Conns \ {c} : ~(Writing(d) /\ tx[d].who = r.who),
         SeatsReserved'
  PROVE  IInv'
<1> USE DEF IInv, links, seats
<1>1. tx \in [Conns -> Transaction]
  BY DEF TypeOK
<1>2. tx'[c] = r /\ \A d \in Conns \ {c} : tx'[d] = tx[d]
  BY <1>1
<1>3. TypeOK'
  BY <1>1 DEF TypeOK
<1>4. (\A d \in Conns : Sound(tx[d]))'
  <2> SUFFICES ASSUME NEW d \in Conns PROVE Sound(tx[d])'
    OBVIOUS
  <2>1. Sound(tx'[d])
    BY <1>2
  <2> QED
    BY <2>1 DEF Sound
<1>5. RowsExclusive'
  BY <1>2 DEF RowsExclusive, Writing
<1>6. ForeignKeys' /\ AccessIsEarned'
  BY DEF ForeignKeys, AccessIsEarned
<1> QED
  BY <1>3, <1>4, <1>5, <1>6

LEMMA IdleIsSound == Idle \in Transaction /\ Sound(Idle)
  BY MembersAssumption DEF Idle, Transaction, Sound

\* COMMIT or ROLLBACK of a transaction that wrote nothing.
LEMMA EndStep ==
  ASSUME IInv, UNCHANGED <<user, links, seats>>, NEW c \in Conns, End(c)
  PROVE  IInv'
<1>1. tx \in [Conns -> Transaction]
  BY DEF IInv, TypeOK
<1>2. Reserving' \subseteq Reserving
  BY <1>1 DEF Reserving, End, Idle
<1>3. SeatsReserved'
  BY <1>2, SeatsKept DEF seats
<1> QED
  BY <1>3, IdleIsSound, LocalStep DEF End, Idle

THEOREM InitIInv == Init => IInv
<1> SUFFICES ASSUME Init PROVE IInv
  OBVIOUS
<1> USE DEF Init
<1> USE MembersAssumption
<1>1. PICK i \in Invitations : invitation = [x \in {i} |-> Founder]
  OBVIOUS
<1>2. DOMAIN user = {Founder} /\ DOMAIN invitation = {i}
  BY <1>1
<1>3. \A c \in Conns : tx[c] = Idle
  OBVIOUS
<1>4. TypeOK
  BY <1>1, <1>2, IdleIsSound DEF TypeOK, Status
<1>5. Reserving = {}
  BY <1>3 DEF Reserving, Idle
<1>6. SeatsReserved
  <2>1. IsFiniteSet({Founder}) /\ Cardinality({Founder}) = 1
    BY FS_Singleton
  <2>2. Cardinality(Reserving) = 0
    BY <1>5, FS_EmptySet
  <2>3. seatLimit \in Nat \ {0} /\ peak = seatLimit
    OBVIOUS
  <2> QED
    BY <1>2, <2>1, <2>2, <2>3, ReservingIsFinite DEF SeatsReserved
<1>7. RowsExclusive
  BY <1>3 DEF RowsExclusive, Writing, Idle
<1>8. ForeignKeys /\ AccessIsEarned
  BY <1>1, <1>2 DEF ForeignKeys, AccessIsEarned
<1>9. \A c \in Conns : Sound(tx[c])
  BY <1>3, IdleIsSound
<1> QED
  BY <1>4, <1>6, <1>7, <1>8, <1>9 DEF IInv

-----------------------------------------------------------------------------
\* One lemma per action.

LEMMA InviteSelectStep ==
  ASSUME IInv, NEW c \in Conns, NEW p \in People, InviteSelect(c, p)
  PROVE  IInv'
<1> DEFINE r == [Idle EXCEPT !.pc = IF p \in DOMAIN user THEN "issue" ELSE "count",
                             !.who = p, !.add = p \notin DOMAIN user]
<1>1. tx[c].pc = "idle" /\ tx' = [tx EXCEPT ![c] = r] /\ UNCHANGED <<user, links, seats>>
  BY DEF InviteSelect, Begin
<1>2. tx \in [Conns -> Transaction]
  BY DEF IInv, TypeOK
<1>3. r \in Transaction
  BY DEF Transaction, Idle
<1>4. r.who = p /\ r.pc \in {"issue", "count"}
      /\ (r.pc = "issue" => p \in DOMAIN user /\ ~r.add)
      /\ (r.pc = "count" => r.add)
  BY DEF Idle
<1>5. Reserving' \subseteq Reserving
  BY <1>1, <1>2, <1>4 DEF Reserving
<1>6. SeatsReserved'
  BY <1>1, <1>5, SeatsKept
<1>7. Sound(r)
  BY <1>4 DEF Sound
<1> HIDE DEF r
<1> QED
  BY <1>1, <1>3, <1>4, <1>6, <1>7, LocalStep

LEMMA InviteCountStep ==
  ASSUME IInv, NEW c \in Conns, InviteCount(c)
  PROVE  IInv'
<1> USE DEF InviteCount
<1>1. CASE ~SeatAvailable
  BY <1>1, EndStep
<1>2. CASE SeatAvailable
  <2> DEFINE r == [tx[c] EXCEPT !.pc = "insert"]
  <2>1. tx \in [Conns -> Transaction] /\ tx[c] \in Transaction /\ tx[c].pc = "count"
        /\ Sound(tx[c])
    BY DEF IInv, TypeOK
  <2>2. tx' = [tx EXCEPT ![c] = r] /\ UNCHANGED <<user, links, seats>>
    BY <1>2, <2>1 DEF Goto
  <2>3. r \in Transaction /\ r.pc = "insert" /\ r.who = tx[c].who /\ r.add = tx[c].add
    BY <2>1 DEF Transaction
  <2>4. Sound(r)
    BY <2>1, <2>3 DEF Sound
  <2>5. SeatsReserved'
    <3>1. Cardinality(DOMAIN user) \in Nat /\ seatLimit \in Nat /\ peak \in Nat
          /\ seatLimit <= peak /\ IsFiniteSet(DOMAIN user)
      BY FS_CardinalityType DEF IInv, TypeOK, SeatsReserved
    <3>2. Cardinality(DOMAIN user) + 1 <= peak
      BY <1>2, <3>1 DEF SeatAvailable
    <3> QED
      BY <2>2, <3>1, <3>2, ReservingIsFinite, ReservingIsFiniteNext DEF SeatsReserved, seats
  <2> HIDE DEF r
  <2> QED
    BY <2>2, <2>3, <2>4, <2>5, LocalStep
<1> QED
  BY <1>1, <1>2

LEMMA InviteInsertStep ==
  ASSUME IInv, NEW c \in Conns, InviteInsert(c)
  PROVE  IInv'
<1> USE DEF InviteInsert
<1>1. CASE tx[c].who \in DOMAIN user
  BY <1>1, EndStep
<1>2. CASE tx[c].who \notin DOMAIN user
  <2> DEFINE r == [tx[c] EXCEPT !.pc = "issue"]
  <2>1. tx \in [Conns -> Transaction] /\ tx[c] \in Transaction /\ tx[c].pc = "insert"
        /\ Sound(tx[c]) /\ Free(c, tx[c].who)
    BY DEF IInv, TypeOK
  <2>2. tx' = [tx EXCEPT ![c] = r] /\ UNCHANGED <<user, links, seats>>
    BY <1>2, <2>1 DEF Goto
  <2>3. r \in Transaction /\ r.pc = "issue" /\ r.who = tx[c].who /\ r.add = tx[c].add
    BY <2>1 DEF Transaction
  <2>4. Sound(r)
    BY <1>2, <2>1, <2>3 DEF Sound
  <2> HIDE DEF r
  <2>5. Reserving' \subseteq Reserving
    BY <2>1, <2>2 DEF Reserving
  <2>6. SeatsReserved'
    BY <2>2, <2>5, SeatsKept
  <2> QED
    BY <2>1, <2>2, <2>3, <2>4, <2>6, LocalStep DEF Free
<1> QED
  BY <1>1, <1>2

\* The row and the link appear together.  Nobody else was inserting the
\* address, so nobody else's view of it changes.
LEMMA InviteCommitStep ==
  ASSUME IInv, NEW c \in Conns, InviteCommit(c)
  PROVE  IInv'
<1> DEFINE p == tx[c].who
<1> USE DEF IInv
<1>1. tx \in [Conns -> Transaction] /\ tx[c].pc = "issue" /\ Sound(tx[c]) /\ p \in People
  BY DEF InviteCommit, TypeOK, Sound
<1>2. tx' = [tx EXCEPT ![c] = Idle] /\ UNCHANGED <<accepted, expired, seatLimit, peak>>
  BY DEF InviteCommit, End, seats
<1>3. tx'[c] = Idle /\ \A d \in Conns \ {c} : tx'[d] = tx[d]
  BY <1>1, <1>2
<1>4. PICK i \in Invitations \ DOMAIN invitation :
        invitation' = Insert(invitation, i, p)
  BY DEF InviteCommit
<1>5. /\ DOMAIN invitation' = DOMAIN invitation \cup {i}
      /\ invitation'[i] = p
      /\ \A x \in DOMAIN invitation : invitation'[x] = invitation[x]
  BY <1>4 DEF Insert
<1>6. /\ DOMAIN user' = DOMAIN user \cup {p}
      /\ p \notin DOMAIN user <=> tx[c].add
      /\ tx[c].add => user'[p] = [status |-> "invited", passwords |-> 0]
      /\ \A q \in DOMAIN user : user'[q] = user[q]
  <2>1. p \notin DOMAIN user <=> tx[c].add
    BY <1>1 DEF Sound
  <2>2. CASE tx[c].add
    BY <2>1, <2>2 DEF InviteCommit, Insert
  <2>3. CASE ~tx[c].add
    BY <2>1, <2>3 DEF InviteCommit
  <2> QED
    BY <2>1, <2>2, <2>3
<1>7. TypeOK'
  <2>1. user' \in [DOMAIN user' -> [status : Status, passwords : Nat]]
    <3>1. CASE tx[c].add
      BY <3>1 DEF InviteCommit, Insert, TypeOK, Status
    <3>2. CASE ~tx[c].add
      BY <3>2 DEF InviteCommit, TypeOK
    <3> QED
      BY <3>1, <3>2
  <2>2. invitation' \in [DOMAIN invitation' -> People]
    BY <1>1, <1>4, <1>5 DEF Insert, TypeOK
  <2>3. tx' \in [Conns -> Transaction]
    BY <1>1, <1>2, IdleIsSound
  <2> QED
    BY <1>1, <1>2, <1>5, <1>6, <2>1, <2>2, <2>3 DEF TypeOK
<1>8. ASSUME NEW d \in Conns PROVE Sound(tx[d])'
  <2>1. CASE d = c
    BY <1>3, <2>1 DEF Sound, Idle
  <2>2. CASE d # c
    <3>1. tx[d] = tx'[d] /\ Sound(tx[d])
      BY <1>3, <2>2
    <3>2. tx[d].pc = "issue" => (tx[d].add <=> tx[d].who \notin DOMAIN user')
      BY <1>1, <1>6, <2>2, <3>1 DEF Sound, RowsExclusive, Writing
    <3> QED
      BY <1>5, <1>6, <3>1, <3>2 DEF Sound
  <2> QED
    BY <2>1, <2>2
<1>9. RowsExclusive'
  BY <1>3 DEF RowsExclusive, Writing, Idle
<1>10. ForeignKeys'
  BY <1>5, <1>6 DEF ForeignKeys
<1>11. SeatsReserved'
  <2>1. IsFiniteSet(DOMAIN user) /\ Cardinality(DOMAIN user) \in Nat
    BY FS_CardinalityType DEF SeatsReserved
  <2>2. Reserving' \subseteq Reserving
    BY <1>3 DEF Reserving, Idle
  <2>3. CASE ~tx[c].add
    <3>1. DOMAIN user' = DOMAIN user
      BY <1>6, <2>3
    <3> QED
      BY <1>2, <2>2, <3>1, SeatsKept DEF seats
  <2>4. CASE tx[c].add
    <3>1. IsFiniteSet(DOMAIN user')
          /\ Cardinality(DOMAIN user') = Cardinality(DOMAIN user) + 1
      BY <1>6, <2>1, <2>4, FS_AddElement
    <3>2. c \in Reserving /\ Reserving' \subseteq Reserving \ {c}
      BY <1>1, <1>3, <2>2, <2>4 DEF Reserving, Idle
    <3>3. IsFiniteSet(Reserving \ {c})
          /\ Cardinality(Reserving \ {c}) = Cardinality(Reserving) - 1
      BY <3>2, ReservingIsFinite, FS_RemoveElement
    <3>4. Cardinality(Reserving') <= Cardinality(Reserving) - 1
      BY <3>2, <3>3, FS_Subset
    <3> QED
      BY <1>2, <2>1, <3>1, <3>4, ReservingIsFinite, ReservingIsFiniteNext
         DEF SeatsReserved, TypeOK
  <2> QED
    BY <2>3, <2>4
<1>12. AccessIsEarned'
  <2>1. ASSUME NEW q \in DOMAIN user PROVE
          (\E x \in accepted' : invitation'[x] = q) <=> \E x \in accepted : invitation[x] = q
    BY <1>2, <1>5 DEF TypeOK
  <2>2. tx[c].add => ~ \E x \in accepted' : invitation'[x] = p
    BY <1>2, <1>5, <1>6 DEF TypeOK, ForeignKeys
  <2> QED
    BY <1>6, <2>1, <2>2 DEF AccessIsEarned
<1> QED
  BY <1>7, <1>8, <1>9, <1>10, <1>11, <1>12

LEMMA AcceptSelectStep ==
  ASSUME IInv, NEW c \in Conns, NEW i \in Invitations, AcceptSelect(c, i)
  PROVE  IInv'
<1> DEFINE r == [Idle EXCEPT !.pc = "hash", !.inv = i, !.who = invitation[i]]
<1>1. /\ tx[c].pc = "idle" /\ tx' = [tx EXCEPT ![c] = r]
      /\ i \in DOMAIN invitation /\ UNCHANGED <<user, links, seats>>
  BY DEF AcceptSelect, Begin
<1>2. tx \in [Conns -> Transaction] /\ invitation[i] \in People \cap DOMAIN user
  BY <1>1 DEF IInv, TypeOK, ForeignKeys
<1>3. r \in Transaction
  BY <1>2 DEF Transaction, Idle
<1>4. r.who = invitation[i] /\ r.pc = "hash" /\ r.inv = i
  BY DEF Idle
<1>5. Sound(r)
  BY <1>1, <1>2, <1>4 DEF Sound
<1> HIDE DEF r
<1>6. Reserving' \subseteq Reserving
  BY <1>1, <1>2, <1>4 DEF Reserving
<1>7. SeatsReserved'
  BY <1>1, <1>6, SeatsKept
<1> QED
  BY <1>1, <1>3, <1>4, <1>5, <1>7, LocalStep

LEMMA AcceptPasswordStep ==
  ASSUME IInv, NEW c \in Conns, AcceptPassword(c)
  PROVE  IInv'
<1> DEFINE r == [tx[c] EXCEPT !.pc = "mark"]
<1>1. tx \in [Conns -> Transaction] /\ tx[c] \in Transaction /\ tx[c].pc = "hash"
      /\ Sound(tx[c]) /\ Free(c, tx[c].who)
  BY DEF IInv, TypeOK, AcceptPassword
<1>2. tx' = [tx EXCEPT ![c] = r] /\ UNCHANGED <<user, links, seats>>
  BY <1>1 DEF AcceptPassword, Goto
<1>3. r \in Transaction /\ r.pc = "mark" /\ r.who = tx[c].who /\ r.inv = tx[c].inv
  BY <1>1 DEF Transaction
<1>4. Sound(r)
  BY <1>1, <1>3 DEF Sound
<1> HIDE DEF r
<1>5. Reserving' \subseteq Reserving
  BY <1>1, <1>2, <1>3 DEF Reserving
<1>6. SeatsReserved'
  BY <1>2, <1>5, SeatsKept
<1> QED
  BY <1>1, <1>2, <1>3, <1>4, <1>6, LocalStep DEF Free

LEMMA StatusSelectStep ==
  ASSUME IInv, NEW c \in Conns, NEW p \in People, NEW s \in {"active", "disabled"},
         StatusSelect(c, p, s)
  PROVE  IInv'
<1> DEFINE r == [Idle EXCEPT !.pc = "status", !.who = p, !.next = s]
<1>1. /\ tx[c].pc = "idle" /\ tx' = [tx EXCEPT ![c] = r] /\ UNCHANGED <<user, links, seats>>
      /\ p \in DOMAIN user /\ (s = "active" => user[p].passwords > 0)
  BY DEF StatusSelect, Begin
<1>2. tx \in [Conns -> Transaction]
  BY DEF IInv, TypeOK
<1>3. r \in Transaction
  BY MembersAssumption DEF Transaction, Idle
<1>4. r.who = p /\ r.pc = "status" /\ r.next = s
  BY DEF Idle
<1>5. Sound(r)
  BY <1>1, <1>4 DEF Sound
<1> HIDE DEF r
<1>6. Reserving' \subseteq Reserving
  BY <1>1, <1>2, <1>4 DEF Reserving
<1>7. SeatsReserved'
  BY <1>1, <1>6, SeatsKept
<1> QED
  BY <1>1, <1>3, <1>4, <1>5, <1>7, LocalStep

-----------------------------------------------------------------------------
\* A COMMIT that changes columns of a person and marks invitations accepted:
\* what has to be shown is about that person.
LEMMA PersonStep ==
  ASSUME IInv, NEW c \in Conns, NEW p \in DOMAIN user, End(c),
         NEW row \in [status : Status, passwords : Nat],
         user' = [user EXCEPT ![p] = row],
         row.passwords >= user[p].passwords,
         row.status = "active" => row.passwords > 0,
         UNCHANGED <<invitation, expired, seats>>,
         accepted \subseteq accepted', accepted' \subseteq DOMAIN invitation,
         \A i \in accepted' \ accepted : invitation[i] = p,
         row.passwords > 0 <=> \E i \in accepted' : invitation[i] = p
  PROVE  IInv'
<1> USE DEF IInv
<1>1. tx \in [Conns -> Transaction] /\ tx' = [tx EXCEPT ![c] = Idle]
  BY DEF TypeOK, End
<1>2. tx'[c] = Idle /\ \A d \in Conns \ {c} : tx'[d] = tx[d]
  BY <1>1
<1>3. /\ DOMAIN user' = DOMAIN user /\ user'[p] = row
      /\ \A q \in DOMAIN user \ {p} : user'[q] = user[q]
      /\ user' \in [DOMAIN user -> [status : Status, passwords : Nat]]
  BY DEF TypeOK
<1>4. TypeOK'
  BY <1>1, <1>3, IdleIsSound DEF TypeOK, seats
<1>5. ASSUME NEW d \in Conns PROVE Sound(tx[d])'
  <2>1. CASE d = c
    BY <1>2, <2>1 DEF Sound, Idle
  <2>2. CASE d # c
    <3>1. tx[d] = tx'[d] /\ Sound(tx[d])
      BY <1>2, <2>2
    <3>2. \A q \in DOMAIN user : user[q].passwords > 0 => user'[q].passwords > 0
      BY <1>3 DEF TypeOK
    <3> QED
      BY <1>3, <3>1, <3>2 DEF Sound
  <2> QED
    BY <2>1, <2>2
<1>6. RowsExclusive' /\ ForeignKeys'
  BY <1>2, <1>3 DEF RowsExclusive, Writing, Idle, ForeignKeys
<1>7. SeatsReserved'
  <2>1. Reserving' \subseteq Reserving
    BY <1>2 DEF Reserving, Idle
  <2> QED
    BY <1>3, <2>1, SeatsKept
<1>8. AccessIsEarned'
  <2>1. ASSUME NEW q \in DOMAIN user \ {p} PROVE
          (\E i \in accepted' : invitation[i] = q) <=> \E i \in accepted : invitation[i] = q
    OBVIOUS
  <2> QED
    BY <1>3, <2>1 DEF AccessIsEarned
<1> QED
  BY <1>4, <1>5, <1>6, <1>7, <1>8

LEMMA AcceptCommitStep ==
  ASSUME IInv, NEW c \in Conns, AcceptCommit(c)
  PROVE  IInv'
<1> DEFINE p == tx[c].who
           row == [status |-> "active", passwords |-> user[p].passwords + 1]
<1>1. /\ p \in DOMAIN user /\ tx[c].inv \in DOMAIN invitation
      /\ invitation[tx[c].inv] = p
  BY DEF IInv, Sound, AcceptCommit
<1>2. user[p].passwords \in Nat /\ accepted \subseteq DOMAIN invitation
  BY <1>1 DEF IInv, TypeOK
<1>3. row \in [status : Status, passwords : Nat]
  BY <1>2 DEF Status
<1>4. user' = [user EXCEPT ![p] = row] /\ accepted' = accepted \cup {tx[c].inv}
      /\ End(c) /\ UNCHANGED <<invitation, expired, seats>>
  BY DEF AcceptCommit
<1>5. row.passwords > 0 /\ row.passwords >= user[p].passwords /\ row.status = "active"
  BY <1>2
<1> HIDE DEF row
<1> QED
  BY <1>1, <1>2, <1>3, <1>4, <1>5, PersonStep

LEMMA StatusCommitStep ==
  ASSUME IInv, NEW c \in Conns, StatusCommit(c)
  PROVE  IInv'
<1> DEFINE p == tx[c].who
           row == [user[p] EXCEPT !.status = tx[c].next]
<1>1. p \in DOMAIN user /\ (tx[c].next = "active" => user[p].passwords > 0)
  BY DEF IInv, Sound, StatusCommit
<1>2. user[p] \in [status : Status, passwords : Nat] /\ tx[c].next \in Status
      /\ accepted \subseteq DOMAIN invitation
  BY <1>1 DEF IInv, TypeOK, Transaction, Status
<1>3. row \in [status : Status, passwords : Nat]
      /\ row.passwords = user[p].passwords /\ row.status = tx[c].next
  BY <1>2
<1>4. user' = [user EXCEPT ![p] = row] /\ End(c) /\ UNCHANGED <<links, seats>>
  BY <1>1, <1>2 DEF StatusCommit
<1>5. user[p].passwords > 0 <=> \E i \in accepted : invitation[i] = p
  BY <1>1 DEF IInv, AccessIsEarned
<1>6. row.passwords >= user[p].passwords /\ (row.status = "active" => row.passwords > 0)
      /\ (row.passwords > 0 <=> \E i \in accepted : invitation[i] = p)
  BY <1>1, <1>2, <1>3, <1>5
<1> HIDE DEF row
<1> QED
  BY <1>1, <1>2, <1>3, <1>4, <1>6, PersonStep DEF links

LEMMA SetSeatLimitStep ==
  ASSUME IInv, NEW n \in SeatLimits, SetSeatLimit(n)
  PROVE  IInv'
<1> USE DEF IInv, SetSeatLimit, links
<1>1. n \in Nat /\ n <= peak' /\ peak <= peak' /\ peak' \in Nat /\ seatLimit' = n
  BY MembersAssumption DEF TypeOK
<1>2. TypeOK'
  BY <1>1 DEF TypeOK
<1>3. Reserving' = Reserving
  BY DEF Reserving
<1>4. SeatsReserved'
  BY <1>1, <1>3, FS_CardinalityType, ReservingIsFinite DEF SeatsReserved, TypeOK
<1> QED
  BY <1>2, <1>4 DEF Sound, RowsExclusive, Writing, ForeignKeys, AccessIsEarned

LEMMA InvitationExpiresStep ==
  ASSUME IInv, NEW i \in Invitations, InvitationExpires(i)
  PROVE  IInv'
<1> USE DEF IInv, InvitationExpires
<1>1. TypeOK'
  BY DEF TypeOK, seats
<1>2. SeatsReserved'
  BY SeatsKept DEF Reserving
<1> QED
  BY <1>1, <1>2 DEF Sound, RowsExclusive, Writing, ForeignKeys, AccessIsEarned, seats

\* IInv is inductive: every action preserves it.
THEOREM Inductive == IInv /\ [Next]_vars => IInv'
<1> SUFFICES ASSUME IInv, [Next]_vars PROVE IInv'
  OBVIOUS
<1>1. ASSUME NEW c \in Conns, Request(c) PROVE IInv'
  BY <1>1, InviteSelectStep, AcceptSelectStep, StatusSelectStep DEF Request
<1>2. ASSUME NEW c \in Conns, Step(c) PROVE IInv'
  BY <1>2, InviteCountStep, InviteInsertStep, InviteCommitStep,
     AcceptPasswordStep, AcceptCommitStep, StatusCommitStep DEF Step
<1>3. ASSUME NEW c \in Conns, Rollback(c) PROVE IInv'
  BY <1>3, EndStep DEF Rollback
<1>4. CASE UNCHANGED vars
  <2>1. TypeOK'
    BY <1>4 DEF vars, links, seats, IInv, TypeOK
  <2>2. SeatsReserved'
    BY <1>4, SeatsKept DEF vars, Reserving
  <2> QED
    BY <1>4, <2>1, <2>2 DEF vars, links, IInv, Sound, RowsExclusive, Writing,
                            ForeignKeys, AccessIsEarned
<1>5. ASSUME NEW n \in SeatLimits, SetSeatLimit(n) PROVE IInv'
  BY <1>5, SetSeatLimitStep
<1>6. ASSUME NEW i \in Invitations, InvitationExpires(i) PROVE IInv'
  BY <1>6, InvitationExpiresStep
<1>7. CASE Next
  BY <1>1, <1>2, <1>3, <1>5, <1>6, <1>7 DEF Next
<1> QED
  BY <1>4, <1>7

\* In every reachable state, for every set of people, invitations, allowances
\* and connections (invitations.ts, modules.ts, user-administration.ts).
THEOREM Invariance == Spec => []IInv
BY InitIInv, Inductive, PTL DEF Spec

\* The package is exceeded by at most one seat for every other connection
\* (assertSeatAvailable).
THEOREM SeatsAreBounded == Spec => []SeatsBounded
<1>1. IInv => SeatsBounded
  BY FS_CardinalityType, ReservingIsFinite DEF IInv, TypeOK, SeatsReserved, SeatsBounded
<1> QED
  BY <1>1, Invariance, PTL

\* Nobody is active without a password, and exactly those who accepted an
\* invitation have one (acceptInvitation, setUserStatus).
THEOREM AccessIsAlwaysEarned == Spec => []AccessIsEarned
<1>1. IInv => AccessIsEarned
  BY DEF IInv
<1> QED
  BY <1>1, Invariance, PTL

-----------------------------------------------------------------------------
\* Members implements Directory.

\* What Directory sees of the tables.
Statuses == [p \in DOMAIN user |-> user[p].status]
Accepted == {invitation[i] : i \in accepted}

LEMMA SameDirectory ==
  ASSUME UNCHANGED <<user, invitation, accepted>>
  PROVE  UNCHANGED Promised!vars
BY DEF Promised!vars

\* The new link is accepted by nobody yet; a row, if one is added, is new.
LEMMA InvitesPerson ==
  ASSUME IInv, NEW c \in Conns, InviteCommit(c)
  PROVE  [Promised!Next]_(Promised!vars)
<1>p. PICK p \in People : p = tx[c].who
  BY DEF IInv, Sound, InviteCommit
<1>1. (tx[c].add <=> p \notin DOMAIN user) /\ accepted \subseteq DOMAIN invitation
  BY <1>p DEF IInv, TypeOK, Sound, InviteCommit
<1>2. PICK i \in Invitations \ DOMAIN invitation : invitation' = Insert(invitation, i, p)
  BY <1>p DEF InviteCommit
<1>3. UNCHANGED accepted
  BY DEF InviteCommit
<1>4. Accepted' = Accepted
  BY <1>1, <1>2, <1>3 DEF Accepted, Insert
<1>5. CASE tx[c].add
  <2>1. user' = Insert(user, p, [status |-> "invited", passwords |-> 0])
    BY <1>p, <1>5 DEF InviteCommit
  <2>2. Statuses' = [q \in DOMAIN Statuses \cup {p} |->
                       IF q = p THEN "invited" ELSE Statuses[q]]
    BY <2>1 DEF Statuses, Insert
  <2>3. Promised!Invite(p)
    BY <1>1, <1>4, <1>5, <2>2 DEF Promised!Invite, Statuses, Accepted
  <2> QED
    BY <2>3 DEF Promised!Next
<1>6. CASE ~tx[c].add
  <2>1. user' = user
    BY <1>6 DEF InviteCommit
  <2> QED
    BY <1>4, <2>1 DEF Promised!vars, Accepted
<1> QED
  BY <1>1, <1>5, <1>6

LEMMA AcceptsInvitation ==
  ASSUME IInv, NEW c \in Conns, AcceptCommit(c)
  PROVE  Promised!Next
<1>p. PICK p \in People : p = tx[c].who
  BY DEF IInv, Sound, AcceptCommit
<1>1. /\ p \in DOMAIN user
      /\ tx[c].inv \in DOMAIN invitation /\ invitation[tx[c].inv] = p
  BY <1>p DEF IInv, Sound, AcceptCommit
<1>2. /\ UNCHANGED invitation /\ accepted' = accepted \cup {tx[c].inv}
      /\ user' = [user EXCEPT ![p] = [status |-> "active", passwords |-> @.passwords + 1]]
  BY <1>p DEF AcceptCommit
<1>3. Statuses' = [Statuses EXCEPT ![p] = "active"]
  BY <1>1, <1>2 DEF Statuses
<1>4. Accepted' = Accepted \cup {p}
  BY <1>1, <1>2 DEF Accepted
<1>5. Promised!Accept(p)
  BY <1>1, <1>3, <1>4 DEF Promised!Accept, Statuses, Accepted
<1> QED
  BY <1>5 DEF Promised!Next

\* Who is made active has a password, and so has accepted an invitation
\* (AccessIsEarned), whatever happened since the status was looked at.
LEMMA ChangesStatus ==
  ASSUME IInv, NEW c \in Conns, StatusCommit(c)
  PROVE  Promised!Next
<1> DEFINE s == tx[c].next
<1>p. PICK p \in People : p = tx[c].who
  BY DEF IInv, Sound, StatusCommit
<1>1. /\ p \in DOMAIN user /\ s \in {"active", "disabled"}
      /\ s = "active" => user[p].passwords > 0
      /\ user[p] \in [status : Status, passwords : Nat]
  BY <1>p DEF IInv, TypeOK, Transaction, Sound, StatusCommit
<1>2. UNCHANGED <<invitation, accepted>> /\ user' = [user EXCEPT ![p].status = s]
  BY <1>p DEF StatusCommit, links
<1>3. Statuses' = [Statuses EXCEPT ![p] = s]
  BY <1>1, <1>2 DEF Statuses
<1>4. Accepted' = Accepted
  BY <1>2 DEF Accepted
<1>5. s = "active" => p \in Accepted
  BY <1>1 DEF IInv, AccessIsEarned, Accepted
<1>6. Promised!Suspend(p) \/ Promised!Reinstate(p)
  BY <1>1, <1>3, <1>4, <1>5
     DEF Promised!Suspend, Promised!Reinstate, Statuses, Accepted
<1> QED
  BY <1>6 DEF Promised!Next

\* Whatever requests overtake each other, fail or are rolled back, what commits
\* is a step of the directory (issueInvitation, acceptInvitation, setUserStatus).
THEOREM MembersImplementDirectory == Spec => ImplementsDirectory
<1>1. Init => Promised!Init
  BY DEF Init, Promised!Init
<1>2. IInv /\ [Next]_vars => [Promised!Next]_(Promised!vars)
  <2> SUFFICES ASSUME IInv, [Next]_vars
               PROVE  Promised!Next \/ UNCHANGED Promised!vars
    OBVIOUS
  <2>1. ASSUME NEW c \in Conns, Step(c) PROVE Promised!Next \/ UNCHANGED Promised!vars
    BY <2>1, InvitesPerson, AcceptsInvitation, ChangesStatus, SameDirectory
       DEF Step, InviteCount, InviteInsert, AcceptPassword, links
  <2>2. ASSUME NEW c \in Conns, Request(c) \/ Rollback(c) PROVE UNCHANGED Promised!vars
    BY <2>2, SameDirectory
       DEF Request, InviteSelect, AcceptSelect, StatusSelect, Rollback, links
  <2>3. ASSUME NEW n \in SeatLimits, SetSeatLimit(n) PROVE UNCHANGED Promised!vars
    BY <2>3, SameDirectory DEF SetSeatLimit, links
  <2>4. ASSUME NEW i \in Invitations, InvitationExpires(i) PROVE UNCHANGED Promised!vars
    BY <2>4, SameDirectory DEF InvitationExpires
  <2>5. CASE UNCHANGED vars
    BY <2>5, SameDirectory DEF vars, links
  <2> QED
    BY <2>1, <2>2, <2>3, <2>4, <2>5 DEF Next
<1> QED
  BY <1>1, <1>2, Invariance, PTL DEF Spec, ImplementsDirectory, Promised!Spec

\* Nobody who was ever invited is lost, and nobody who was active or suspended
\* is an invited stranger again.
THEOREM NobodyIsLost == Spec => Promised!NobodyIsLost
<1>1. Promised!Next => Promised!RowsRemain
  BY DEF Promised!Next, Promised!Invite, Promised!Accept, Promised!Suspend,
         Promised!Reinstate, Promised!RowsRemain
<1> QED
  BY <1>1, MembersImplementDirectory, PTL
  DEF ImplementsDirectory, Promised!Spec, Promised!NobodyIsLost
=============================================================================
