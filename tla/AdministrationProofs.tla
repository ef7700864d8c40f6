------------------------ MODULE AdministrationProofs ------------------------
(***************************************************************************)
(* Proofs about Administration, for every set of items, implications and   *)
(* overlapping requests.  IInv is inductive.  A row has one writer         *)
(* (RowsExclusive), so what a DELETE has seen and what it has not stay     *)
(* apart; and the permissions it has not seen are closed, because they are *)
(* what is left of other whole sets when whole sets are taken away.        *)
(***************************************************************************)
EXTENDS Administration, TLAPS

Touched(x) == x.del \cup x.ins

\* RowsExclusive and Sound of one transaction x at the table k with rows R
Alone(x, R, k) ==
  /\ x.pc # "insert" => x.left = {} /\ x.ins = {}
  /\ x.pc \notin {"deleting", "insert"} => x.del = {}
  /\ x.pc # "deleting" => x.next = {}
  /\ x.del \subseteq R /\ x.next \subseteq R
  /\ x.ins \cap R \subseteq x.del
  /\ x.ins \subseteq x.want /\ x.left \subseteq x.want

\* What it will leave behind: of permissions, and of roles and modules
Whole(x, R) ==
  /\ Closed(x.want)
  /\ x.pc \in {"deleting", "insert"} =>
       R \subseteq x.next \cup x.del \cup x.late /\ Closed(R \ (x.next \cup x.del))
  /\ x.pc = "insert" => x.want = x.ins \cup x.left

Different(x, R) ==
  /\ x.pc \in {"deleting", "insert"} => R \ x.want \subseteq x.next \cup x.del \cup x.late
  /\ (x.del \cup x.next) \cap x.want = {}
  /\ x.pc \in {"delete", "deleting"} => x.want \cap x.held \subseteq R \cup x.taken
  /\ x.pc = "insert" => x.want \subseteq R \cup x.ins \cup x.left \cup x.taken

Good(x, R, k) ==
  /\ x \in Transaction
  /\ Alone(x, R, k)
  /\ IF k = "permissions" THEN Whole(x, R) ELSE Different(x, R)

Apart == \A c, d \in Conns : c # d => Touched(tx[c]) \cap Touched(tx[d]) = {}

LEMMA Parts ==
  IInv <=> /\ kind \in Kinds /\ rows \subseteq Items /\ PermissionsClosed
           /\ tx \in [Conns -> Transaction]
           /\ \A c \in Conns : Good(tx[c], rows, kind)
           /\ Apart
<1> SUFFICES ASSUME tx \in [Conns -> Transaction]
             PROVE  RowsExclusive /\ (\A c \in Conns : Sound(c))
                    <=> (\A c \in Conns : Good(tx[c], rows, kind)) /\ Apart
  BY DEF IInv, TypeOK
<1>1. ASSUME NEW c \in Conns
      PROVE  Good(tx[c], rows, kind) <=> Alone(tx[c], rows, kind) /\ Sound(c)
  <2>1. tx[c] \in Transaction
    OBVIOUS
  <2>2. CASE kind = "permissions"
    BY <2>1, <2>2 DEF Good, Alone, Whole, Sound
  <2>3. CASE kind # "permissions"
    BY <2>1, <2>3 DEF Good, Alone, Different, Sound
  <2> QED
    BY <2>2, <2>3
<1>2. RowsExclusive /\ (\A c \in Conns : Sound(c))
      <=> (\A c \in Conns : Alone(tx[c], rows, kind) /\ Sound(c)) /\ Apart
  BY DEF RowsExclusive, Alone, Apart, Touched, Sound
<1> QED
  BY <1>1, <1>2

LEMMA PartsNext ==
  IInv' <=> /\ kind' \in Kinds /\ rows' \subseteq Items /\ PermissionsClosed'
            /\ tx' \in [Conns -> Transaction]
            /\ \A c \in Conns : Good(tx'[c], rows', kind')
            /\ Apart'
<1> SUFFICES ASSUME tx' \in [Conns -> Transaction]
             PROVE  RowsExclusive' /\ (\A c \in Conns : Sound(c)')
                    <=> (\A c \in Conns : Good(tx'[c], rows', kind')) /\ Apart'
  BY DEF IInv, TypeOK
<1>1. ASSUME NEW c \in Conns
      PROVE  Good(tx'[c], rows', kind') <=> Alone(tx'[c], rows', kind') /\ Sound(c)'
  <2>1. tx'[c] \in Transaction
    OBVIOUS
  <2>2. CASE kind' = "permissions"
    BY <2>1, <2>2 DEF Good, Alone, Whole, Sound
  <2>3. CASE kind' # "permissions"
    BY <2>1, <2>3 DEF Good, Alone, Different, Sound
  <2> QED
    BY <2>2, <2>3
<1>2. RowsExclusive' /\ (\A c \in Conns : Sound(c)')
      <=> (\A c \in Conns : Alone(tx'[c], rows', kind') /\ Sound(c)') /\ Apart'
  BY DEF RowsExclusive, Alone, Apart, Touched, Sound
<1> QED
  BY <1>1, <1>2

LEMMA IdleIsGood ==
  ASSUME NEW R, NEW k
  PROVE  Good(Idle, R, k) /\ Touched(Idle) = {}
<1>1. Idle \in Transaction
  BY DEF Idle, Transaction
<1>2. Closed({})
  BY DEF Closed
<1> QED
  BY <1>1, <1>2 DEF Good, Alone, Whole, Different, Touched, Idle

THEOREM InitIInv == Init => IInv
<1> SUFFICES ASSUME Init PROVE IInv
  OBVIOUS
<1>1. tx \in [Conns -> Transaction] /\ \A c \in Conns : tx[c] = Idle
  BY IdleIsGood DEF Init, Good
<1>2. PermissionsClosed
  BY DEF Init, PermissionsClosed
<1> QED
  BY <1>1, <1>2, IdleIsGood, Parts DEF Init, Apart

-----------------------------------------------------------------------------
\* The steps that change one transaction and no row

LEMMA LocalStep ==
  ASSUME IInv, UNCHANGED <<kind, rows>>, NEW c \in Conns, NEW x,
         tx' = [tx EXCEPT ![c] = x],
         Good(x, rows, kind),
         \A d \in Conns \ {c} : Touched(x) \cap Touched(tx[d]) = {}
  PROVE  IInv'
<1>1. x \in Transaction
  BY DEF Good
<1>2. tx' \in [Conns -> Transaction]
  BY <1>1, Parts
<1>3. tx'[c] = x /\ \A d \in Conns \ {c} : tx'[d] = tx[d]
  BY Parts
<1>4. \A d \in Conns : Good(tx'[d], rows, kind)
  BY <1>3, Parts
<1>5. Apart'
  BY <1>3, Parts DEF Apart
<1>6. PermissionsClosed'
  BY Parts DEF PermissionsClosed
<1>7. \A d \in Conns : Good(tx'[d], rows', kind')
  BY <1>4
<1> QED
  BY <1>2, <1>5, <1>6, <1>7, Parts, PartsNext

\* A request ends and leaves everything as it was.
LEMMA EndsStep ==
  ASSUME IInv, UNCHANGED <<kind, rows>>, NEW c \in Conns, End(c)
  PROVE  IInv'
BY IdleIsGood, LocalStep DEF End

LEMMA SelectStep ==
  ASSUME IInv, NEW c \in Conns, NEW w \in SUBSET Items, Select(c, w)
  PROVE  IInv'
<1> DEFINE x == [Idle EXCEPT !.pc = "delete", !.want = w, !.held = rows]
<1>1. x \in Transaction
  BY Parts DEF Idle, Transaction
<1>2. /\ x.pc = "delete" /\ x.want = w /\ x.held = rows
      /\ x.next = {} /\ x.del = {} /\ x.left = {} /\ x.ins = {}
  BY DEF Idle
<1>3. kind = "permissions" => Closed(x.want)
  BY <1>2 DEF Select
<1>4. Good(x, rows, kind) /\ Touched(x) = {}
  BY <1>1, <1>2, <1>3 DEF Good, Alone, Whole, Different, Touched
<1> HIDE DEF x
<1> QED
  BY <1>4, LocalStep DEF Select, x

LEMMA DeleteStep ==
  ASSUME IInv, NEW c \in Conns, Delete(c)
  PROVE  IInv'
<1> DEFINE S == IF kind = "permissions" THEN rows ELSE rows \ tx[c].want
           x == [tx[c] EXCEPT !.pc = "deleting", !.next = S]
<1>1. tx[c] \in Transaction /\ Good(tx[c], rows, kind) /\ rows \subseteq Items
  BY Parts
<1>2. tx' = [tx EXCEPT ![c] = x] /\ tx[c].pc = "delete"
  BY Parts DEF Delete
<1>3. x \in Transaction /\ x.pc = "deleting" /\ x.next = S /\ x.del = tx[c].del
      /\ x.ins = tx[c].ins /\ x.left = tx[c].left /\ x.want = tx[c].want
      /\ x.held = tx[c].held /\ x.taken = tx[c].taken
  BY <1>1 DEF Transaction
<1>4. Good(x, rows, kind)
  <2>1. Alone(x, rows, kind)
    BY <1>1, <1>2, <1>3 DEF Good, Alone
  <2>2. ASSUME kind = "permissions" PROVE Whole(x, rows)
    <3>1. rows \ (x.next \cup x.del) = {}
      BY <1>3, <2>2
    <3> QED
      BY <1>1, <1>2, <1>3, <2>2, <3>1 DEF Good, Whole, Closed
  <2>3. ASSUME kind # "permissions" PROVE Different(x, rows)
    BY <1>1, <1>2, <1>3, <2>3 DEF Good, Different
  <2> QED
    BY <1>3, <2>1, <2>2, <2>3 DEF Good
<1>5. \A d \in Conns \ {c} : Touched(x) \cap Touched(tx[d]) = {}
  BY <1>3, Parts DEF Apart, Touched
<1> HIDE DEF x
<1> QED
  BY <1>2, <1>4, <1>5, LocalStep DEF Delete

LEMMA DeleteRowStep ==
  ASSUME IInv, NEW c \in Conns, NEW i \in Items, DeleteRow(c, i)
  PROVE  IInv'
<1> DEFINE x == [tx[c] EXCEPT !.next = @ \ {i}, !.del = @ \cup {i}]
<1>1. tx[c] \in Transaction /\ Good(tx[c], rows, kind)
  BY Parts
<1>2. tx' = [tx EXCEPT ![c] = x] /\ tx[c].pc = "deleting" /\ i \in tx[c].next
  BY Parts DEF DeleteRow
<1>3. x \in Transaction /\ x.pc = "deleting" /\ x.next = tx[c].next \ {i}
      /\ x.del = tx[c].del \cup {i} /\ x.late = tx[c].late
      /\ x.ins = tx[c].ins /\ x.left = tx[c].left /\ x.want = tx[c].want
      /\ x.held = tx[c].held /\ x.taken = tx[c].taken
  BY <1>1, <1>2 DEF Transaction
<1>4. x.next \cup x.del = tx[c].next \cup tx[c].del
  BY <1>2, <1>3
<1>5. Good(x, rows, kind)
  <2>1. Alone(x, rows, kind)
    BY <1>1, <1>2, <1>3 DEF Good, Alone
  <2>2. ASSUME kind = "permissions" PROVE Whole(x, rows)
    BY <1>1, <1>2, <1>3, <1>4, <2>2 DEF Good, Whole
  <2>3. ASSUME kind # "permissions" PROVE Different(x, rows)
    <3>1. i \notin tx[c].want
      BY <1>1, <1>2, <2>3 DEF Good, Alone, Different
    <3> QED
      BY <1>1, <1>2, <1>3, <1>4, <2>3, <3>1 DEF Good, Different
  <2> QED
    BY <1>3, <2>1, <2>2, <2>3 DEF Good
<1>6. \A d \in Conns \ {c} : Touched(x) \cap Touched(tx[d]) = {}
  BY <1>3, Parts DEF Apart, Touched, DeleteRow, Held
<1> HIDE DEF x
<1> QED
  BY <1>2, <1>5, <1>6, LocalStep DEF DeleteRow

LEMMA InsertStep ==
  ASSUME IInv, NEW c \in Conns, Insert(c)
  PROVE  IInv'
<1> DEFINE S == IF kind = "roles" THEN tx[c].want \ tx[c].held ELSE tx[c].want
           x == [tx[c] EXCEPT !.pc = "insert", !.left = S]
<1>1. tx[c] \in Transaction /\ Good(tx[c], rows, kind)
  BY Parts
<1>2. tx' = [tx EXCEPT ![c] = x] /\ tx[c].pc = "deleting" /\ tx[c].next = {}
  BY Parts DEF Insert
<1>3. x \in Transaction /\ x.pc = "insert" /\ x.left = S /\ x.next = {}
      /\ x.del = tx[c].del /\ x.late = tx[c].late /\ x.ins = tx[c].ins
      /\ x.want = tx[c].want /\ x.taken = tx[c].taken
  BY <1>1, <1>2 DEF Transaction
<1>4. Good(x, rows, kind)
  <2>1. Alone(x, rows, kind)
    BY <1>1, <1>2, <1>3 DEF Good, Alone
  <2>2. ASSUME kind = "permissions" PROVE Whole(x, rows)
    BY <1>1, <1>2, <1>3, <2>2 DEF Good, Alone, Whole
  <2>3. ASSUME kind # "permissions" PROVE Different(x, rows)
    BY <1>1, <1>2, <1>3, <2>3 DEF Good, Alone, Different
  <2> QED
    BY <1>3, <2>1, <2>2, <2>3 DEF Good
<1>5. \A d \in Conns \ {c} : Touched(x) \cap Touched(tx[d]) = {}
  BY <1>3, Parts DEF Apart, Touched
<1> HIDE DEF x
<1> QED
  BY <1>2, <1>4, <1>5, LocalStep DEF Insert

\* The row is inserted.
LEMMA RowInserted ==
  ASSUME IInv, UNCHANGED <<kind, rows>>, NEW c \in Conns, NEW i \in tx[c].left,
         tx[c].pc = "insert", ~Held(c, i), i \notin rows \/ i \in tx[c].del,
         tx' = [tx EXCEPT ![c].left = @ \ {i}, ![c].ins = @ \cup {i}]
  PROVE  IInv'
<1> DEFINE x == [tx[c] EXCEPT !.left = @ \ {i}, !.ins = @ \cup {i}]
<1>1. tx[c] \in Transaction /\ Good(tx[c], rows, kind)
  BY Parts
<1>2. tx' = [tx EXCEPT ![c] = x]
  BY Parts
<1>3. x \in Transaction /\ x.pc = "insert" /\ x.left = tx[c].left \ {i}
      /\ x.ins = tx[c].ins \cup {i} /\ x.next = tx[c].next
      /\ x.del = tx[c].del /\ x.late = tx[c].late
      /\ x.want = tx[c].want /\ x.taken = tx[c].taken
  BY <1>1 DEF Transaction
<1>4. Good(x, rows, kind)
  <2>1. Alone(x, rows, kind)
    BY <1>1, <1>3 DEF Good, Alone
  <2>2. ASSUME kind = "permissions" PROVE Whole(x, rows)
    BY <1>1, <1>3, <2>2 DEF Good, Whole
  <2>3. ASSUME kind # "permissions" PROVE Different(x, rows)
    BY <1>1, <1>3, <2>3 DEF Good, Different
  <2> QED
    BY <1>3, <2>1, <2>2, <2>3 DEF Good
<1>5. \A d \in Conns \ {c} : Touched(x) \cap Touched(tx[d]) = {}
  BY <1>3, Parts DEF Apart, Touched, Held
<1> HIDE DEF x
<1> QED
  BY <1>2, <1>4, <1>5, LocalStep

\* The row is there, and ON CONFLICT DO NOTHING skips it.
LEMMA RowSkipped ==
  ASSUME IInv, UNCHANGED <<kind, rows>>, NEW c \in Conns, NEW i \in tx[c].left,
         tx[c].pc = "insert", i \in rows, kind # "permissions",
         tx' = [tx EXCEPT ![c].left = @ \ {i}]
  PROVE  IInv'
<1> DEFINE x == [tx[c] EXCEPT !.left = @ \ {i}]
<1>1. tx[c] \in Transaction /\ Good(tx[c], rows, kind)
  BY Parts
<1>2. tx' = [tx EXCEPT ![c] = x]
  BY Parts
<1>3. x \in Transaction /\ x.pc = "insert" /\ x.left = tx[c].left \ {i}
      /\ x.ins = tx[c].ins /\ x.next = tx[c].next
      /\ x.del = tx[c].del /\ x.late = tx[c].late
      /\ x.want = tx[c].want /\ x.taken = tx[c].taken
  BY <1>1 DEF Transaction
<1>4. Good(x, rows, kind)
  BY <1>1, <1>3 DEF Good, Alone, Different
<1>5. \A d \in Conns \ {c} : Touched(x) \cap Touched(tx[d]) = {}
  BY <1>3, Parts DEF Apart, Touched
<1> HIDE DEF x
<1> QED
  BY <1>2, <1>4, <1>5, LocalStep

LEMMA InsertRowStep ==
  ASSUME IInv, NEW c \in Conns, NEW i \in Items, InsertRow(c, i)
  PROVE  IInv'
<1>1. UNCHANGED <<kind, rows>> /\ tx[c].pc = "insert" /\ i \in tx[c].left /\ ~Held(c, i)
  BY DEF InsertRow
<1>2. CASE i \notin rows \/ i \in tx[c].del
  BY <1>1, <1>2, RowInserted DEF InsertRow
<1>3. CASE ~(i \notin rows \/ i \in tx[c].del) /\ kind = "permissions"
  BY <1>1, <1>3, EndsStep DEF InsertRow
<1>4. CASE ~(i \notin rows \/ i \in tx[c].del) /\ kind # "permissions"
  BY <1>1, <1>4, RowSkipped DEF InsertRow
<1> QED
  BY <1>2, <1>3, <1>4

-----------------------------------------------------------------------------
\* COMMIT

\* Two sets without write permissions that lack their read, joined or intersected
LEMMA ClosedSets ==
  ASSUME NEW S, NEW T, Closed(S), Closed(T)
  PROVE  Closed(S \cup T) /\ Closed(S \cap T)
BY DEF Closed

\* What another transaction is afterwards.
LEMMA OvertakenFields ==
  ASSUME NEW c \in Conns, NEW d \in Conns,
         tx[c] \in Transaction, tx[d] \in Transaction
  PROVE  LET x == tx[d]  y == Overtaken(d, c)
         IN  /\ y \in Transaction
             /\ y.pc = x.pc /\ y.want = x.want /\ y.held = x.held /\ y.del = x.del
             /\ y.left = x.left /\ y.ins = x.ins
             /\ y.next = x.next \ tx[c].del
             /\ x.pc \in {"deleting", "insert"} => y.late = x.late \cup tx[c].ins
             /\ x.pc # "idle" => y.taken = x.taken \cup tx[c].del
<1>1. CASE tx[d].pc \in {"deleting", "insert"}
  BY <1>1 DEF Overtaken, Transaction
<1>2. CASE tx[d].pc = "delete"
  BY <1>2 DEF Overtaken, Transaction
<1>3. CASE tx[d].pc = "idle"
  BY <1>3 DEF Overtaken, Transaction
<1> QED
  BY <1>1, <1>2, <1>3 DEF Transaction

LEMMA CommitStep ==
  ASSUME IInv, NEW c \in Conns, Commit(c)
  PROVE  IInv'
<1> DEFINE C == tx[c]
           R == (rows \ C.del) \cup C.ins
<1>1. C \in Transaction /\ Good(C, rows, kind) /\ rows \subseteq Items /\ PermissionsClosed
      /\ kind \in Kinds /\ tx \in [Conns -> Transaction]
  BY Parts
<1>2. C.pc = "insert" /\ C.left = {} /\ C.next = {} /\ rows' = R /\ kind' = kind
  BY <1>1 DEF Commit, Good, Alone
<1>3. tx' = [d \in Conns |-> IF d = c THEN Idle ELSE Overtaken(d, c)]
  BY DEF Commit
<1>4. tx'[c] = Idle /\ \A d \in Conns \ {c} : tx'[d] = Overtaken(d, c)
  BY <1>3
<1>5. rows' \subseteq Items
  BY <1>1, <1>2 DEF Transaction
<1>6. kind = "permissions" =>
        Closed(C.ins) /\ Closed(rows \ C.del)
  <2> SUFFICES ASSUME kind = "permissions" PROVE Closed(C.ins) /\ Closed(rows \ C.del)
    OBVIOUS
  <2>1. Whole(C, rows)
    BY <1>1 DEF Good
  <2>2. C.want = C.ins /\ C.next \cup C.del = C.del
    BY <1>2, <2>1 DEF Whole
  <2> QED
    BY <1>2, <2>1, <2>2 DEF Whole
<1>7. PermissionsClosed'
  BY <1>2, <1>6, ClosedSets DEF PermissionsClosed
<1>8. ASSUME NEW d \in Conns \ {c}
      PROVE  /\ Good(tx'[d], rows', kind')
             /\ Touched(tx'[d]) = Touched(tx[d])
  <2> DEFINE x == tx[d]
             y == Overtaken(d, c)
  <2>1. x \in Transaction /\ Good(x, rows, kind)
    BY Parts
  <2>2. /\ y \in Transaction
        /\ y.pc = x.pc /\ y.want = x.want /\ y.held = x.held /\ y.del = x.del
        /\ y.left = x.left /\ y.ins = x.ins
        /\ y.next = x.next \ C.del
        /\ x.pc \in {"deleting", "insert"} => y.late = x.late \cup C.ins
        /\ x.pc # "idle" => y.taken = x.taken \cup C.del
    BY <1>1, <2>1, OvertakenFields
  <2>3. (x.del \cup x.ins) \cap (C.del \cup C.ins) = {}
    BY Parts DEF Apart, Touched
  <2>4. C.ins \cap rows \subseteq C.del /\ Alone(x, rows, kind)
    BY <1>1, <2>1 DEF Good, Alone
  <2> HIDE DEF y, x, C
  <2>5. Alone(y, R, kind)
    BY <2>2, <2>3, <2>4 DEF Alone
  <2>6. ASSUME kind = "permissions" PROVE Whole(y, R)
    <3>1. Whole(x, rows)
      BY <2>1, <2>6 DEF Good
    <3>2. ASSUME x.pc \in {"deleting", "insert"}
          PROVE  R \subseteq y.next \cup y.del \cup y.late /\ Closed(R \ (y.next \cup y.del))
      <4>1. R \ (y.next \cup y.del)
              = ((rows \ C.del) \cap (rows \ (x.next \cup x.del))) \cup C.ins
        BY <2>2, <2>3, <2>4 DEF Alone
      <4>2. Closed(rows \ (x.next \cup x.del))
        BY <3>1, <3>2 DEF Whole
      <4>3. Closed((rows \ C.del) \cap (rows \ (x.next \cup x.del)))
        BY <1>6, <2>6, <4>2, ClosedSets
      <4>4. Closed(R \ (y.next \cup y.del))
        <5>1. Closed(((rows \ C.del) \cap (rows \ (x.next \cup x.del))) \cup C.ins)
          BY <1>6, <2>6, <4>3, ClosedSets
        <5> QED
          BY <4>1, <5>1
      <4>5. R \subseteq y.next \cup y.del \cup y.late
        BY <2>2, <3>1, <3>2 DEF Whole
      <4> QED
        BY <4>4, <4>5
    <3> QED
      BY <2>2, <3>1, <3>2 DEF Whole
  <2>7. ASSUME kind # "permissions" PROVE Different(y, R)
    <3>1. Different(x, rows)
      BY <2>1, <2>7 DEF Good
    <3> QED
      BY <2>2, <2>4, <3>1 DEF Different, Alone
  <2>8. Good(y, rows', kind')
    BY <1>2, <2>2, <2>5, <2>6, <2>7 DEF Good
  <2>9. tx'[d] = y
    BY <1>4 DEF y
  <2> QED
    BY <2>2, <2>8, <2>9 DEF Touched, x
<1>9. Good(tx'[c], rows', kind') /\ Touched(tx'[c]) = {}
  BY <1>4, IdleIsGood
<1>10. tx' \in [Conns -> Transaction]
  BY <1>3, <1>8, <1>9 DEF Good
<1>11. Apart'
  BY <1>8, <1>9, Parts DEF Apart
<1> QED
  BY <1>1, <1>2, <1>5, <1>7, <1>8, <1>9, <1>10, <1>11, PartsNext

-----------------------------------------------------------------------------
LEMMA NextIInv == IInv /\ [Next]_vars => IInv'
<1> SUFFICES ASSUME IInv, [Next]_vars PROVE IInv'
  OBVIOUS
<1>1. ASSUME NEW c \in Conns, Step(c) PROVE IInv'
  BY <1>1, DeleteStep, InsertStep, CommitStep, DeleteRowStep, InsertRowStep DEF Step
<1>2. ASSUME NEW c \in Conns, Rollback(c) PROVE IInv'
  BY <1>2, EndsStep DEF Rollback
<1>3. ASSUME NEW c \in Conns, NEW w \in SUBSET Items, Select(c, w) PROVE IInv'
  BY <1>3, SelectStep
<1>4. CASE UNCHANGED vars
  <2>1. UNCHANGED <<kind, rows, tx>>
    BY <1>4 DEF vars
  <2>2. PermissionsClosed' /\ Apart'
    BY <2>1, Parts DEF PermissionsClosed, Apart
  <2> QED
    BY <2>1, <2>2, Parts, PartsNext
<1> QED
  BY <1>1, <1>2, <1>3, <1>4 DEF Next

\* Whatever replacements overlap, a row has one writer, and what each of them
\* will leave behind is known while it runs (setUserRoles, setRolePermissions,
\* setTenantModules).
THEOREM Invariance == Spec => []IInv
BY InitIInv, NextIInv, PTL DEF Spec

\* A role never holds a write permission without its read (setRolePermissions).
THEOREM ReadsComeWithWrites == Spec => []PermissionsClosed
<1>1. IInv => PermissionsClosed
  BY DEF IInv
<1> QED
  BY <1>1, Invariance, PTL

\* What a replacement leaves differs from what was asked for by what others
\* inserted since its DELETE looked, or deleted since its SELECT did, and by
\* nothing else; of permissions none is missing.
THEOREM OnlyOthersInterfere == Spec => ReplacementHolds
<1>1. ASSUME IInv, NEW c \in Conns, Commit(c)
      PROVE  /\ rows' \ tx[c].want \subseteq tx[c].late
             /\ tx[c].want \ rows' \subseteq IF kind = "permissions" THEN {} ELSE tx[c].taken
  <2>1. Good(tx[c], rows, kind)
    BY <1>1, Parts
  <2>2. tx[c].pc = "insert" /\ tx[c].left = {} /\ tx[c].next = {}
        /\ rows' = (rows \ tx[c].del) \cup tx[c].ins
    BY <1>1, <2>1 DEF Commit, Good, Alone
  <2>3. CASE kind = "permissions"
    BY <2>1, <2>2, <2>3 DEF Good, Alone, Whole
  <2>4. CASE kind # "permissions"
    BY <2>1, <2>2, <2>4 DEF Good, Alone, Different
  <2> QED
    BY <2>3, <2>4
<1>2. IInv /\ [Next]_vars =>
        [\A c \in Conns : Commit(c) =>
           /\ rows' \ tx[c].want \subseteq tx[c].late
           /\ tx[c].want \ rows' \subseteq IF kind = "permissions" THEN {} ELSE tx[c].taken]_vars
  BY <1>1
<1> QED
  BY <1>2, Invariance, PTL DEF Spec, ReplacementHolds
=============================================================================
