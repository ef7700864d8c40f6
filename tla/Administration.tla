--------------------------- MODULE Administration ---------------------------
(***************************************************************************)
(* A form that replaces a whole set: the roles a user holds                *)
(* (setUserRoles), the permissions a role grants (setRolePermissions), the *)
(* modules a tenant is entitled to (setTenantModules).  Each reads what is *)
(* held, DELETEs and INSERTs rows of a join table in one READ COMMITTED    *)
(* transaction and locks nothing first.                                    *)
(*                                                                         *)
(* The three tables never meet in a statement, so a behaviour looks at one *)
(* of them, for one user, role or tenant.  A step is the SELECT, the start *)
(* of the DELETE, which fixes the rows it will visit, one row of it, one   *)
(* row inserted, or COMMIT, which makes the rows visible.  A row that was  *)
(* deleted and inserted again is another row: who had it in sight will     *)
(* not find it.                                                            *)
(***************************************************************************)
EXTENDS FiniteSets

CONSTANTS
  Items,    \* roles of the tenant, permissions, or modules
  ReadOf,   \* the permission a permission implies: its read, or itself
  Kinds,    \* the tables looked at
  Conns     \* transactions in progress at a time

ASSUME AdministrationAssumption ==
  /\ ReadOf \in [Items -> Items]
  /\ Kinds \subseteq {"roles", "permissions", "modules"}

VARIABLES
  kind,   \* the table this behaviour is about
  rows,   \* its committed rows
  tx      \* the transactions in progress

vars == <<kind, rows, tx>>

Transaction ==
  [pc    : {"idle", "delete", "deleting", "insert"},
   want  : SUBSET Items,
   held  : SUBSET Items,     \* as read
   next  : SUBSET Items,     \* rows the DELETE has still to visit
   del   : SUBSET Items,
   left  : SUBSET Items,     \* still to be inserted
   ins   : SUBSET Items,
   late  : SUBSET Items,     \* history: committed by others since the DELETE
   taken : SUBSET Items]     \* history: deleted by others since the SELECT

TypeOK ==
  /\ kind \in Kinds
  /\ rows \subseteq Items
  /\ tx \in [Conns -> Transaction]

Idle == [pc |-> "idle", want |-> {}, held |-> {}, next |-> {}, del |-> {},
         left |-> {}, ins |-> {}, late |-> {}, taken |-> {}]

\* normalisePermissions: every permission comes with its read.
Closed(S) == \A i \in S : ReadOf[i] \in S

Init ==
  /\ kind \in Kinds
  /\ rows \in SUBSET Items /\ (kind = "permissions" => Closed(rows))
  /\ tx = [c \in Conns |-> Idle]

End(c) == tx' = [tx EXCEPT ![c] = Idle]

\* Another open transaction deleted or inserted the row.
Held(c, i) == \E d \in Conns \ {c} : i \in tx[d].del \cup tx[d].ins

-----------------------------------------------------------------------------
\* The user, role or tenant, the names or keys, and what is held; a request
\* that changes nothing ends there, except for modules.
Select(c, w) ==
  /\ tx[c].pc = "idle"
  /\ kind = "permissions" => Closed(w)
  /\ kind # "modules" => w # rows
  /\ tx' = [tx EXCEPT ![c] = [Idle EXCEPT !.pc = "delete", !.want = w, !.held = rows]]
  /\ UNCHANGED <<kind, rows>>

\* A mistake: what is deleted is the difference to what was read.
DeleteRead(c) ==
  /\ tx[c].pc = "delete"
  /\ tx' = [tx EXCEPT ![c].pc = "deleting",
       ![c].next = (tx[c].held \cap rows) \ (IF kind = "permissions" THEN {} ELSE tx[c].want)]
  /\ UNCHANGED <<kind, rows>>

\* DELETE: of permissions all, otherwise what is not wanted.
Delete(c) ==
  /\ tx[c].pc = "delete"
  /\ tx' = [tx EXCEPT ![c].pc = "deleting",
       ![c].next = IF kind = "permissions" THEN rows ELSE rows \ tx[c].want]
  /\ UNCHANGED <<kind, rows>>

\* One row of it, as soon as nobody else holds it.
DeleteRow(c, i) ==
  /\ tx[c].pc = "deleting" /\ i \in tx[c].next
  /\ ~Held(c, i)
  /\ tx' = [tx EXCEPT ![c].next = @ \ {i}, ![c].del = @ \cup {i}]
  /\ UNCHANGED <<kind, rows>>

\* A mistake: permissions are reconciled by the difference to what was read.
InsertDifference(c) ==
  /\ tx[c].pc = "deleting" /\ tx[c].next = {}
  /\ tx' = [tx EXCEPT ![c].pc = "insert", ![c].left = tx[c].want \ tx[c].held]
  /\ UNCHANGED <<kind, rows>>

\* The rows to be inserted: of roles those that were not held.
Insert(c) ==
  /\ tx[c].pc = "deleting" /\ tx[c].next = {}
  /\ tx' = [tx EXCEPT ![c].pc = "insert",
       ![c].left = IF kind = "roles" THEN tx[c].want \ tx[c].held ELSE tx[c].want]
  /\ UNCHANGED <<kind, rows>>

\* A mistake: a violated constraint is tried again.
InsertRowRetried(c, i) ==
  /\ tx[c].pc = "insert" /\ i \in tx[c].left
  /\ ~Held(c, i)
  /\ i \notin rows \/ i \in tx[c].del
  /\ tx' = [tx EXCEPT ![c].left = @ \ {i}, ![c].ins = @ \cup {i}]
  /\ UNCHANGED <<kind, rows>>

\* One row: the unique index makes it wait for whoever deleted or inserted the
\* same.  Where it exists, ON CONFLICT DO NOTHING skips it; permissions have no
\* such clause, and the violation rolls the request back.
InsertRow(c, i) ==
  /\ tx[c].pc = "insert" /\ i \in tx[c].left
  /\ ~Held(c, i)
  /\ IF i \notin rows \/ i \in tx[c].del
       THEN tx' = [tx EXCEPT ![c].left = @ \ {i}, ![c].ins = @ \cup {i}]
       ELSE IF kind = "permissions" THEN End(c)
            ELSE tx' = [tx EXCEPT ![c].left = @ \ {i}]
  /\ UNCHANGED <<kind, rows>>

\* What d's transaction will find of c's.
Overtaken(d, c) ==
  [tx[d] EXCEPT !.next = @ \ tx[c].del,
     !.late  = IF tx[d].pc \in {"deleting", "insert"} THEN @ \cup tx[c].ins ELSE @,
     !.taken = IF tx[d].pc # "idle" THEN @ \cup tx[c].del ELSE @]

\* The audit entry; COMMIT.
Commit(c) ==
  /\ tx[c].pc = "insert" /\ tx[c].left = {}
  /\ rows' = (rows \ tx[c].del) \cup tx[c].ins
  /\ tx' = [d \in Conns |-> IF d = c THEN Idle ELSE Overtaken(d, c)]
  /\ UNCHANGED kind

\* A statement fails, or the instance stops.
Rollback(c) ==
  /\ tx[c].pc # "idle"
  /\ End(c)
  /\ UNCHANGED <<kind, rows>>

Step(c) ==
  \/ Delete(c) \/ Insert(c) \/ Commit(c)
  \/ \E i \in Items : DeleteRow(c, i) \/ InsertRow(c, i)

Next ==
  \E c \in Conns :
    \/ Step(c) \/ Rollback(c)
    \/ \E w \in SUBSET Items : Select(c, w)

Spec == Init /\ [][Next]_vars

-----------------------------------------------------------------------------
\* Safety

\* A write permission is never left without its read, whatever replacements of
\* the same role overlap and whichever of them fail (setRolePermissions).
PermissionsClosed == kind = "permissions" => Closed(rows)

\* What a replacement leaves is what was asked for, but for what others
\* committed meanwhile: an item nobody asked for was inserted since the DELETE
\* looked, and one that is missing was deleted since the SELECT did; of a
\* role's permissions none is missing.
ReplacementHolds ==
  [][\A c \in Conns : Commit(c) =>
       /\ rows' \ tx[c].want \subseteq tx[c].late
       /\ tx[c].want \ rows' \subseteq IF kind = "permissions" THEN {} ELSE tx[c].taken]_vars

\* What saveMobileConfig's comment says of these forms, and two of them at once
\* do not keep: the result is one of the sets somebody submitted.
AsSomebodyChose == [][\A c \in Conns : Commit(c) => rows' = tx[c].want]_vars

-----------------------------------------------------------------------------
\* The inductive strengthening.

\* A row has one writer, who found it there, or free.
RowsExclusive ==
  \A c \in Conns :
    /\ tx[c].pc # "insert" => tx[c].left = {} /\ tx[c].ins = {}
    /\ tx[c].pc \notin {"deleting", "insert"} => tx[c].del = {}
    /\ tx[c].pc # "deleting" => tx[c].next = {}
    /\ tx[c].del \subseteq rows /\ tx[c].next \subseteq rows
    /\ tx[c].ins \cap rows \subseteq tx[c].del
    /\ \A d \in Conns \ {c} :
         (tx[c].del \cup tx[c].ins) \cap (tx[d].del \cup tx[d].ins) = {}

\* What a transaction will leave behind; the permissions its DELETE did not see
\* are others' replacements, each closed by itself.
Sound(c) ==
  /\ tx[c].pc \in {"deleting", "insert"} =>
       rows \ (IF kind = "permissions" THEN {} ELSE tx[c].want)
         \subseteq tx[c].next \cup tx[c].del \cup tx[c].late
  /\ tx[c].ins \subseteq tx[c].want /\ tx[c].left \subseteq tx[c].want
  /\ kind = "permissions" =>
       /\ Closed(tx[c].want)
       /\ tx[c].pc \in {"deleting", "insert"} => Closed(rows \ (tx[c].next \cup tx[c].del))
  /\ kind # "permissions" => (tx[c].del \cup tx[c].next) \cap tx[c].want = {}
  /\ kind # "permissions" /\ tx[c].pc \in {"delete", "deleting"} =>
       tx[c].want \cap tx[c].held \subseteq rows \cup tx[c].taken
  /\ tx[c].pc = "insert" =>
       IF kind = "permissions" THEN tx[c].want = tx[c].ins \cup tx[c].left
       ELSE tx[c].want \subseteq rows \cup tx[c].ins \cup tx[c].left \cup tx[c].taken

IInv ==
  /\ TypeOK
  /\ RowsExclusive
  /\ \A c \in Conns : Sound(c)
  /\ PermissionsClosed

-----------------------------------------------------------------------------
\* Liveness

\* The rows c waits for.
Needs(c) ==
  IF tx[c].pc = "deleting" THEN {i \in tx[c].next : Held(c, i)}
  ELSE {i \in tx[c].left : Held(c, i)}

\* c belongs to a set of transactions that wait for each other.
Deadlocked(c) ==
  \E D \in SUBSET Conns : c \in D /\ \A d \in D : \E i \in Needs(d) :
    \E e \in D \ {d} : i \in tx[e].del \cup tx[e].ins

DeadlockVictim == \E c \in Conns : Deadlocked(c) /\ Rollback(c)

\* Whoever may go on does, and deadlocks are found.
FairSpec == Spec /\ (\A c \in Conns : SF_vars(Step(c))) /\ WF_vars(DeadlockVictim)

\* Every replacement is answered.
EveryRequestEnds == \A c \in Conns : []<>(tx[c].pc = "idle")
=============================================================================
