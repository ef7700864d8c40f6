------------------------------ MODULE Tenants ------------------------------
(***************************************************************************)
(* The operators' desk: one tenant's row and what the audit log says of it *)
(* (tenant-administration.ts, tenancy.ts, modules.ts), changed by          *)
(* operators at the same time, and the screen of one of them               *)
(* (platform-tenant-detail.page.ts, tenant-subscription.component.ts).     *)
(*                                                                         *)
(* A request is one transaction.  Its steps are the reads before the write *)
(* and the write with everything up to the commit: the row is locked from  *)
(* the write on, so that what the answer is read from cannot change.  On   *)
(* the screen a step is the handling of one event.  The other operators    *)
(* are their requests.  An entry of the log is dated with the beginning of *)
(* its transaction (audit_log.created_at DEFAULT now()), which is when the *)
(* request is sent here: it may wait for a connection, or for anything     *)
(* else, before it reads.  What the log says is kept as the value the      *)
(* newest entry of each field tells, in the order of those dates, which    *)
(* every reader sorts by, and the balance of the lifecycle entries.        *)
(***************************************************************************)
EXTENDS Integers

CONSTANTS
  Fields,    \* which of "name", "plan", "seats" are changed
  Values,    \* of a field
  Base,      \* the plan "trial", and no negotiated seats
  Requests,  \* requests in progress at a time
  Changes    \* bound: changes that are asked for, all in all

ASSUME TenantsAssumption ==
  /\ Fields \subseteq {"name", "plan", "seats"} /\ Base \in Values
  /\ Values \cap {"active", "suspended", "archived"} = {}
  /\ Changes \in Nat

Targets == {"active", "suspended", "archived"}
Cards   == Fields \ {"name"}   \* what the subscription card edits in place
Tenant  == [suspended : BOOLEAN, deleted : BOOLEAN, held : [Fields -> Values]]
Detail  == [status : Targets, held : [Fields -> Values]]   \* what the API tells of it

VARIABLES
  tenant,   \* the row
  log,      \* suspended, deleted: entries that set it less those that lift it;
            \* after, at: what the newest entry of a field says, and its date;
            \* raced, history: fields last written by a transaction during which
            \* another change of the field was committed
  request,
  left,     \* changes that may still be asked for
  screen,   \* state(), and history: whether its tenant was read after the
            \* last save of this desk
  draft,    \* what the fields' inputs show
  dialog,   \* the open dialog
  busy,     \* the controls that wait for an answer
  picked,   \* history: the inputs of the card the operator has touched since
            \* it last took them from a tenant
  alone,    \* history: the desk's last request was sent with no other under way
  plain     \* history: what is shown is the answer of such a request, and no
            \* two have overlapped since

server == <<tenant, log>>
history == <<alone, plain>>
desk   == <<screen, draft, dialog, busy, picked, history>>
vars   == <<server, request, left, desk>>

Controls == Fields \cup {"status", "cancel"}

RequestState ==
  [pc     : {"idle", "begun", "found", "reactivate", "detail", "answered"},
   mine   : BOOLEAN,   \* sent by this desk, which still waits for it
   what   : Fields \cup {"load", "status"},
   by     : Controls \cup {"page"},
   value  : Values \cup Targets,
   began  : 0..Changes,   \* the number of the change: now() of its transaction
   raced  : BOOLEAN,      \* history: its field was changed since it began
   orphan : BOOLEAN,   \* the card it was sent from is gone
   answer : Detail,
   seen   : BOOLEAN]   \* the answer was read after the desk's last save

TypeOK ==
  /\ tenant \in Tenant
  /\ log \in [suspended : Int, deleted : Int, after : [Fields -> Values],
              at : [Fields -> 0..Changes], raced : SUBSET Fields]
  /\ request \in [Requests -> RequestState] /\ left \in 0..Changes
  /\ screen \in [status : {"loading", "success", "error"}, data : Detail, seen : BOOLEAN]
  /\ draft \in [Fields -> Values]
  /\ dialog \in Targets \cup (Fields \cap {"name"}) \cup {"none"}
  /\ busy \subseteq Controls /\ picked \subseteq Cards
  /\ alone \in BOOLEAN /\ plain \in BOOLEAN

Created == [suspended |-> FALSE, deleted |-> FALSE, held |-> [f \in Fields |-> Base]]

\* STATUS_EXPRESSION; "pending" is an active tenant that nobody has joined.
Told(t) ==
  [status |-> IF t.deleted THEN "archived" ELSE IF t.suspended THEN "suspended" ELSE "active",
   held   |-> t.held]

Idle == [pc |-> "idle", mine |-> FALSE, what |-> "load", by |-> "page", value |-> Base,
         began |-> 0, raced |-> FALSE, orphan |-> FALSE, answer |-> Told(Created), seen |-> FALSE]

Init ==
  /\ tenant = Created
  /\ log = [suspended |-> 0, deleted |-> 0, after |-> Created.held,
            at |-> [f \in Fields |-> 0], raced |-> {}]
  /\ request = [r \in Requests |-> Idle] /\ left = Changes
  /\ screen = [status |-> "success", data |-> Told(Created), seen |-> TRUE]
  /\ draft = Created.held /\ dialog = "none" /\ busy = {}
  /\ picked = {} /\ alone = TRUE /\ plain = TRUE

-----------------------------------------------------------------------------
\* The API: PlatformService, each call in one withoutTenantScope

\* The screen has no use for the answer to a change of the status, nor to a
\* request of a card that is gone.  The transaction is over, and its date with it.
Answer(x, t) ==
  LET done == [x EXCEPT !.pc = "answered", !.began = 0, !.raced = FALSE] IN
  IF x.what = "status" \/ x.orphan THEN done
  ELSE [done EXCEPT !.answer = Told(t), !.seen = TRUE]

\* A request that may still change a field
Open(x) == x.what \in Fields /\ x.pc \in {"begun", "found"}

\* The change of x commits while q may still change the same field.
Overtaken(x, q) ==
  IF Open(q) /\ q.what = x.what THEN [q EXCEPT !.raced = TRUE] ELSE q

\* The transaction changed the row to t and commits; the answer is what it
\* then finds.  Nothing else the desk holds is as new, if it was the desk's.
Commit(r, t) ==
  LET x == request[r]
      rest(q) == Overtaken(x, request[q])
  IN
  /\ tenant' = t
  /\ IF x.mine
     THEN /\ request' = [q \in Requests |->
               IF q = r THEN Answer(x, t) ELSE [rest(q) EXCEPT !.seen = FALSE]]
          /\ screen' = [screen EXCEPT !.seen = FALSE]
     ELSE /\ request' = [q \in Requests |-> IF q = r THEN Idle ELSE rest(q)]
          /\ UNCHANGED screen
  /\ UNCHANGED <<draft, dialog, busy, picked, history>>

\* Nothing to change: findTenantDetail comes next.
Unchanged(r) ==
  /\ request' = [request EXCEPT ![r].pc = "detail"]
  /\ UNCHANGED <<server, desk>>

\* findTenantDetail of a transaction that changed nothing
FindTenantDetail(r) ==
  /\ \/ request[r].pc = "detail"
     \/ request[r].pc = "begun" /\ request[r].what = "load"
  /\ request' = [request EXCEPT ![r] =
       IF @.mine THEN Answer(@, tenant) ELSE Idle]
  /\ UNCHANGED <<server, desk>>

\* The SELECT of setTenantName, setTenantPlan and setTenantSeatLimit
Select(r) ==
  LET x == request[r] IN
  /\ x.pc = "begun" /\ x.what \in Fields
  /\ IF tenant.held[x.what] = x.value THEN Unchanged(r)
     ELSE request' = [request EXCEPT ![r].pc = "found"] /\ UNCHANGED <<server, desk>>

\* The entry of x, that its field is v now: it is the newest one, unless a
\* transaction that began later has written one already.
Entry(x, v) ==
  LET newest == log.at[x.what] < x.began IN
  [log EXCEPT !.after[x.what] = IF newest THEN v ELSE @,
              !.at[x.what] = IF newest THEN x.began ELSE @,
              !.raced = IF x.raced THEN @ \cup {x.what} ELSE @ \ {x.what}]

\* A mistake: the entry is written from the value that was read.
UpdateLogsRead(r) ==
  LET x == request[r] IN
  /\ x.pc = "found"
  /\ log' = Entry(x, tenant.held[x.what])
  /\ Commit(r, [tenant EXCEPT !.held[x.what] = x.value])

\* Their UPDATE, whatever the row holds by now, and the entry
Update(r) ==
  LET x == request[r] IN
  /\ x.pc = "found"
  /\ log' = Entry(x, x.value)
  /\ Commit(r, [tenant EXCEPT !.held[x.what] = x.value])

\* A mistake: the UPDATE does not ask whether the tenant is suspended.
SuspendAgain(r) ==
  /\ request[r].pc = "begun" /\ request[r].value = "suspended"
  /\ log' = [log EXCEPT !.suspended = @ + 1]
  /\ Commit(r, [tenant EXCEPT !.suspended = TRUE])

\* suspendTenant: the UPDATE matches a tenant that is not suspended
Suspend(r) ==
  /\ request[r].pc = "begun" /\ request[r].value = "suspended"
  /\ \/ /\ ~tenant.suspended
        /\ log' = [log EXCEPT !.suspended = @ + 1]
        /\ Commit(r, [tenant EXCEPT !.suspended = TRUE])
     \/ tenant.suspended /\ Unchanged(r)

\* softDeleteTenant, likewise
SoftDelete(r) ==
  /\ request[r].pc = "begun" /\ request[r].value = "archived"
  /\ \/ /\ ~tenant.deleted
        /\ log' = [log EXCEPT !.deleted = @ + 1]
        /\ Commit(r, [tenant EXCEPT !.deleted = TRUE])
     \/ tenant.deleted /\ Unchanged(r)

\* restoreTenant, and with the row's lock reactivateTenant; a tenant that is
\* not deleted is not locked yet.
Restore(r) ==
  /\ request[r].pc = "begun" /\ request[r].value = "active"
  /\ \/ /\ tenant.deleted
        /\ log' = [log EXCEPT !.deleted = @ - 1,
                              !.suspended = IF tenant.suspended THEN @ - 1 ELSE @]
        /\ Commit(r, [tenant EXCEPT !.deleted = FALSE, !.suspended = FALSE])
     \/ /\ ~tenant.deleted
        /\ request' = [request EXCEPT ![r].pc = "reactivate"]
        /\ UNCHANGED <<server, desk>>

\* reactivateTenant
Reactivate(r) ==
  /\ request[r].pc = "reactivate"
  /\ \/ /\ tenant.suspended
        /\ log' = [log EXCEPT !.suspended = @ - 1]
        /\ Commit(r, [tenant EXCEPT !.suspended = FALSE])
     \/ ~tenant.suspended /\ Unchanged(r)

\* Another operator's request
Elsewhere(r, w, v) ==
  /\ request[r].pc = "idle" /\ left > 0
  /\ left' = left - 1
  /\ request' = [request EXCEPT ![r] =
       [Idle EXCEPT !.pc = "begun", !.what = w, !.by = w, !.value = v,
                    !.began = Changes - left']]
  /\ UNCHANGED <<server, desk>>

-----------------------------------------------------------------------------
\* The screen

Waiting == {r \in Requests : request[r].mine}

Sent(w, c, v) ==
  [Idle EXCEPT !.pc = "begun", !.mine = TRUE, !.what = w, !.by = c, !.value = v]

Send(r, w, c, v) ==
  /\ request[r].pc = "idle" /\ c \notin busy /\ left > 0
  /\ left' = left - 1
  /\ request' = [request EXCEPT ![r] = [Sent(w, c, v) EXCEPT !.began = Changes - left']]
  /\ busy' = busy \cup {c}
  /\ alone' = (Waiting = {}) /\ plain' = (plain /\ Waiting = {})
  /\ UNCHANGED <<server, screen, draft, dialog, picked>>

\* With the page's status anything but "success" the subscription card is gone.
OfCard(c) == c \in Cards \cup {"cancel"}
NoCard == [f \in Fields |-> IF f \in Cards THEN Base ELSE draft[f]]
Orphaned(q) ==
  IF q.mine /\ OfCard(q.by)
  THEN [q EXCEPT !.orphan = TRUE, !.answer = Told(Created), !.seen = FALSE] ELSE q

\* load, in the place of request r if that was answered
Load(r) ==
  /\ request' = [q \in Requests |->
       IF q = r THEN Sent("load", "page", Base) ELSE Orphaned(request[q])]
  /\ screen' = [screen EXCEPT !.status = "loading", !.seen = FALSE]
  /\ draft' = NoCard
  /\ alone' = (Waiting \subseteq {r}) /\ plain' = (plain /\ alone')
  /\ picked' = {}

Retry(r) ==
  /\ screen.status = "error" /\ dialog = "none" /\ request[r].pc = "idle"
  /\ Load(r)
  /\ UNCHANGED <<server, dialog, busy>>

\* Of the card, the answer's; of the rename dialog, none when it closes
Inputs(r) ==
  [f \in Fields |->
     IF f \in Cards THEN request[r].answer.held[f]
     ELSE IF request[r].what = "name" THEN Base ELSE draft[f]]

\* A mistake: the card takes its inputs from the first tenant it is given.
ShowOnce(r) ==
  /\ request' = [request EXCEPT ![r] = Idle]
  /\ screen' = [status |-> "success", data |-> request[r].answer, seen |-> request[r].seen]
  /\ plain' = alone /\ UNCHANGED alone
  /\ IF screen.status = "success" THEN UNCHANGED <<draft, picked>>
     ELSE draft' = Inputs(r) /\ picked' = {}

\* The answer becomes what the page shows, and the card's effects take their
\* inputs from it.
Show(r) ==
  /\ request' = [request EXCEPT ![r] = Idle]
  /\ screen' = [status |-> "success", data |-> request[r].answer, seen |-> request[r].seen]
  /\ plain' = alone /\ UNCHANGED alone
  /\ draft' = Inputs(r) /\ picked' = {}

\* ask: which buttons there are depends on the status that is shown.
Ask(s) ==
  /\ screen.status = "success" /\ dialog = "none"
  /\ CASE screen.data.status = "active"    -> s # "active"
       [] screen.data.status = "suspended" -> s # "suspended"
       [] screen.data.status = "archived"  -> s = "active"
  /\ dialog' = s
  /\ UNCHANGED <<server, request, screen, draft, busy, picked, history>>

\* The dialog's draft is gone with it.
NoName(d) == [f \in Fields |-> IF f = "name" THEN Base ELSE d[f]]

\* A dialog is closed at any time, also while its request is under way.
Cancel ==
  /\ dialog # "none"
  /\ dialog' = "none" /\ draft' = NoName(draft)
  /\ UNCHANGED <<server, request, screen, busy, picked, history>>

Apply(r) == dialog \in Targets /\ Send(r, "status", "status", dialog)

StartRename ==
  /\ "name" \in Fields /\ screen.status = "success" /\ dialog = "none"
  /\ dialog' = "name"
  /\ draft' = [draft EXCEPT !["name"] = screen.data.held["name"]]
  /\ UNCHANGED <<server, request, screen, busy, picked, history>>

TypeName(v) ==
  /\ dialog = "name" /\ "name" \notin busy
  /\ draft' = [draft EXCEPT !["name"] = v]
  /\ UNCHANGED <<server, request, screen, dialog, busy, picked, history>>

\* The form's (ngSubmit); it asks for FormsModule, which the page does not import.
SaveRename(r) ==
  /\ dialog = "name" /\ screen.status # "error"
  /\ draft["name"] # screen.data.held["name"]
  /\ Send(r, "name", "name", draft["name"])

\* The card, with no dialog above it
Choose(f, v) ==
  /\ screen.status = "success" /\ dialog = "none"
  /\ f \notin busy /\ (f = "plan" => "cancel" \notin busy)
  /\ draft' = [draft EXCEPT ![f] = v] /\ picked' = picked \cup {f}
  /\ UNCHANGED <<server, request, screen, dialog, busy, history>>

\* save, saveSeats
Save(r, f) ==
  /\ screen.status = "success" /\ dialog = "none"
  /\ draft[f] # screen.data.held[f]
  /\ Send(r, f, f, draft[f])

\* unsubscribe, clearSeats
Clear(r, f) ==
  /\ screen.status = "success" /\ dialog = "none"
  /\ screen.data.held[f] # Base
  /\ Send(r, f, IF f = "plan" THEN "cancel" ELSE f, Base)

\* A mistake: a change of the status is not followed by a load.
AppliedForgets(r) ==
  /\ request' = [request EXCEPT ![r] = Idle]
  /\ busy' = busy \ {"status"}
  /\ dialog' = IF dialog = "name" THEN "name" ELSE "none"
  /\ UNCHANGED <<screen, draft, picked, history>>

\* apply, answered: the tenant is read again rather than patched.
Applied(r) ==
  /\ Load(r)
  /\ busy' = {c \in busy \ {"status"} : ~OfCard(c)}
  /\ dialog' = IF dialog = "name" THEN "name" ELSE "none"

\* The next handlers of the page and the card
Answered(r) ==
  LET x == request[r] IN
  /\ x.pc = "answered"
  /\ \/ /\ x.what = "load"
        /\ Show(r) /\ UNCHANGED <<dialog, busy>>
     \/ x.what = "status" /\ Applied(r)
     \/ /\ x.what = "name"     \* saveRename
        /\ Show(r)
        /\ busy' = busy \ {"name"}
        /\ dialog' = IF dialog = "name" THEN "none" ELSE dialog
     \/ /\ x.what \in Cards /\ ~x.orphan   \* onTenantChanged
        /\ Show(r)
        /\ busy' = busy \ {x.by} /\ UNCHANGED dialog
     \/ /\ x.orphan            \* its card is gone, and nobody hears it
        /\ request' = [request EXCEPT ![r] = Idle]
        /\ UNCHANGED desk
  /\ UNCHANGED server

\* A mistake: the control stays busy when its request fails.
FailedStaysBusy(r) ==
  LET x == request[r] IN
  \/ /\ x.what = "load"
     /\ request' = [q \in Requests |-> IF q = r THEN Idle ELSE Orphaned(request[q])]
     /\ screen' = [status |-> "error", data |-> Told(Created), seen |-> FALSE]
     /\ busy' = {c \in busy : ~OfCard(c)}
     /\ draft' = NoCard /\ picked' = {} /\ UNCHANGED <<dialog, history>>
  \/ /\ x.what # "load"
     /\ request' = [request EXCEPT ![r] = Idle]
     /\ UNCHANGED desk

\* The error handlers
Failed(r) ==
  LET x == request[r] IN
  \/ /\ x.what = "load"
     /\ request' = [q \in Requests |-> IF q = r THEN Idle ELSE Orphaned(request[q])]
     /\ screen' = [status |-> "error", data |-> Told(Created), seen |-> FALSE]
     /\ busy' = {c \in busy : ~OfCard(c)}
     /\ draft' = NoCard /\ picked' = {} /\ UNCHANGED <<dialog, history>>
  \/ /\ x.what # "load"
     /\ request' = [request EXCEPT ![r] = Idle]
     /\ busy' = IF x.orphan THEN busy ELSE busy \ {x.by}
     /\ UNCHANGED <<screen, draft, dialog, picked, history>>

\* The transaction fails and is rolled back.
RolledBack(r) ==
  /\ request[r].pc \in {"begun", "found", "reactivate", "detail"}
  /\ IF request[r].mine THEN Failed(r)
     ELSE request' = [request EXCEPT ![r] = Idle] /\ UNCHANGED desk
  /\ UNCHANGED server

\* The answer does not arrive, or not in time, and the API goes on.  An answer
\* lost after the commit is one whose commit comes later: the desk cannot tell.
Disconnected(r) ==
  /\ request[r].mine
  /\ request[r].pc # "answered" /\ request[r].what # "load"
  /\ busy' = IF request[r].orphan THEN busy ELSE busy \ {request[r].by}
  /\ request' = [request EXCEPT ![r].mine = FALSE]
  /\ UNCHANGED <<server, screen, draft, dialog, picked, history>>

-----------------------------------------------------------------------------
Serve(r) ==
  \/ FindTenantDetail(r) \/ Select(r) \/ Update(r)
  \/ Suspend(r) \/ SoftDelete(r) \/ Restore(r) \/ Reactivate(r) \/ RolledBack(r)

Work ==
  \/ StartRename \/ Cancel
  \/ \E s \in Targets : Ask(s)
  \/ \E v \in Values : TypeName(v) \/ \E f \in Cards : Choose(f, v)
  \/ \E r \in Requests : Retry(r)

Submit ==
  \E r \in Requests :
    Apply(r) \/ SaveRename(r) \/ \E f \in Cards : Save(r, f) \/ Clear(r, f)

Next ==
  \/ /\ Work \/ \E r \in Requests : Serve(r) \/ Answered(r) \/ Disconnected(r)
     /\ UNCHANGED left
  \/ Submit
  \/ \E r \in Requests : \/ \E f \in Fields, v \in Values : Elsewhere(r, f, v)
                         \/ \E s \in Targets : Elsewhere(r, "status", s)

Spec == Init /\ [][Next]_vars

-----------------------------------------------------------------------------
\* Safety

\* Whatever the operators' transactions overtake, the audit log accounts for what
\* the tenant is: it was suspended as often as reactivated, and once more exactly
\* if it is suspended, deletions and restorations likewise; and the newest entry
\* of its name, plan or seats says which it has, unless the transaction that
\* wrote that was itself overtaken by another change of it (setTenantStatus,
\* setTenantName, setTenantPlan, setTenantSeatLimit, listAuditEntries).
LogTellsTenant ==
  /\ log.suspended = IF tenant.suspended THEN 1 ELSE 0
  /\ log.deleted = IF tenant.deleted THEN 1 ELSE 0
  /\ \A f \in Fields \ log.raced : log.after[f] = tenant.held[f]

\* Its inductive strengthening: a request that changes a field carries a value
\* of it, and no other is between the SELECT and the UPDATE.
RequestSound(x) ==
  /\ x.what \in Fields => x.value \in Values
  /\ x.pc = "found" => x.what \in Fields

\* No date is later than the last change that was asked for, and a request whose
\* field nobody has changed since it began is younger than its newest entry.
DatesSound ==
  /\ \A f \in Fields : log.at[f] <= Changes - left
  /\ \A r \in Requests : Open(request[r]) =>
       /\ request[r].began <= Changes - left
       /\ request[r].raced \/ log.at[request[r].what] < request[r].began

IInv ==
  /\ TypeOK /\ DatesSound
  /\ \A r \in Requests : RequestSound(request[r])
  /\ LogTellsTenant

\* Once every request of the desk has its answer, and the last one had no other
\* under way when it was sent, the page shows the tenant as it was after the
\* desk's own last save, or newer (apply, saveRename, onTenantChanged).
ShowsOwnSave ==
  Waiting = {} /\ plain /\ screen.status = "success" => screen.seen

\* What the card offers to save is the operator's choice, made on the tenant
\* that is shown; a change somebody else made never leaves behind an input that
\* would take it back (TenantSubscriptionComponent's effects).
PendingIsPicked ==
  screen.status = "success" =>
    \A f \in Cards : draft[f] # screen.data.held[f] => f \in picked

\* With every answer in, no control is left waiting and the page not loading,
\* whichever requests failed and whichever cards were replaced in between.
QuietIsUsable == Waiting = {} => busy = {} /\ screen.status # "loading"

-----------------------------------------------------------------------------
\* What the code's comments say, and it does not do: audit.ts:153 and 161 call
\* the entries "newest last" and "newest first", and the newest one of a field
\* is taken for the one of its last change.
NewestEntryTellsTenant == log.after = tenant.held
=============================================================================
