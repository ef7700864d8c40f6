---------------------------- MODULE TenantsProofs ----------------------------
(***************************************************************************)
(* Proofs about Tenants, for any number of requests and changes, and any   *)
(* fields and values: whatever the operators' requests overtake, the audit *)
(* log tells what the tenant is, and whatever order their answers take,    *)
(* the desk shows its own save, offers what was chosen and stays usable.   *)
(***************************************************************************)
EXTENDS Tenants, TLAPS

\* What a request in progress may be.
Sound == {x \in RequestState : RequestSound(x)}

\* The types of everything but the tenant and the log
DeskType ==
  /\ request \in [Requests -> Sound] /\ left \in 0..Changes
  /\ screen \in [status : {"loading", "success", "error"}, data : Detail, seen : BOOLEAN]
  /\ draft \in [Fields -> Values]
  /\ dialog \in Targets \cup (Fields \cap {"name"}) \cup {"none"}
  /\ busy \subseteq Controls /\ picked \subseteq Cards
  /\ alone \in BOOLEAN /\ plain \in BOOLEAN

LogType ==
  [suspended : Int, deleted : Int, after : [Fields -> Values],
   at : [Fields -> 0..Changes], raced : SUBSET Fields]

LEMMA Parts ==
  IInv <=> tenant \in Tenant /\ log \in LogType /\ DeskType /\ DatesSound /\ LogTellsTenant
<1>1. (request \in [Requests -> RequestState] /\ \A r \in Requests : RequestSound(request[r]))
      <=> request \in [Requests -> Sound]
  BY DEF Sound
<1> QED BY <1>1 DEF IInv, TypeOK, DeskType, LogType

LEMMA CreatedType == Created \in Tenant
  BY TenantsAssumption DEF Created, Tenant

LEMMA ToldType == ASSUME NEW t \in Tenant PROVE Told(t) \in Detail
  BY DEF Told, Tenant, Detail, Targets

LEMMA IdleSound == Idle \in Sound
  BY CreatedType, ToldType, TenantsAssumption
  DEF Idle, Sound, RequestSound, RequestState, Controls

LEMMA SentSound ==
  ASSUME NEW w \in Fields \cup {"load", "status"}, NEW c \in Controls \cup {"page"},
         NEW v \in Values \cup Targets, w \in Fields => v \in Values
  PROVE  Sent(w, c, v) \in Sound
<1>1. Idle \in RequestState
  BY IdleSound DEF Sound
<1> QED BY <1>1 DEF Sent, Sound, RequestSound, RequestState

LEMMA AnswerSound ==
  ASSUME NEW x \in Sound, NEW t \in Tenant PROVE Answer(x, t) \in Sound
<1>1. Told(t) \in Detail
  BY ToldType
<1>2. x \in RequestState /\ RequestSound(x) /\ 0 \in 0..Changes
  BY TenantsAssumption DEF Sound
<1> DEFINE done == [x EXCEPT !.pc = "answered", !.began = 0, !.raced = FALSE]
<1>3. done \in RequestState /\ RequestSound(done)
  BY <1>2 DEF RequestSound, RequestState
<1>4. [done EXCEPT !.answer = Told(t), !.seen = TRUE] \in Sound
  <2> HIDE DEF done
  <2> QED BY <1>1, <1>3 DEF Sound, RequestSound, RequestState
<1> QED BY <1>3, <1>4 DEF Answer, Sound

LEMMA OrphanedSound == ASSUME NEW x \in Sound PROVE Orphaned(x) \in Sound
<1>1. Told(Created) \in Detail
  BY ToldType, CreatedType
<1> QED BY <1>1 DEF Orphaned, Sound, RequestSound, RequestState

LEMMA StepSound ==
  ASSUME NEW x \in Sound
  PROVE  /\ [x EXCEPT !.pc = "detail"] \in Sound
         /\ [x EXCEPT !.pc = "reactivate"] \in Sound
         /\ [x EXCEPT !.seen = FALSE] \in Sound
         /\ [x EXCEPT !.mine = FALSE] \in Sound
         /\ x.what \in Fields => [x EXCEPT !.pc = "found"] \in Sound
         /\ [x EXCEPT !.raced = TRUE] \in Sound
<1>1. x \in RequestState /\ RequestSound(x)
  BY DEF Sound
<1>2. /\ [x EXCEPT !.pc = "detail"] \in RequestState
      /\ [x EXCEPT !.pc = "reactivate"] \in RequestState
      /\ [x EXCEPT !.seen = FALSE] \in RequestState
      /\ [x EXCEPT !.mine = FALSE] \in RequestState
      /\ [x EXCEPT !.pc = "found"] \in RequestState
      /\ [x EXCEPT !.raced = TRUE] \in RequestState
  BY <1>1 DEF RequestState
<1>3. /\ RequestSound([x EXCEPT !.pc = "detail"]) /\ RequestSound([x EXCEPT !.pc = "reactivate"])
      /\ RequestSound([x EXCEPT !.seen = FALSE]) /\ RequestSound([x EXCEPT !.mine = FALSE])
      /\ x.what \in Fields => RequestSound([x EXCEPT !.pc = "found"])
      /\ RequestSound([x EXCEPT !.raced = TRUE])
  BY <1>1 DEF RequestSound, RequestState
<1> QED BY <1>2, <1>3 DEF Sound

-----------------------------------------------------------------------------
LEMMA IInvInit == Init => IInv
<1> SUFFICES ASSUME Init
             PROVE  tenant \in Tenant /\ log \in LogType /\ DeskType /\ DatesSound /\ LogTellsTenant
  BY Parts
<1>1. Created \in Tenant /\ Told(Created) \in Detail /\ Created.held \in [Fields -> Values]
  BY CreatedType, ToldType DEF Tenant
<1>2. DeskType
  BY <1>1, IdleSound, TenantsAssumption DEF Init, DeskType
<1>3. log \in LogType /\ LogTellsTenant
  BY <1>1, TenantsAssumption DEF Init, LogType, LogTellsTenant, Created
<1>4. DatesSound
  BY TenantsAssumption DEF Init, DatesSound, Open, Idle
<1> QED BY <1>1, <1>2, <1>3, <1>4 DEF Init

-----------------------------------------------------------------------------
\* Every transaction that changes the tenant writes the entry that tells it.

LEMMA CommitDesk ==
  ASSUME DeskType, NEW r \in Requests, NEW t \in Tenant, Commit(r, t), UNCHANGED left
  PROVE  DeskType'
<1> USE DEF DeskType
<1>1. UNCHANGED <<draft, dialog, busy, picked, alone, plain>>
  BY DEF Commit, history
<1>2. ASSUME NEW q \in Requests
      PROVE  /\ Overtaken(request[r], request[q]) \in Sound
             /\ [Overtaken(request[r], request[q]) EXCEPT !.seen = FALSE] \in Sound
  BY StepSound DEF Overtaken
<1>3. CASE request[r].mine
  <2>1. /\ request' = [q \in Requests |->
               IF q = r THEN Answer(request[r], t)
               ELSE [Overtaken(request[r], request[q]) EXCEPT !.seen = FALSE]]
        /\ screen' = [screen EXCEPT !.seen = FALSE]
    BY <1>3 DEF Commit
  <2>2. request' \in [Requests -> Sound]
    BY <2>1, <1>2, AnswerSound
  <2> QED BY <1>1, <2>1, <2>2
<1>4. CASE ~request[r].mine
  BY <1>1, <1>2, <1>4, IdleSound DEF Commit
<1> QED BY <1>3, <1>4

LEMMA UnchangedDesk ==
  ASSUME DeskType, NEW r \in Requests, NEW x \in Sound, UNCHANGED <<left, desk>>,
         request' = [request EXCEPT ![r] = x]
  PROVE  DeskType'
  BY DEF DeskType, desk, history

LEMMA IInvServer ==
  ASSUME tenant \in Tenant, log \in LogType, DeskType, DatesSound, LogTellsTenant,
         UNCHANGED left, NEW r \in Requests,
         \/ FindTenantDetail(r) \/ Select(r) \/ Update(r)
         \/ Suspend(r) \/ SoftDelete(r) \/ Restore(r) \/ Reactivate(r)
  PROVE  tenant' \in Tenant /\ log' \in LogType /\ DeskType' /\ LogTellsTenant'
<1>r. request[r] \in Sound
  BY DEF DeskType
<1>same. ASSUME UNCHANGED <<server, desk>>, NEW x \in Sound,
                request' = [request EXCEPT ![r] = x]
         PROVE  tenant' \in Tenant /\ log' \in LogType /\ DeskType' /\ LogTellsTenant'
  BY <1>same, UnchangedDesk DEF server, LogTellsTenant
<1>not. ASSUME Unchanged(r)
        PROVE  tenant' \in Tenant /\ log' \in LogType /\ DeskType' /\ LogTellsTenant'
  BY <1>not, <1>same, <1>r, StepSound DEF Unchanged, DeskType
<1>1. CASE FindTenantDetail(r)
  <2>1. (IF request[r].mine THEN Answer(request[r], tenant) ELSE Idle) \in Sound
    BY <1>r, AnswerSound, IdleSound
  <2> QED BY <1>1, <2>1, <1>same DEF FindTenantDetail, DeskType
<1>2. CASE Select(r)
  <2>1. [request[r] EXCEPT !.pc = "found"] \in Sound
    BY <1>2, <1>r, StepSound DEF Select
  <2>2. Unchanged(r) \/ (/\ request' = [request EXCEPT ![r].pc = "found"]
                         /\ UNCHANGED <<server, desk>>)
    BY <1>2 DEF Select
  <2> QED BY <2>1, <2>2, <1>same, <1>not DEF DeskType
<1>3. CASE Update(r)
  <2> DEFINE f == request[r].what
             v == request[r].value
             t == [tenant EXCEPT !.held[f] = v]
  <2>1. f \in Fields /\ v \in Values
    BY <1>3, <1>r DEF Update, Sound, RequestSound
  <2>2. t \in Tenant /\ Commit(r, t) /\ log' = Entry(request[r], v)
    BY <1>3, <2>1 DEF Update, Tenant
  <2>3. tenant' = t
    BY <2>2 DEF Commit
  <2>4. request[r].raced \/ log.at[f] < request[r].began
    BY <1>3, <2>1 DEF Update, DatesSound, Open
  <2>5. /\ log' \in LogType /\ log'.suspended = log.suspended /\ log'.deleted = log.deleted
        /\ log'.after = [log.after EXCEPT ![f] = IF log.at[f] < request[r].began THEN v ELSE @]
        /\ log'.raced = IF request[r].raced THEN log.raced \cup {f} ELSE log.raced \ {f}
    <3>1. request[r].began \in 0..Changes
      BY <1>r DEF Sound, RequestState
    <3> QED BY <3>1, <2>1, <2>2 DEF Entry, LogType
  <2> HIDE DEF f, v
  <2>6. LogTellsTenant'
    BY <2>1, <2>3, <2>4, <2>5 DEF LogType, LogTellsTenant, Tenant
  <2> QED BY <2>2, <2>3, <2>5, <2>6, CommitDesk
<1>4. CASE Suspend(r)
  <2>1. CASE /\ ~tenant.suspended /\ log' = [log EXCEPT !.suspended = @ + 1]
             /\ Commit(r, [tenant EXCEPT !.suspended = TRUE])
    <3>1. [tenant EXCEPT !.suspended = TRUE] \in Tenant
      BY DEF Tenant
    <3>2. tenant' = [tenant EXCEPT !.suspended = TRUE]
      BY <2>1 DEF Commit
    <3>3. log' \in LogType /\ LogTellsTenant'
      BY <2>1, <3>2 DEF LogType, LogTellsTenant, Tenant
    <3> QED BY <2>1, <3>1, <3>2, <3>3, CommitDesk
  <2> QED BY <1>4, <2>1, <1>not DEF Suspend
<1>5. CASE SoftDelete(r)
  <2>1. CASE /\ ~tenant.deleted /\ log' = [log EXCEPT !.deleted = @ + 1]
             /\ Commit(r, [tenant EXCEPT !.deleted = TRUE])
    <3>1. [tenant EXCEPT !.deleted = TRUE] \in Tenant
      BY DEF Tenant
    <3>2. tenant' = [tenant EXCEPT !.deleted = TRUE]
      BY <2>1 DEF Commit
    <3>3. log' \in LogType /\ LogTellsTenant'
      BY <2>1, <3>2 DEF LogType, LogTellsTenant, Tenant
    <3> QED BY <2>1, <3>1, <3>2, <3>3, CommitDesk
  <2> QED BY <1>5, <2>1, <1>not DEF SoftDelete
<1>6. CASE Restore(r)
  <2> DEFINE t == [tenant EXCEPT !.deleted = FALSE, !.suspended = FALSE]
  <2>1. CASE /\ tenant.deleted
             /\ log' = [log EXCEPT !.deleted = @ - 1,
                                   !.suspended = IF tenant.suspended THEN @ - 1 ELSE @]
             /\ Commit(r, t)
    <3>1. t \in Tenant
      BY DEF Tenant
    <3>2. tenant' = t
      BY <2>1 DEF Commit
    <3>3. log.deleted = 1 /\ log.suspended = (IF tenant.suspended THEN 1 ELSE 0)
      BY <2>1 DEF LogTellsTenant
    <3>4. log' = [[log EXCEPT !.deleted = 0] EXCEPT !.suspended = 0]
      <4>1. CASE tenant.suspended
        <5>1. log' = [log EXCEPT !.deleted = log.deleted - 1, !.suspended = log.suspended - 1]
          BY <4>1, <2>1
        <5> QED BY <4>1, <5>1, <3>3
      <4>2. CASE ~tenant.suspended
        <5>1. log' = [log EXCEPT !.deleted = log.deleted - 1, !.suspended = log.suspended]
          BY <4>2, <2>1
        <5> QED BY <4>2, <5>1, <3>3
      <4> QED BY <4>1, <4>2
    <3>7. [log EXCEPT !.deleted = 0] \in LogType
      BY DEF LogType
    <3>8. /\ log' \in LogType /\ log'.deleted = 0 /\ log'.suspended = 0
          /\ log'.after = log.after /\ log'.raced = log.raced
      BY <3>4, <3>7 DEF LogType
    <3>5. ~tenant'.deleted /\ ~tenant'.suspended /\ tenant'.held = tenant.held
      BY <3>2 DEF Tenant
    <3>6. log' \in LogType /\ LogTellsTenant'
      BY <3>8, <3>5 DEF LogTellsTenant
    <3> QED BY <2>1, <3>1, <3>2, <3>6, CommitDesk
  <2>2. CASE /\ request' = [request EXCEPT ![r].pc = "reactivate"]
             /\ UNCHANGED <<server, desk>>
    BY <2>2, <1>r, <1>same, StepSound DEF DeskType
  <2> QED BY <1>6, <2>1, <2>2 DEF Restore
<1>7. CASE Reactivate(r)
  <2>1. CASE /\ tenant.suspended /\ log' = [log EXCEPT !.suspended = @ - 1]
             /\ Commit(r, [tenant EXCEPT !.suspended = FALSE])
    <3>1. [tenant EXCEPT !.suspended = FALSE] \in Tenant
      BY DEF Tenant
    <3>2. tenant' = [tenant EXCEPT !.suspended = FALSE]
      BY <2>1 DEF Commit
    <3>3. log' \in LogType /\ LogTellsTenant'
      BY <2>1, <3>2 DEF LogType, LogTellsTenant, Tenant
    <3> QED BY <2>1, <3>1, <3>2, <3>3, CommitDesk
  <2> QED BY <1>7, <2>1, <1>not DEF Reactivate
<1> QED BY <1>1, <1>2, <1>3, <1>4, <1>5, <1>6, <1>7

-----------------------------------------------------------------------------
\* The desk changes neither the tenant nor the log.

LEMMA SendDesk ==
  ASSUME DeskType, NEW r \in Requests, NEW w \in Fields \cup {"load", "status"},
         NEW c \in Controls, NEW v \in Values \cup Targets, w \in Fields => v \in Values,
         Send(r, w, c, v)
  PROVE  DeskType' /\ UNCHANGED server
<1>1. left' \in 0..Changes /\ Changes - left' \in 0..Changes
  BY TenantsAssumption DEF Send, DeskType
<1>2. [Sent(w, c, v) EXCEPT !.began = Changes - left'] \in Sound
  BY <1>1, SentSound DEF Sound, RequestSound, RequestState
<1> QED BY <1>1, <1>2 DEF Send, DeskType

LEMMA ElsewhereDesk ==
  ASSUME DeskType, NEW r \in Requests, NEW w \in Fields \cup {"status"},
         NEW v \in Values \cup Targets, w \in Fields => v \in Values, Elsewhere(r, w, v)
  PROVE  DeskType' /\ UNCHANGED server
<1>1. w \in Controls /\ Told(Created) \in Detail
  BY CreatedType, ToldType DEF Controls
<1>2. left' \in 0..Changes /\ Changes - left' \in 0..Changes
  BY TenantsAssumption DEF Elsewhere, DeskType
<1>3. [Idle EXCEPT !.pc = "begun", !.what = w, !.by = w, !.value = v,
                   !.began = Changes - left'] \in Sound
  BY <1>1, <1>2 DEF Idle, Sound, RequestSound, RequestState
<1> QED BY <1>2, <1>3 DEF Elsewhere, DeskType, desk, history

LEMMA NoCardType == DeskType => NoCard \in [Fields -> Values]
  BY TenantsAssumption DEF NoCard, DeskType

LEMMA LoadDesk ==
  ASSUME DeskType, NEW r \in Requests, Load(r)
  PROVE  /\ request' \in [Requests -> Sound]
         /\ screen' \in [status : {"loading", "success", "error"}, data : Detail, seen : BOOLEAN]
         /\ draft' \in [Fields -> Values]
         /\ alone' \in BOOLEAN /\ plain' \in BOOLEAN /\ picked' \subseteq Cards
<1>1. Sent("load", "page", Base) \in Sound
  BY SentSound, TenantsAssumption
<1>2. \A q \in Requests : Orphaned(request[q]) \in Sound
  BY OrphanedSound DEF DeskType
<1> QED BY <1>1, <1>2, NoCardType DEF Load, DeskType

LEMMA ShowDesk ==
  ASSUME DeskType, NEW r \in Requests, Show(r)
  PROVE  /\ request' \in [Requests -> Sound]
         /\ screen' \in [status : {"loading", "success", "error"}, data : Detail, seen : BOOLEAN]
         /\ draft' \in [Fields -> Values]
         /\ alone' \in BOOLEAN /\ plain' \in BOOLEAN /\ picked' \subseteq Cards
<1>1. request[r].answer \in Detail /\ request[r].seen \in BOOLEAN
  BY DEF DeskType, Sound, RequestState
<1>2. Inputs(r) \in [Fields -> Values]
  BY <1>1, TenantsAssumption DEF Inputs, DeskType, Detail
<1>3. request' \in [Requests -> Sound]
  BY IdleSound DEF Show, DeskType
<1> QED BY <1>1, <1>2, <1>3 DEF Show, DeskType

LEMMA FailedDesk ==
  ASSUME DeskType, NEW r \in Requests, Failed(r)
  PROVE  /\ request' \in [Requests -> Sound]
         /\ screen' \in [status : {"loading", "success", "error"}, data : Detail, seen : BOOLEAN]
         /\ draft' \in [Fields -> Values] /\ dialog' = dialog
         /\ busy' \subseteq Controls /\ picked' \subseteq Cards
         /\ alone' \in BOOLEAN /\ plain' \in BOOLEAN
<1>1. CASE request[r].what = "load"
  <2>1. \A q \in Requests : (IF q = r THEN Idle ELSE Orphaned(request[q])) \in Sound
    BY OrphanedSound, IdleSound DEF DeskType
  <2>2. Told(Created) \in Detail
    BY ToldType, CreatedType
  <2>3. /\ request' = [q \in Requests |-> IF q = r THEN Idle ELSE Orphaned(request[q])]
        /\ screen' = [status |-> "error", data |-> Told(Created), seen |-> FALSE]
        /\ busy' = {c \in busy : ~OfCard(c)}
        /\ draft' = NoCard /\ picked' = {} /\ UNCHANGED <<dialog, alone, plain>>
    BY <1>1 DEF Failed, history
  <2>4. request' \in [Requests -> Sound] /\ draft' \in [Fields -> Values]
    BY <2>1, <2>3, NoCardType
  <2> QED BY <2>2, <2>3, <2>4 DEF DeskType
<1>2. CASE request[r].what # "load"
  BY <1>2, IdleSound DEF Failed, DeskType, history
<1> QED BY <1>1, <1>2

LEMMA AnsweredDesk ==
  ASSUME DeskType, NEW r \in Requests, Answered(r), UNCHANGED left
  PROVE  DeskType' /\ UNCHANGED server
<1> DEFINE x == request[r]
<1>1. x.what = "load" /\ Show(r) /\ UNCHANGED <<dialog, busy>> => DeskType'
  BY ShowDesk DEF DeskType
<1>2. x.what = "status" /\ Applied(r) => DeskType'
  BY LoadDesk DEF DeskType, Applied
<1>3. /\ Show(r) /\ busy' = busy \ {"name"}
      /\ dialog' = (IF dialog = "name" THEN "none" ELSE dialog)
      => DeskType'
  BY ShowDesk DEF DeskType
<1>4. Show(r) /\ busy' = busy \ {x.by} /\ UNCHANGED dialog => DeskType'
  BY ShowDesk DEF DeskType
<1>5. request' = [request EXCEPT ![r] = Idle] /\ UNCHANGED desk => DeskType'
  BY IdleSound DEF DeskType, desk, history
<1> QED BY <1>1, <1>2, <1>3, <1>4, <1>5 DEF Answered

LEMMA WorkDesk ==
  ASSUME DeskType, Work, UNCHANGED left PROVE DeskType' /\ UNCHANGED server
<1> USE DEF DeskType
<1>1. CASE StartRename
  <2>1. screen.data.held["name"] \in Values
    BY <1>1 DEF StartRename, Detail
  <2> QED BY <1>1, <2>1 DEF StartRename, history
<1>2. CASE Cancel
  <2>1. NoName(draft) \in [Fields -> Values]
    BY TenantsAssumption DEF NoName
  <2> QED BY <1>2, <2>1 DEF Cancel, history
<1>3. ASSUME NEW s \in Targets, Ask(s) PROVE DeskType' /\ UNCHANGED server
  BY <1>3 DEF Ask, history
<1>4. ASSUME NEW v \in Values, TypeName(v) PROVE DeskType' /\ UNCHANGED server
  BY <1>4 DEF TypeName, history
<1>5. ASSUME NEW v \in Values, NEW f \in Cards, Choose(f, v)
      PROVE  DeskType' /\ UNCHANGED server
  BY <1>5 DEF Choose, Cards, history
<1>6. ASSUME NEW r \in Requests, Retry(r) PROVE DeskType' /\ UNCHANGED server
  BY <1>6, LoadDesk DEF Retry
<1> QED BY <1>1, <1>2, <1>3, <1>4, <1>5, <1>6 DEF Work

LEMMA SubmitDesk ==
  ASSUME DeskType, Submit PROVE DeskType' /\ UNCHANGED server
<1>1. PICK r \in Requests :
        Apply(r) \/ SaveRename(r) \/ \E f \in Cards : Save(r, f) \/ Clear(r, f)
  BY DEF Submit
<1>n. "status" \notin Fields
  BY TenantsAssumption
<1>2. CASE Apply(r)
  BY <1>2, <1>n, SendDesk DEF Apply, Controls
<1>3. CASE SaveRename(r)
  <2>1. "name" \in Fields
    BY <1>3 DEF SaveRename, DeskType, Targets
  <2> QED BY <1>3, <2>1, SendDesk DEF SaveRename, Controls, DeskType
<1>4. ASSUME NEW f \in Cards, Save(r, f) PROVE DeskType' /\ UNCHANGED server
  <2>1. f \in Fields /\ draft[f] \in Values
    BY DEF Cards, DeskType
  <2> QED BY <1>4, <2>1, SendDesk DEF Save, Controls
<1>5. ASSUME NEW f \in Cards, Clear(r, f) PROVE DeskType' /\ UNCHANGED server
  <2>1. f \in Fields /\ Base \in Values
    BY TenantsAssumption DEF Cards
  <2>2. (IF f = "plan" THEN "cancel" ELSE f) \in Controls
    BY <2>1 DEF Controls
  <2> QED BY <1>5, <2>1, <2>2, SendDesk DEF Clear
<1> QED BY <1>1, <1>2, <1>3, <1>4, <1>5

-----------------------------------------------------------------------------
\* Dates: what a step leaves open was open before, as old and no less overtaken.
Kept(y, x) ==
  Open(y) => Open(x) /\ y.what = x.what /\ y.began = x.began /\ (x.raced => y.raced)

LEMMA DatesKept ==
  ASSUME DatesSound, UNCHANGED left, log'.at = log.at,
         \A q \in Requests : Kept(request'[q], request[q])
  PROVE  DatesSound'
  BY DEF DatesSound, Kept

LEMMA KeptSame == \A x : Kept(x, x)
  BY DEF Kept

LEMMA KeptIdle == \A x : Kept(Idle, x)
  BY DEF Kept, Open, Idle

LEMMA KeptLoad == \A x, c, v : Kept(Sent("load", c, v), x)
  BY TenantsAssumption DEF Kept, Open, Sent, Idle

LEMMA KeptAnswer == ASSUME NEW x \in Sound, NEW t PROVE Kept(Answer(x, t), x)
  BY DEF Kept, Open, Answer, Sound, RequestState

LEMMA KeptOrphaned == ASSUME NEW x \in Sound PROVE Kept(Orphaned(x), x)
  BY DEF Kept, Open, Orphaned, Sound, RequestState

LEMMA KeptOvertaken ==
  ASSUME NEW x, NEW q \in Sound
  PROVE  Kept(Overtaken(x, q), q) /\ Kept([Overtaken(x, q) EXCEPT !.seen = FALSE], q)
  BY DEF Kept, Open, Overtaken, Sound, RequestState

LEMMA KeptStep ==
  ASSUME NEW x \in Sound
  PROVE  /\ Kept([x EXCEPT !.pc = "detail"], x) /\ Kept([x EXCEPT !.pc = "reactivate"], x)
         /\ x.pc = "begun" => Kept([x EXCEPT !.pc = "found"], x)
         /\ Kept([x EXCEPT !.mine = FALSE], x)
  BY DEF Kept, Open, Sound, RequestState

LEMMA CommitKept ==
  ASSUME DeskType, NEW r \in Requests, NEW t, Commit(r, t)
  PROVE  \A q \in Requests : Kept(request'[q], request[q])
<1>1. \A q \in Requests : request[q] \in Sound
  BY DEF DeskType
<1>2. CASE request[r].mine
  <2>1. request' = [q \in Requests |->
               IF q = r THEN Answer(request[r], t)
               ELSE [Overtaken(request[r], request[q]) EXCEPT !.seen = FALSE]]
    BY <1>2 DEF Commit
  <2> QED BY <2>1, <1>1, KeptAnswer, KeptOvertaken
<1>3. CASE ~request[r].mine
  <2>1. request' = [q \in Requests |->
               IF q = r THEN Idle ELSE Overtaken(request[r], request[q])]
    BY <1>3 DEF Commit
  <2> QED BY <2>1, <1>1, KeptIdle, KeptOvertaken
<1> QED BY <1>2, <1>3

LEMMA StepKept ==
  ASSUME DeskType, NEW r \in Requests, NEW y, Kept(y, request[r]),
         request' = [request EXCEPT ![r] = y]
  PROVE  \A q \in Requests : Kept(request'[q], request[q])
  BY KeptSame DEF DeskType

\* The commit marks whatever may still change the field of x.
LEMMA CommitRaces ==
  ASSUME DeskType, NEW r \in Requests, NEW t, Commit(r, t), NEW q \in Requests,
         Open(request'[q]), request'[q].what = request[r].what
  PROVE  request'[q].raced
<1>1. request[q] \in RequestState /\ request[r] \in RequestState
  BY DEF DeskType, Sound
<1>2. CASE q = r
  <2>1. request'[r] = Answer(request[r], t) \/ request'[r] = Idle
    BY DEF Commit, DeskType
  <2>2. Answer(request[r], t).pc = "answered"
    BY <1>1 DEF Answer, RequestState
  <2>3. Idle.pc = "idle"
    BY DEF Idle
  <2> QED BY <1>2, <2>1, <2>2, <2>3 DEF Open
<1>3. CASE q # r
  <2>1. \/ request'[q] = [Overtaken(request[r], request[q]) EXCEPT !.seen = FALSE]
        \/ request'[q] = Overtaken(request[r], request[q])
    BY <1>3 DEF Commit
  <2> QED BY <1>1, <2>1 DEF Open, Overtaken, RequestState
<1> QED BY <1>2, <1>3

LEMMA FailedKept ==
  ASSUME DeskType, NEW r \in Requests, Failed(r)
  PROVE  \A q \in Requests : Kept(request'[q], request[q])
<1>1. \A q \in Requests : request[q] \in Sound
  BY DEF DeskType
<1>2. \/ request' = [q \in Requests |-> IF q = r THEN Idle ELSE Orphaned(request[q])]
      \/ request' = [request EXCEPT ![r] = Idle]
  BY DEF Failed
<1> QED BY <1>1, <1>2, KeptIdle, KeptOrphaned, StepKept

LEMMA LoadKept ==
  ASSUME DeskType, NEW r \in Requests, Load(r)
  PROVE  \A q \in Requests : Kept(request'[q], request[q])
<1>1. \A q \in Requests : request[q] \in Sound
  BY DEF DeskType
<1> QED BY <1>1, KeptLoad, KeptOrphaned DEF Load

LEMMA DatesServe ==
  ASSUME log \in LogType, DeskType, DatesSound, UNCHANGED left, NEW r \in Requests, Serve(r)
  PROVE  DatesSound'
<1>r. \A q \in Requests : request[q] \in Sound
  BY DEF DeskType
<1>one. ASSUME UNCHANGED log, NEW y, Kept(y, request[r]), request' = [request EXCEPT ![r] = y]
        PROVE  DatesSound'
  BY <1>one, StepKept, DatesKept
<1>not. ASSUME Unchanged(r) PROVE DatesSound'
  BY <1>not, <1>one, <1>r, KeptStep DEF Unchanged, server, DeskType
<1>commit. ASSUME NEW t, Commit(r, t), log'.at = log.at PROVE DatesSound'
  BY <1>commit, CommitKept, DatesKept
<1>1. CASE FindTenantDetail(r)
  BY <1>1, <1>one, <1>r, KeptAnswer, KeptIdle DEF FindTenantDetail, server, DeskType
<1>2. CASE Select(r)
  <2>1. \/ Unchanged(r)
        \/ /\ request[r].pc = "begun" /\ UNCHANGED log
           /\ request' = [request EXCEPT ![r] = [request[r] EXCEPT !.pc = "found"]]
    BY <1>2 DEF Select, server, DeskType
  <2> QED BY <2>1, <1>not, <1>one, <1>r, KeptStep
<1>3. CASE Update(r)
  <2> DEFINE x == request[r]
             t == [tenant EXCEPT !.held[x.what] = x.value]
  <2>1. x.what \in Fields /\ x.began \in 0..Changes /\ left \in Int /\ Open(x)
    BY <1>3, <1>r DEF Update, Sound, RequestSound, RequestState, Open, DeskType
  <2>2. /\ Commit(r, t)
        /\ log'.at = [log.at EXCEPT ![x.what] = IF log.at[x.what] < x.began THEN x.began ELSE @]
    BY <1>3, <2>1 DEF Update, Entry, LogType
  <2>3. x.began <= Changes - left
    BY <2>1 DEF DatesSound
  <2>4. \A f \in Fields : log'.at[f] <= Changes - left
    BY <2>1, <2>2, <2>3 DEF DatesSound, LogType
  <2>5. ASSUME NEW q \in Requests, Open(request'[q])
        PROVE  /\ request'[q].began <= Changes - left
               /\ request'[q].raced \/ log'.at[request'[q].what] < request'[q].began
    <3>1. Kept(request'[q], request[q])
      BY <2>2, CommitKept
    <3>2. CASE request'[q].what = x.what
      BY <2>2, <2>5, <3>1, <3>2, CommitRaces DEF DatesSound, Kept
    <3>3. CASE request'[q].what # x.what
      <4>1. request'[q].what \in Fields
        BY <2>5 DEF Open
      <4>2. log'.at[request'[q].what] = log.at[request'[q].what]
        BY <2>1, <2>2, <3>3, <4>1 DEF LogType
      <4> QED BY <2>5, <3>1, <4>2 DEF DatesSound, Kept
    <3> QED BY <3>2, <3>3
  <2> QED BY <2>4, <2>5 DEF DatesSound
<1>4. CASE Suspend(r) \/ SoftDelete(r) \/ Reactivate(r)
  BY <1>4, <1>not, <1>commit DEF Suspend, SoftDelete, Reactivate, LogType
<1>5. CASE Restore(r)
  <2>1. \/ log'.at = log.at /\ Commit(r, [tenant EXCEPT !.deleted = FALSE, !.suspended = FALSE])
        \/ /\ UNCHANGED log
           /\ request' = [request EXCEPT ![r] = [request[r] EXCEPT !.pc = "reactivate"]]
    BY <1>5 DEF Restore, server, DeskType, LogType
  <2> QED BY <2>1, <1>commit, <1>one, <1>r, KeptStep
<1>6. CASE RolledBack(r)
  <2>1. UNCHANGED log /\ (Failed(r) \/ request' = [request EXCEPT ![r] = Idle])
    BY <1>6 DEF RolledBack, server
  <2>2. CASE Failed(r)
    BY <2>1, <2>2, FailedKept, DatesKept
  <2> QED BY <2>1, <2>2, <1>one, KeptIdle
<1> QED BY <1>1, <1>2, <1>3, <1>4, <1>5, <1>6 DEF Serve

\* A request that is sent now is younger than every entry.
LEMMA DatesSent ==
  ASSUME log \in LogType, DeskType, DatesSound, NEW r \in Requests, NEW y,
         left > 0, left' = left - 1, UNCHANGED log,
         request' = [request EXCEPT ![r] = y], y.began = Changes - left'
  PROVE  DatesSound'
<1>1. left \in Int /\ Changes \in Int /\ log.at \in [Fields -> 0..Changes]
  BY TenantsAssumption DEF DeskType, LogType
<1>2. \A f \in Fields : log'.at[f] < Changes - left'
  BY <1>1 DEF DatesSound
<1>3. ASSUME NEW q \in Requests, Open(request'[q])
      PROVE  /\ request'[q].began <= Changes - left'
             /\ request'[q].raced \/ log'.at[request'[q].what] < request'[q].began
  <2>1. CASE q = r
    BY <2>1, <1>1, <1>2, <1>3 DEF DeskType, Open
  <2>2. CASE q # r
    <3>1. request'[q] = request[q] /\ request[q].began \in Int
      BY <2>2 DEF DeskType, Sound, RequestState
    <3> QED BY <3>1, <1>1, <1>3 DEF DatesSound
  <2> QED BY <2>1, <2>2
<1> QED BY <1>1, <1>2, <1>3 DEF DatesSound

LEMMA DatesStep ==
  ASSUME log \in LogType, DeskType, DatesSound, [Next]_vars PROVE DatesSound'
<1>same. ASSUME UNCHANGED <<log, request, left>> PROVE DatesSound'
  BY <1>same DEF DatesSound
<1>kept. ASSUME UNCHANGED <<log, left>>, \A q \in Requests : Kept(request'[q], request[q])
         PROVE  DatesSound'
  BY <1>kept, DatesKept
<1>1. ASSUME NEW r \in Requests, Answered(r), UNCHANGED left PROVE DatesSound'
  <2>1. UNCHANGED log /\ (Load(r) \/ request' = [request EXCEPT ![r] = Idle])
    BY <1>1 DEF Answered, Applied, Show, server
  <2> QED BY <2>1, <1>1, <1>kept, LoadKept, StepKept, KeptIdle
<1>2. ASSUME NEW r \in Requests, Disconnected(r), UNCHANGED left PROVE DatesSound'
  <2>1. /\ UNCHANGED log /\ request[r] \in Sound
        /\ request' = [request EXCEPT ![r] = [request[r] EXCEPT !.mine = FALSE]]
    BY <1>2 DEF Disconnected, server, DeskType
  <2> QED BY <2>1, <1>2, <1>kept, StepKept, KeptStep
<1>3. CASE Work /\ UNCHANGED left
  <2>1. ASSUME NEW r \in Requests, Retry(r) PROVE DatesSound'
    BY <1>3, <2>1, <1>kept, LoadKept DEF Retry, server
  <2>2. ASSUME \/ StartRename \/ Cancel \/ \E s \in Targets : Ask(s)
               \/ \E v \in Values : TypeName(v) \/ \E f \in Cards : Choose(f, v)
        PROVE  DatesSound'
    BY <1>3, <2>2, <1>same DEF StartRename, Cancel, Ask, TypeName, Choose, server
  <2> QED BY <1>3, <2>1, <2>2 DEF Work
<1>4. CASE Submit
  <2>1. \E r \in Requests : \E w, c, v : Send(r, w, c, v)
    BY <1>4 DEF Submit, Apply, SaveRename, Save, Clear
  <2>2. ASSUME NEW r \in Requests, NEW w, NEW c, NEW v, Send(r, w, c, v) PROVE DatesSound'
    <3> DEFINE y == [Sent(w, c, v) EXCEPT !.began = Changes - left']
    <3>1. y.began = Changes - left'
      BY DEF Sent, Idle
    <3> QED BY <2>2, <3>1, DatesSent DEF Send, server
  <2> QED BY <2>1, <2>2
<1>5. ASSUME NEW r \in Requests,
             \/ \E f \in Fields, v \in Values : Elsewhere(r, f, v)
             \/ \E s \in Targets : Elsewhere(r, "status", s)
      PROVE  DatesSound'
  <2>1. ASSUME NEW w, NEW v, Elsewhere(r, w, v) PROVE DatesSound'
    <3> DEFINE y == [Idle EXCEPT !.pc = "begun", !.what = w, !.by = w, !.value = v,
                                 !.began = Changes - left']
    <3>1. y.began = Changes - left'
      BY DEF Idle
    <3> QED BY <2>1, <3>1, DatesSent DEF Elsewhere, server
  <2> QED BY <1>5, <2>1
<1>6. CASE UNCHANGED vars
  BY <1>6, <1>same DEF vars, server
<1> QED BY <1>1, <1>2, <1>3, <1>4, <1>5, <1>6, DatesServe DEF Next

-----------------------------------------------------------------------------
LEMMA IInvStep == IInv /\ [Next]_vars => IInv'
<1> DEFINE Good == tenant' \in Tenant /\ log' \in LogType /\ DeskType' /\ LogTellsTenant'
<1> SUFFICES ASSUME tenant \in Tenant, log \in LogType, DeskType, DatesSound, LogTellsTenant,
                    [Next]_vars
             PROVE  Good
  <2>1. ASSUME Good, DatesSound' PROVE IInv'
    <3>1. request' \in [Requests -> RequestState] /\ \A r \in Requests : RequestSound(request'[r])
      BY <2>1 DEF DeskType, Sound
    <3> QED BY <2>1, <3>1 DEF IInv, TypeOK, DeskType, LogType, RequestSound
  <2> QED BY <2>1, Parts, DatesStep
<1>d. DeskType' /\ UNCHANGED server => Good
  BY DEF server, LogTellsTenant
<1> HIDE DEF Good
<1>1. ASSUME NEW r \in Requests, UNCHANGED left,
             \/ FindTenantDetail(r) \/ Select(r) \/ Update(r)
             \/ Suspend(r) \/ SoftDelete(r) \/ Restore(r) \/ Reactivate(r)
      PROVE  Good
  BY <1>1, IInvServer DEF Good
<1>2. ASSUME NEW r \in Requests, RolledBack(r), UNCHANGED left PROVE Good
  <2>1. CASE request[r].mine
    BY <1>2, <2>1, <1>d, FailedDesk DEF RolledBack, DeskType
  <2>2. CASE ~request[r].mine
    BY <1>2, <2>2, <1>d, IdleSound, UnchangedDesk DEF RolledBack
  <2> QED BY <2>1, <2>2
<1>3. ASSUME NEW r \in Requests, Answered(r), UNCHANGED left PROVE Good
  BY <1>3, <1>d, AnsweredDesk
<1>4. ASSUME NEW r \in Requests, Disconnected(r), UNCHANGED left PROVE Good
  <2>1. [request[r] EXCEPT !.mine = FALSE] \in Sound
    BY StepSound DEF DeskType
  <2>2. DeskType' /\ UNCHANGED server
    BY <1>4, <2>1 DEF Disconnected, DeskType, history
  <2> QED BY <2>2, <1>d
<1>5. ASSUME NEW r \in Requests,
             \/ \E f \in Fields, v \in Values : Elsewhere(r, f, v)
             \/ \E s \in Targets : Elsewhere(r, "status", s)
      PROVE  Good
  <2>1. "status" \notin Fields
    BY TenantsAssumption
  <2> QED BY <1>5, <2>1, <1>d, ElsewhereDesk
<1>6. CASE Work /\ UNCHANGED left
  BY <1>6, <1>d, WorkDesk
<1>7. CASE Submit
  BY <1>7, <1>d, SubmitDesk
<1>8. CASE UNCHANGED vars
  BY <1>8, <1>d DEF vars, desk, history, DeskType
<1>9. CASE Next
  <2>1. ASSUME NEW r \in Requests, Serve(r), UNCHANGED left PROVE Good
    BY <2>1, <1>1, <1>2 DEF Serve
  <2> QED BY <1>9, <2>1, <1>3, <1>4, <1>5, <1>6, <1>7 DEF Next
<1> QED BY <1>8, <1>9

\* The inductive invariant: what is between a SELECT and its UPDATE is a change
\* of a field to a value of it, a change that was not overtaken is younger than
\* its field's newest entry, and the log tells the tenant.
THEOREM Invariance == Spec => []IInv
<1>1. Init => IInv
  BY IInvInit
<1>2. IInv /\ [Next]_vars => IInv'
  BY IInvStep
<1> QED BY <1>1, <1>2, PTL DEF Spec

\* However many operators rename, sell, suspend, archive and restore a tenant at
\* once, the audit log's entries balance to its status, and a field's newest
\* entry says what it is unless a change committed while that entry's was under
\* way (setTenantStatus, setTenantName, setTenantPlan, setTenantSeatLimit).
THEOREM LogIsTrue == Spec => []LogTellsTenant
<1>1. IInv => LogTellsTenant
  BY DEF IInv
<1> QED BY <1>1, Invariance, PTL
-----------------------------------------------------------------------------
\* What the desk shows.  A control is busy because a request of it is heard of,
\* and a page that loads waits for its load.  A request that was sent alone is
\* the only one under way, so what it is answered with was read after every
\* save of the desk.

\* A request in progress knows the control it was sent from.
Shape(x) ==
  /\ x.pc = "idle" => ~x.mine
  /\ x.pc = "answered" => x.mine
  /\ x.what = "load" => x.by = "page"
  /\ x.what = "status" => x.by = "status"
  /\ x.what = "name" => x.by = "name"
  /\ x.what \in Cards => OfCard(x.by)
  /\ x.orphan => OfCard(x.by)

Read(x) == ~x.orphan /\ (x.pc = "answered" /\ x.what # "status" => x.seen)

BusyWaits ==
  \A c \in busy : \E r \in Waiting : ~request[r].orphan /\ request[r].by = c
LoadWaits  == screen.status = "loading" => \E r \in Waiting : request[r].what = "load"
CardGone   == screen.status # "success" => \A c \in busy : ~OfCard(c)
AloneWaits == alone => \A q, r \in Waiting : q = r
AloneReads == alone => \A r \in Waiting : Read(request[r])
PlainAlone == plain => alone
StaleWaits ==
  plain /\ screen.status = "success" /\ ~screen.seen =>
    \E r \in Waiting : request[r].pc = "answered"

DeskSound ==
  /\ \A r \in Requests : Shape(request[r])
  /\ BusyWaits /\ LoadWaits /\ CardGone
  /\ AloneWaits /\ AloneReads /\ PlainAlone /\ StaleWaits

LEMMA Names ==
  /\ "page" \notin Controls /\ ~OfCard("page") /\ ~OfCard("status") /\ ~OfCard("name")
  /\ "name" \notin Cards /\ "status" \notin Fields /\ "load" \notin Fields
  BY TenantsAssumption DEF Controls, OfCard, Cards

LEMMA IdleShape == Shape(Idle) /\ ~Idle.mine
  BY Names, TenantsAssumption DEF Shape, Idle, Cards

LEMMA SentShape ==
  ASSUME NEW w, NEW c, NEW v,
         w = "load" => c = "page", w = "status" => c = "status",
         w = "name" => c = "name", w \in Cards => OfCard(c)
  PROVE  /\ Shape(Sent(w, c, v)) /\ Read(Sent(w, c, v))
         /\ Sent(w, c, v).mine /\ ~Sent(w, c, v).orphan
         /\ Sent(w, c, v).by = c /\ Sent(w, c, v).what = w
<1>1. /\ Sent(w, c, v).pc = "begun" /\ Sent(w, c, v).mine /\ ~Sent(w, c, v).orphan
      /\ Sent(w, c, v).by = c /\ Sent(w, c, v).what = w
  BY DEF Sent, Idle
<1> HIDE DEF Sent
<1> QED BY <1>1 DEF Shape, Read

\* A card that goes leaves its requests' control and aim.
LEMMA OrphanedShape ==
  ASSUME NEW x \in Sound, Shape(x)
  PROVE  /\ Shape(Orphaned(x)) /\ Orphaned(x).mine = x.mine /\ Orphaned(x).by = x.by
         /\ ~OfCard(x.by) => Orphaned(x) = x
  BY DEF Orphaned, Sound, RequestState, Shape

\* A step of the API in a request whose sender still has nothing of it
LEMMA ServedKeeps ==
  ASSUME DeskType, DeskSound, NEW r \in Requests, NEW y, request[r].pc # "answered",
         y.mine = request[r].mine, y.what = request[r].what, y.by = request[r].by,
         y.orphan = request[r].orphan, Shape(y), ~y.orphan => Read(y),
         request' = [request EXCEPT ![r] = y], UNCHANGED desk
  PROVE  DeskSound'
<1>1. /\ \A q \in Requests : request'[q] = IF q = r THEN y ELSE request[q]
      /\ Waiting' = Waiting /\ UNCHANGED <<screen, busy, alone, plain>>
  BY DEF DeskType, Waiting, desk, history
<1>2. /\ \A q \in Requests : Shape(request'[q])
      /\ BusyWaits' /\ LoadWaits' /\ CardGone' /\ AloneWaits' /\ PlainAlone' /\ StaleWaits'
  BY <1>1 DEF DeskSound, BusyWaits, LoadWaits, CardGone, AloneWaits, PlainAlone, StaleWaits, Waiting
<1>3. AloneReads'
  BY <1>1 DEF DeskSound, AloneReads, Read, Waiting
<1> QED BY <1>2, <1>3 DEF DeskSound

\* A request the desk does not wait for
LEMMA OtherKeeps ==
  ASSUME DeskType, DeskSound, NEW r \in Requests, NEW y, ~request[r].mine, ~y.mine, Shape(y),
         request' = [request EXCEPT ![r] = y], UNCHANGED <<screen, busy, history>>
  PROVE  DeskSound'
<1>1. /\ \A q \in Requests : request'[q] = IF q = r THEN y ELSE request[q]
      /\ Waiting' = Waiting /\ UNCHANGED <<screen, busy, alone, plain>>
  BY DEF DeskType, Waiting, history
<1>2. r \notin Waiting
  BY DEF Waiting
<1> QED BY <1>1, <1>2
  DEF DeskSound, BusyWaits, LoadWaits, CardGone, AloneWaits, AloneReads, PlainAlone, StaleWaits, Waiting

LEMMA OvertakenShape ==
  ASSUME NEW x, NEW q \in Sound, Shape(q)
  PROVE  LET y == Overtaken(x, q)
         IN  /\ y.mine = q.mine /\ y.what = q.what /\ y.by = q.by
             /\ y.orphan = q.orphan /\ y.pc = q.pc /\ y.seen = q.seen
             /\ y \in RequestState /\ Shape(y)
<1>1. q \in RequestState
  BY DEF Sound
<1>2. CASE Overtaken(x, q) = q
  BY <1>1, <1>2
<1>3. CASE Overtaken(x, q) = [q EXCEPT !.raced = TRUE]
  BY <1>1, <1>3 DEF RequestState, Shape
<1> QED BY <1>2, <1>3 DEF Overtaken

LEMMA CommitKeeps ==
  ASSUME DeskType, DeskSound, NEW r \in Requests, NEW t, Commit(r, t), request[r].pc # "answered"
  PROVE  DeskSound'
<1>r. request[r] \in Sound /\ Shape(request[r])
  BY DEF DeskType, DeskSound
<1>q. \A q \in Requests : request[q] \in Sound /\ Shape(request[q])
  BY DEF DeskType, DeskSound
<1>1. CASE ~request[r].mine
  <2>1. /\ request'[r] = Idle
        /\ \A q \in Requests : q # r => request'[q] = Overtaken(request[r], request[q])
        /\ UNCHANGED <<screen, busy, alone, plain>>
    BY <1>1 DEF Commit, history
  <2>2. \A q \in Requests : q # r =>
          /\ request'[q].mine = request[q].mine /\ request'[q].what = request[q].what
          /\ request'[q].by = request[q].by /\ request'[q].orphan = request[q].orphan
          /\ request'[q].pc = request[q].pc /\ request'[q].seen = request[q].seen
          /\ Shape(request'[q])
    BY <2>1, <1>q, OvertakenShape
  <2>3. Waiting' = Waiting /\ r \notin Waiting
    BY <1>1, <2>1, <2>2, IdleShape DEF Waiting
  <2>4. \A q \in Requests : Shape(request'[q])
    BY <2>1, <2>2, IdleShape
  <2>5. BusyWaits' /\ LoadWaits' /\ CardGone' /\ AloneWaits' /\ PlainAlone' /\ StaleWaits'
    BY <2>1, <2>2, <2>3
    DEF DeskSound, BusyWaits, LoadWaits, CardGone, AloneWaits, PlainAlone, StaleWaits, Waiting
  <2>6. AloneReads'
    BY <2>1, <2>2, <2>3 DEF DeskSound, AloneReads, Read, Waiting
  <2> QED BY <2>4, <2>5, <2>6 DEF DeskSound
<1>2. CASE request[r].mine
  <2> DEFINE y == Answer(request[r], t)
  <2>1. /\ y.mine /\ y.what = request[r].what /\ y.by = request[r].by
        /\ y.orphan = request[r].orphan /\ y.pc = "answered" /\ Shape(y)
        /\ ~y.orphan => Read(y)
    BY <1>2, <1>r DEF Answer, Sound, RequestState, Shape, Read
  <2> HIDE DEF y
  <2>2. /\ request'[r] = y
        /\ \A q \in Requests : q # r =>
             request'[q] = [Overtaken(request[r], request[q]) EXCEPT !.seen = FALSE]
        /\ screen' = [screen EXCEPT !.seen = FALSE]
        /\ UNCHANGED <<busy, alone, plain>>
    BY <1>2 DEF Commit, history, y
  <2>3. ASSUME NEW q \in Requests, q # r
        PROVE  /\ request'[q].mine = request[q].mine /\ request'[q].what = request[q].what
               /\ request'[q].by = request[q].by /\ request'[q].orphan = request[q].orphan
               /\ request'[q].pc = request[q].pc /\ Shape(request'[q])
    <3> DEFINE z == Overtaken(request[r], request[q])
    <3>1. /\ z.mine = request[q].mine /\ z.what = request[q].what /\ z.by = request[q].by
          /\ z.orphan = request[q].orphan /\ z.pc = request[q].pc
          /\ z \in RequestState /\ Shape(z)
      BY <1>q, OvertakenShape
    <3>2. request'[q] = [z EXCEPT !.seen = FALSE]
      BY <2>2, <2>3
    <3> HIDE DEF z
    <3> QED BY <3>1, <3>2 DEF RequestState, Shape
  <2>4. Waiting' = Waiting /\ r \in Waiting /\ screen'.status = screen.status
    BY <1>2, <2>1, <2>2, <2>3 DEF Waiting, DeskType
  <2>5. \A q \in Requests : Shape(request'[q])
    BY <2>1, <2>2, <2>3
  <2>6. BusyWaits' /\ LoadWaits' /\ CardGone' /\ AloneWaits' /\ PlainAlone'
    BY <2>1, <2>2, <2>3, <2>4
    DEF DeskSound, BusyWaits, LoadWaits, CardGone, AloneWaits, PlainAlone, Waiting
  <2>7. AloneReads'
    <3> SUFFICES ASSUME alone PROVE Read(request'[r]) /\ \A q \in Waiting : q = r
      BY <2>2, <2>4 DEF AloneReads
    <3>1. ~request[r].orphan /\ \A q \in Waiting : q = r
      BY <2>4 DEF DeskSound, AloneWaits, AloneReads, Read
    <3> QED BY <3>1, <2>1, <2>2
  <2>8. StaleWaits'
    BY <2>1, <2>2, <2>4 DEF StaleWaits
  <2> QED BY <2>5, <2>6, <2>7, <2>8 DEF DeskSound
<1> QED BY <1>1, <1>2

LEMMA ServeKeeps ==
  ASSUME tenant \in Tenant, DeskType, DeskSound, NEW r \in Requests,
         \/ FindTenantDetail(r) \/ Select(r) \/ Update(r)
         \/ Suspend(r) \/ SoftDelete(r) \/ Restore(r) \/ Reactivate(r)
  PROVE  DeskSound'
<1>r. request[r] \in RequestState /\ Shape(request[r])
  BY DEF DeskType, DeskSound, Sound
<1>pc. ASSUME NEW p \in {"found", "reactivate", "detail"}, request[r].pc \notin {"idle", "answered"},
              request' = [request EXCEPT ![r].pc = p], UNCHANGED desk
       PROVE  DeskSound'
  <2> DEFINE y == [request[r] EXCEPT !.pc = p]
  <2>1. /\ y.mine = request[r].mine /\ y.what = request[r].what /\ y.by = request[r].by
        /\ y.orphan = request[r].orphan /\ y.pc = p
    BY <1>r DEF RequestState
  <2>2. request' = [request EXCEPT ![r] = y]
    BY <1>pc DEF DeskType
  <2> HIDE DEF y
  <2>3. Shape(y) /\ (~y.orphan => Read(y))
    BY <1>r, <1>pc, <2>1 DEF Shape, Read
  <2> QED BY <1>pc, <2>1, <2>2, <2>3, ServedKeeps
<1>1. CASE FindTenantDetail(r)
  <2>1. CASE request[r].mine
    <3> DEFINE y == Answer(request[r], tenant)
    <3>1. /\ y.mine = request[r].mine /\ y.what = request[r].what /\ y.by = request[r].by
          /\ y.orphan = request[r].orphan /\ Shape(y) /\ (~y.orphan => Read(y))
      BY <1>r, <2>1 DEF Answer, RequestState, Shape, Read
    <3>2. request' = [request EXCEPT ![r] = y] /\ request[r].pc # "answered" /\ UNCHANGED desk
      BY <1>1, <2>1 DEF FindTenantDetail, DeskType
    <3> HIDE DEF y
    <3> QED BY <3>1, <3>2, ServedKeeps
  <2>2. CASE ~request[r].mine
    BY <1>1, <2>2, IdleShape, OtherKeeps DEF FindTenantDetail, desk, DeskType
  <2> QED BY <2>1, <2>2
<1>2. CASE Select(r)
  BY <1>2, <1>pc DEF Select, Unchanged
<1>3. CASE Update(r)
  BY <1>3, CommitKeeps DEF Update
<1>4. CASE Suspend(r)
  BY <1>4, <1>pc, CommitKeeps DEF Suspend, Unchanged
<1>5. CASE SoftDelete(r)
  BY <1>5, <1>pc, CommitKeeps DEF SoftDelete, Unchanged
<1>6. CASE Restore(r)
  BY <1>6, <1>pc, CommitKeeps DEF Restore
<1>7. CASE Reactivate(r)
  BY <1>7, <1>pc, CommitKeeps DEF Reactivate, Unchanged
<1> QED BY <1>1, <1>2, <1>3, <1>4, <1>5, <1>6, <1>7

-----------------------------------------------------------------------------
LEMMA SendKeeps ==
  ASSUME DeskType, DeskSound, NEW r \in Requests, NEW w, NEW c, NEW v, Send(r, w, c, v),
         w # "load", w = "status" => c = "status", w = "name" => c = "name",
         w \in Cards => OfCard(c), OfCard(c) => screen.status = "success"
  PROVE  DeskSound'
<1> DEFINE y == [Sent(w, c, v) EXCEPT !.began = Changes - left']
<1>z. y.pc = "begun" /\ y.mine /\ ~y.orphan /\ y.by = c /\ y.what = w
  BY DEF Sent, Idle
<1> HIDE DEF y
<1>y. Shape(y) /\ Read(y) /\ y.mine /\ ~y.orphan /\ y.by = c /\ y.what = w
  BY <1>z DEF Shape, Read
<1>1. /\ request'[r] = y /\ \A q \in Requests : q # r => request'[q] = request[q]
      /\ busy' = busy \cup {c} /\ screen' = screen
      /\ alone' = (Waiting = {}) /\ plain' = (plain /\ Waiting = {})
  BY DEF Send, DeskType, y
<1>2. ~request[r].mine
  BY DEF Send, DeskSound, Shape
<1>3. Waiting' = Waiting \cup {r} /\ r \notin Waiting
  BY <1>1, <1>2, <1>y DEF Waiting
<1>4. \A q \in Requests : Shape(request'[q])
  BY <1>1, <1>y DEF DeskSound
<1>5. BusyWaits'
  BY <1>1, <1>3, <1>y DEF DeskSound, BusyWaits, Waiting
<1>6. LoadWaits' /\ CardGone'
  BY <1>1, <1>3, <1>y DEF DeskSound, LoadWaits, CardGone, Waiting
<1>7. AloneWaits' /\ AloneReads' /\ PlainAlone'
  BY <1>1, <1>3, <1>y DEF AloneWaits, AloneReads, PlainAlone
<1>8. StaleWaits'
  BY <1>1 DEF DeskSound, StaleWaits
<1> QED BY <1>4, <1>5, <1>6, <1>7, <1>8 DEF DeskSound

\* The page loads, because of an error or of r, answered.
LEMMA LoadKeeps ==
  ASSUME DeskType, DeskSound, NEW r \in Requests, Load(r),
         busy' \subseteq busy, \A c \in busy' : ~OfCard(c) /\ (request[r].mine => request[r].by # c)
  PROVE  DeskSound'
<1> DEFINE y == Sent("load", "page", Base)
<1>y. Shape(y) /\ Read(y) /\ y.mine /\ y.what = "load"
  BY SentShape, Names DEF Cards
<1> HIDE DEF y
<1>1. /\ request'[r] = y /\ \A q \in Requests : q # r => request'[q] = Orphaned(request[q])
      /\ screen'.status = "loading"
      /\ alone' = (Waiting \subseteq {r}) /\ plain' = (plain /\ alone')
  BY DEF Load, DeskType, y
<1>2. \A q \in Requests :
        /\ Shape(Orphaned(request[q])) /\ Orphaned(request[q]).mine = request[q].mine
        /\ ~OfCard(request[q].by) => Orphaned(request[q]) = request[q]
  BY OrphanedShape DEF DeskType, DeskSound
<1>3. Waiting' = Waiting \cup {r}
  BY <1>1, <1>2, <1>y DEF Waiting
<1>4. \A q \in Requests : Shape(request'[q])
  BY <1>1, <1>2, <1>y
<1>5. BusyWaits'
  <2> SUFFICES ASSUME NEW c \in busy'
               PROVE  \E q \in Waiting' : ~request'[q].orphan /\ request'[q].by = c
    BY DEF BusyWaits
  <2>1. PICK q \in Waiting : ~request[q].orphan /\ request[q].by = c
    BY DEF DeskSound, BusyWaits
  <2>2. q \in Requests /\ q # r /\ request'[q] = request[q]
    BY <1>1, <1>2, <2>1 DEF Waiting
  <2> QED BY <1>3, <2>1, <2>2
<1>6. LoadWaits' /\ CardGone' /\ StaleWaits'
  BY <1>1, <1>3, <1>y DEF LoadWaits, CardGone, StaleWaits
<1>7. AloneWaits' /\ AloneReads' /\ PlainAlone'
  BY <1>1, <1>3, <1>y DEF AloneWaits, AloneReads, PlainAlone
<1> QED BY <1>4, <1>5, <1>6, <1>7 DEF DeskSound

LEMMA ShowKeeps ==
  ASSUME DeskType, DeskSound, NEW r \in Requests, Show(r),
         request[r].pc = "answered", ~request[r].orphan, request[r].what # "status",
         busy' = busy \ {request[r].by}
  PROVE  DeskSound'
<1>1. /\ request'[r] = Idle /\ \A q \in Requests : q # r => request'[q] = request[q]
      /\ screen'.status = "success" /\ screen'.seen = request[r].seen
      /\ plain' = alone /\ alone' = alone
  BY DEF Show, DeskType
<1>2. Waiting' = Waiting \ {r} /\ r \in Waiting
  BY <1>1, IdleShape DEF Waiting, DeskSound, Shape
<1>3. \A q \in Requests : Shape(request'[q])
  BY <1>1, IdleShape DEF DeskSound
<1>4. BusyWaits'
  BY <1>1, <1>2 DEF DeskSound, BusyWaits, Waiting
<1>5. LoadWaits' /\ CardGone' /\ PlainAlone'
  BY <1>1 DEF LoadWaits, CardGone, PlainAlone
<1>6. AloneWaits' /\ AloneReads'
  BY <1>1, <1>2 DEF DeskSound, AloneWaits, AloneReads, Waiting
<1>7. StaleWaits'
  BY <1>1, <1>2 DEF DeskSound, AloneReads, Read, StaleWaits
<1> QED BY <1>3, <1>4, <1>5, <1>6, <1>7 DEF DeskSound

\* A load that fails takes the card with it.
LEMMA FailedLoadKeeps ==
  ASSUME DeskType, DeskSound, NEW r \in Requests, request[r].mine, request[r].what = "load",
         Failed(r)
  PROVE  DeskSound'
<1>1. /\ request'[r] = Idle /\ \A q \in Requests : q # r => request'[q] = Orphaned(request[q])
      /\ screen'.status = "error" /\ busy' = {c \in busy : ~OfCard(c)}
      /\ UNCHANGED <<alone, plain>>
  BY DEF Failed, DeskType, history
<1>2. \A q \in Requests :
        /\ Shape(Orphaned(request[q])) /\ Orphaned(request[q]).mine = request[q].mine
        /\ ~OfCard(request[q].by) => Orphaned(request[q]) = request[q]
  BY OrphanedShape DEF DeskType, DeskSound
<1>3. Waiting' = Waiting \ {r} /\ r \in Waiting
  BY <1>1, <1>2, IdleShape DEF Waiting
<1>4. \A q \in Requests : Shape(request'[q])
  BY <1>1, <1>2, IdleShape
<1>5. BusyWaits'
  <2> SUFFICES ASSUME NEW c \in busy'
               PROVE  \E q \in Waiting' : ~request'[q].orphan /\ request'[q].by = c
    BY DEF BusyWaits
  <2>1. PICK q \in Waiting : ~request[q].orphan /\ request[q].by = c
    BY <1>1 DEF DeskSound, BusyWaits
  <2>2. request[r].by = "page" /\ c # "page"
    BY <1>1, Names DEF DeskSound, Shape, DeskType
  <2>3. q \in Requests /\ q # r /\ request'[q] = request[q]
    BY <1>1, <1>2, <2>1, <2>2 DEF Waiting
  <2> QED BY <1>3, <2>1, <2>3
<1>6. LoadWaits' /\ CardGone' /\ StaleWaits' /\ PlainAlone'
  BY <1>1 DEF DeskSound, LoadWaits, CardGone, StaleWaits, PlainAlone
<1>7. AloneWaits' /\ AloneReads'
  BY <1>1, <1>3 DEF DeskSound, AloneWaits, AloneReads
<1> QED BY <1>4, <1>5, <1>6, <1>7 DEF DeskSound

\* A request but a load ends without an answer, for the desk at least.
LEMMA LostKeeps ==
  ASSUME DeskType, DeskSound, NEW r \in Requests, NEW y, ~y.mine, Shape(y),
         request[r].pc # "answered", request[r].what # "load",
         request' = [request EXCEPT ![r] = y], UNCHANGED <<screen, history>>,
         busy' = IF request[r].orphan THEN busy ELSE busy \ {request[r].by}
  PROVE  DeskSound'
<1>1. /\ request'[r] = y /\ \A q \in Requests : q # r => request'[q] = request[q]
      /\ UNCHANGED <<screen, alone, plain>>
  BY DEF DeskType, history
<1>2. Waiting' = Waiting \ {r}
  BY <1>1 DEF Waiting
<1>3. \A q \in Requests : Shape(request'[q])
  BY <1>1 DEF DeskSound
<1>4. BusyWaits'
  BY <1>1, <1>2 DEF DeskSound, BusyWaits, Waiting
<1>5. LoadWaits' /\ CardGone' /\ PlainAlone' /\ StaleWaits'
  BY <1>1, <1>2 DEF DeskSound, LoadWaits, CardGone, PlainAlone, StaleWaits, Waiting
<1>6. AloneWaits' /\ AloneReads'
  BY <1>1, <1>2 DEF DeskSound, AloneWaits, AloneReads, Waiting
<1> QED BY <1>3, <1>4, <1>5, <1>6 DEF DeskSound

LEMMA RolledBackKeeps ==
  ASSUME DeskType, DeskSound, NEW r \in Requests, RolledBack(r) PROVE DeskSound'
<1>1. CASE ~request[r].mine
  BY <1>1, IdleShape, OtherKeeps DEF RolledBack, desk
<1>2. CASE request[r].mine /\ request[r].what = "load"
  BY <1>2, FailedLoadKeeps DEF RolledBack
<1>3. CASE request[r].mine /\ request[r].what # "load"
  <2>1. request[r].pc # "answered" /\ Failed(r)
    BY <1>3 DEF RolledBack
  <2>2. /\ request' = [request EXCEPT ![r] = Idle] /\ UNCHANGED <<screen, history>>
        /\ busy' = IF request[r].orphan THEN busy ELSE busy \ {request[r].by}
    BY <1>3, <2>1 DEF Failed
  <2> QED BY <1>3, <2>1, <2>2, IdleShape, LostKeeps
<1> QED BY <1>1, <1>2, <1>3

LEMMA DisconnectedKeeps ==
  ASSUME DeskType, DeskSound, NEW r \in Requests, Disconnected(r) PROVE DeskSound'
<1> DEFINE y == [request[r] EXCEPT !.mine = FALSE]
<1>1. request[r] \in RequestState /\ Shape(request[r])
  BY DEF DeskType, DeskSound, Sound
<1>2. /\ request[r].pc # "answered" /\ request[r].what # "load"
      /\ request' = [request EXCEPT ![r] = y] /\ UNCHANGED <<screen, history>>
      /\ busy' = IF request[r].orphan THEN busy ELSE busy \ {request[r].by}
  BY DEF Disconnected, DeskType
<1>3. ~y.mine /\ Shape(y)
  BY <1>1, <1>2 DEF RequestState, Shape
<1> HIDE DEF y
<1> QED BY <1>2, <1>3, LostKeeps

LEMMA AnsweredKeeps ==
  ASSUME DeskType, DeskSound, NEW r \in Requests, Answered(r) PROVE DeskSound'
<1> DEFINE x == request[r]
<1>x. Shape(x) /\ x.mine /\ x.pc = "answered"
  BY DEF DeskSound, Shape, Answered
<1>1. CASE x.what = "load" /\ Show(r) /\ UNCHANGED <<dialog, busy>>
  <2>1. x.by = "page" /\ ~x.orphan /\ busy' = busy \ {x.by}
    BY <1>1, <1>x, Names DEF Shape, DeskType
  <2> QED BY <1>1, <1>x, <2>1, ShowKeeps
<1>2. CASE x.what = "status" /\ Applied(r)
  <2>1. x.by = "status" /\ busy' = {c \in busy \ {"status"} : ~OfCard(c)}
    BY <1>2, <1>x DEF Shape, Applied
  <2> QED BY <1>2, <2>1, LoadKeeps DEF Applied
<1>3. CASE x.what = "name" /\ Show(r) /\ busy' = busy \ {"name"}
  <2>1. x.by = "name" /\ ~x.orphan
    BY <1>3, <1>x, Names DEF Shape
  <2> QED BY <1>3, <1>x, <2>1, ShowKeeps
<1>4. CASE x.what \in Cards /\ ~x.orphan /\ Show(r) /\ busy' = busy \ {x.by}
  BY <1>4, <1>x, Names, ShowKeeps DEF Cards
<1>5. CASE x.orphan /\ request' = [request EXCEPT ![r] = Idle] /\ UNCHANGED desk
  <2>1. /\ request'[r] = Idle /\ \A q \in Requests : q # r => request'[q] = request[q]
        /\ UNCHANGED <<screen, busy, alone, plain>>
    BY <1>5 DEF DeskType, desk, history
  <2>2. Waiting' = Waiting \ {r} /\ r \in Waiting
    BY <2>1, <1>x, IdleShape DEF Waiting
  <2>3. x.what # "load" /\ ~alone /\ ~plain
    BY <1>5, <1>x, <2>2, Names DEF DeskSound, AloneReads, PlainAlone, Read, Shape
  <2>4. \A q \in Requests : Shape(request'[q])
    BY <2>1, IdleShape DEF DeskSound
  <2>5. BusyWaits'
    BY <1>5, <2>1, <2>2 DEF DeskSound, BusyWaits, Waiting
  <2>6. LoadWaits' /\ CardGone'
    BY <2>1, <2>2, <2>3 DEF DeskSound, LoadWaits, CardGone, Waiting
  <2>7. AloneWaits' /\ AloneReads' /\ PlainAlone' /\ StaleWaits'
    BY <2>1, <2>3 DEF AloneWaits, AloneReads, PlainAlone, StaleWaits
  <2> QED BY <2>4, <2>5, <2>6, <2>7 DEF DeskSound
<1> QED BY <1>1, <1>2, <1>3, <1>4, <1>5 DEF Answered

LEMMA SubmitKeeps ==
  ASSUME DeskType, DeskSound, Submit PROVE DeskSound'
<1>1. PICK r \in Requests :
        Apply(r) \/ SaveRename(r) \/ \E f \in Cards : Save(r, f) \/ Clear(r, f)
  BY DEF Submit
<1>2. CASE Apply(r)
  BY <1>2, Names, SendKeeps DEF Apply, Cards
<1>3. CASE SaveRename(r)
  BY <1>3, Names, SendKeeps DEF SaveRename
<1>4. ASSUME NEW f \in Cards, Save(r, f) PROVE DeskSound'
  <2>1. f \in Fields /\ f # "name" /\ f # "load" /\ f # "status" /\ OfCard(f)
    BY Names DEF Cards, OfCard
  <2> QED BY <1>4, <2>1, SendKeeps DEF Save
<1>5. ASSUME NEW f \in Cards, Clear(r, f) PROVE DeskSound'
  <2> DEFINE c == IF f = "plan" THEN "cancel" ELSE f
  <2>1. f \in Fields /\ f # "name" /\ f # "load" /\ f # "status" /\ OfCard(c)
    BY Names DEF Cards, OfCard
  <2> QED BY <1>5, <2>1, SendKeeps DEF Clear
<1> QED BY <1>1, <1>2, <1>3, <1>4, <1>5

LEMMA SameKeeps ==
  ASSUME DeskSound, UNCHANGED <<request, screen, busy, history>> PROVE DeskSound'
<1>1. UNCHANGED <<request, screen, busy, alone, plain>>
  BY DEF history
<1> QED BY <1>1
  DEF DeskSound, BusyWaits, LoadWaits, CardGone, AloneWaits, AloneReads, PlainAlone, StaleWaits, Waiting

LEMMA WorkKeeps ==
  ASSUME DeskType, DeskSound, Work PROVE DeskSound'
<1>1. ASSUME NEW r \in Requests, Retry(r) PROVE DeskSound'
  <2>1. /\ Load(r) /\ busy' = busy /\ ~request[r].mine /\ \A c \in busy : ~OfCard(c)
    BY <1>1 DEF Retry, DeskSound, CardGone, Shape
  <2> QED BY <2>1, LoadKeeps
<1>2. ASSUME \/ StartRename \/ Cancel \/ \E s \in Targets : Ask(s)
             \/ \E v \in Values : TypeName(v) \/ \E f \in Cards : Choose(f, v)
      PROVE  DeskSound'
  BY <1>2, SameKeeps DEF StartRename, Cancel, Ask, TypeName, Choose
<1> QED BY <1>1, <1>2 DEF Work

LEMMA DeskInit == Init => DeskSound
<1> SUFFICES ASSUME Init PROVE DeskSound OBVIOUS
<1>1. /\ \A r \in Requests : request[r] = Idle
      /\ screen.status = "success" /\ screen.seen /\ busy = {} /\ alone
  BY DEF Init
<1>2. Waiting = {}
  BY <1>1, IdleShape DEF Waiting
<1> QED BY <1>1, <1>2, IdleShape
  DEF DeskSound, BusyWaits, LoadWaits, CardGone, AloneWaits, AloneReads, PlainAlone, StaleWaits

LEMMA DeskStep == IInv /\ DeskSound /\ [Next]_vars => DeskSound'
<1> SUFFICES ASSUME tenant \in Tenant, DeskType, DeskSound, [Next]_vars PROVE DeskSound'
  BY Parts
<1>1. ASSUME NEW r \in Requests, Serve(r) PROVE DeskSound'
  BY <1>1, ServeKeeps, RolledBackKeeps DEF Serve
<1>2. ASSUME NEW r \in Requests,
             \/ \E f \in Fields, v \in Values : Elsewhere(r, f, v)
             \/ \E s \in Targets : Elsewhere(r, "status", s)
      PROVE  DeskSound'
  <2>1. PICK w \in Fields \cup {"status"}, v \in Values \cup Targets : Elsewhere(r, w, v)
    BY <1>2
  <2> DEFINE y == [Idle EXCEPT !.pc = "begun", !.what = w, !.by = w, !.value = v,
                               !.began = Changes - left']
  <2>2. y.pc = "begun" /\ ~y.mine /\ y.what = w /\ y.by = w /\ ~y.orphan
    BY DEF Idle
  <2>3. request' = [request EXCEPT ![r] = y] /\ UNCHANGED desk /\ ~request[r].mine
    BY <2>1 DEF Elsewhere, DeskSound, Shape
  <2> HIDE DEF y
  <2>4. Shape(y)
    BY <2>2, Names DEF Shape, OfCard
  <2> QED BY <2>2, <2>3, <2>4, OtherKeeps DEF desk
<1>3. CASE UNCHANGED vars
  BY <1>3, SameKeeps DEF vars, desk
<1> QED BY <1>1, <1>2, <1>3, AnsweredKeeps, DisconnectedKeeps, WorkKeeps, SubmitKeeps DEF Next

\* The inductive invariant of the desk (platform-tenant-detail.page.ts and
\* tenant-subscription.component.ts, their handlers).
THEOREM DeskInvariance == Spec => []DeskSound
<1>1. Init => IInv /\ DeskSound
  BY IInvInit, DeskInit
<1>2. IInv /\ DeskSound /\ [Next]_vars => (IInv /\ DeskSound)'
  BY IInvStep, DeskStep
<1> QED BY <1>1, <1>2, PTL DEF Spec

\* When everything is answered and the last request had the desk to itself, the
\* page shows the tenant as of the desk's own last save (apply, saveRename,
\* onTenantChanged).
THEOREM OwnSaveIsShown == Spec => []ShowsOwnSave
<1>1. DeskSound => ShowsOwnSave
  BY DEF DeskSound, StaleWaits, ShowsOwnSave
<1> QED BY <1>1, DeskInvariance, PTL

\* Whichever requests fail or lose their card, with nothing under way no control
\* is busy and the page does not load (the next and error handlers).
THEOREM NothingStaysBusy == Spec => []QuietIsUsable
<1>1. DeskSound => QuietIsUsable
  BY DEF DeskSound, BusyWaits, LoadWaits, QuietIsUsable
<1> QED BY <1>1, DeskInvariance, PTL
-----------------------------------------------------------------------------
\* The card's inputs: every way a tenant gets on the page brings its own.

LEMMA PickedStep == IInv /\ PendingIsPicked /\ [Next]_vars => PendingIsPicked'
<1> SUFFICES ASSUME DeskType, PendingIsPicked, [Next]_vars PROVE PendingIsPicked'
  BY Parts
<1>same. ASSUME UNCHANGED <<draft, picked>>, screen'.status = screen.status, screen'.data = screen.data
         PROVE  PendingIsPicked'
  BY <1>same DEF PendingIsPicked
<1>gone. ASSUME screen'.status # "success" PROVE PendingIsPicked'
  BY <1>gone DEF PendingIsPicked
<1>s. screen' = [screen EXCEPT !.seen = FALSE] =>
        screen'.status = screen.status /\ screen'.data = screen.data
  BY DEF DeskType
<1>load. ASSUME NEW r \in Requests, Load(r) PROVE PendingIsPicked'
  <2>1. screen'.status = "loading"
    BY <1>load DEF Load, DeskType
  <2> QED BY <2>1, <1>gone
<1>show. ASSUME NEW r \in Requests, Show(r) PROVE PendingIsPicked'
  <2>1. \A f \in Cards : f \in Fields /\ draft'[f] = request[r].answer.held[f]
    BY <1>show DEF Show, Inputs, Cards
  <2>2. screen'.data = request[r].answer
    BY <1>show DEF Show
  <2> QED BY <2>1, <2>2 DEF PendingIsPicked
<1>failed. ASSUME NEW r \in Requests, Failed(r) PROVE PendingIsPicked'
  BY <1>failed, <1>same, <1>gone DEF Failed
<1>commit. ASSUME NEW r \in Requests, NEW t, Commit(r, t) PROVE PendingIsPicked'
  BY <1>commit, <1>s, <1>same DEF Commit
<1>desk. ASSUME UNCHANGED desk PROVE PendingIsPicked'
  BY <1>desk, <1>same DEF desk
<1>1. ASSUME NEW r \in Requests, Serve(r) PROVE PendingIsPicked'
  <2>1. ASSUME FindTenantDetail(r) \/ Select(r) \/ RolledBack(r) PROVE PendingIsPicked'
    BY <2>1, <1>desk, <1>failed DEF FindTenantDetail, Select, Unchanged, RolledBack
  <2>2. ASSUME \/ Update(r) \/ Suspend(r) \/ SoftDelete(r) \/ Restore(r) \/ Reactivate(r)
        PROVE  PendingIsPicked'
    BY <2>2, <1>desk, <1>commit
    DEF Update, Suspend, SoftDelete, Restore, Reactivate, Unchanged
  <2> QED BY <1>1, <2>1, <2>2 DEF Serve
<1>2. ASSUME NEW r \in Requests, Answered(r) PROVE PendingIsPicked'
  BY <1>2, <1>show, <1>load, <1>desk DEF Answered, Applied
<1>3. ASSUME NEW r \in Requests, Disconnected(r) PROVE PendingIsPicked'
  BY <1>3, <1>same DEF Disconnected
<1>4. CASE Work
  <2>1. ASSUME \/ StartRename \/ Cancel \/ \E v \in Values : TypeName(v)
        PROVE  PendingIsPicked'
    <3>1. \A f \in Cards : draft'[f] = draft[f]
      BY <2>1 DEF StartRename, Cancel, NoName, TypeName, DeskType, Cards
    <3>2. UNCHANGED <<screen, picked>>
      BY <2>1 DEF StartRename, Cancel, TypeName
    <3> QED BY <3>1, <3>2 DEF PendingIsPicked
  <2>2. ASSUME NEW v \in Values, NEW f \in Cards, Choose(f, v) PROVE PendingIsPicked'
    <3>1. /\ \A g \in Cards : g # f => draft'[g] = draft[g]
          /\ picked' = picked \cup {f} /\ screen' = screen
      BY <2>2 DEF Choose, DeskType, Cards
    <3> QED BY <3>1 DEF PendingIsPicked
  <2>3. ASSUME NEW a \in Targets, Ask(a) PROVE PendingIsPicked'
    BY <2>3, <1>same DEF Ask
  <2> QED BY <1>4, <2>1, <2>2, <2>3, <1>load DEF Work, Retry
<1>5. CASE Submit
  <2>1. UNCHANGED <<screen, draft, picked>>
    BY <1>5 DEF Submit, Apply, SaveRename, Save, Clear, Send
  <2> QED BY <2>1, <1>same
<1>6. ASSUME NEW r \in Requests,
             \/ \E f \in Fields, v \in Values : Elsewhere(r, f, v)
             \/ \E t \in Targets : Elsewhere(r, "status", t)
      PROVE  PendingIsPicked'
  BY <1>6, <1>desk DEF Elsewhere
<1>7. CASE UNCHANGED vars
  BY <1>7, <1>desk DEF vars
<1> QED BY <1>1, <1>2, <1>3, <1>4, <1>5, <1>6, <1>7 DEF Next

\* Nothing the card offers to save is somebody else's change undone
\* (TenantSubscriptionComponent's effects).
THEOREM OffersAreChosen == Spec => []PendingIsPicked
<1>1. Init => PendingIsPicked
  BY DEF Init, PendingIsPicked, Told, Created
<1> QED BY <1>1, IInvInit, IInvStep, PickedStep, PTL DEF Spec
=============================================================================
