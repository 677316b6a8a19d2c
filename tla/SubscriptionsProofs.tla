-------------------------- MODULE SubscriptionsProofs --------------------------
(***************************************************************************)
(* Theorems about StripeWebhook and Subscriptions, for every set of API    *)
(* calls, deliveries, events, subscriptions and periods, with their        *)
(* proofs.  The receiver comes first: Subscriptions composes it with the   *)
(* API calls and Stripe, and its steps are covered by a lemma.             *)
(***************************************************************************)
EXTENDS Subscriptions, TLAPS

(* What a delivery has done by the statement it stands at. *)
DeliveryInv(d) ==
    /\ pc[d] \in {"idle", "lookup", "insert"} => status[d] = "absent"
    /\ pc[d] \in {"dispatch", "credit", "setstatus", "markapplied", "markfailed"} =>
            status[d] = "received"
    /\ pc[d] \in {"dispatch", "credit"} => d \notin credits
    /\ d \in credits => status[d] # "absent"
    /\ pc[d] = "setstatus" => eventOf[d].kind # "payment"
    /\ pc[d] = "markapplied" /\ eventOf[d].ours /\ eventOf[d].kind = "payment" => d \in credits
    /\ status[d] = "applied" /\ eventOf[d].kind = "payment" => d \in credits

(* The unique index on stripe_event_id. *)
OneRowPerEvent ==
    \A d, x \in Deliveries :
        status[d] # "absent" /\ status[x] # "absent" /\ eventOf[d] = eventOf[x] => d = x

InboxInv == OneRowPerEvent /\ \A d \in Deliveries : DeliveryInv(d)

(* What the receiver alone writes; subs is written by the API calls too.   *)
receiver == <<eventOf, pc, answer, status, credits>>

(* A step of the receiver keeps the types. *)
LEMMA TypeStep == TypeOK /\ [Next]_vars => TypeOK'
<1> USE EventsAssumption, NoEventAssumption, QuotaAssumption
<1> SUFFICES ASSUME TypeOK, [Next]_vars PROVE TypeOK'
  OBVIOUS
<1> USE DEF TypeOK, PCs, Answers, RowStatuses, Goto, Return
<1>1. CASE UNCHANGED vars
  BY <1>1 DEF vars
<1> SUFFICES ASSUME NEW d \in Deliveries,
                    (\E e \in Events : Receive(d, e)) \/ Handle(d) \/ Crash(d)
             PROVE  TypeOK'
  BY <1>1 DEF Next
<1>2. ASSUME NEW e \in Events, Receive(d, e) PROVE TypeOK'
  BY <1>2 DEF Receive
<1>3. CASE LookupEvent(d)
  BY <1>3 DEF LookupEvent
<1>4. CASE InsertEvent(d)
  BY <1>4 DEF InsertEvent
<1>5. CASE InsertEventFails(d)
  BY <1>5 DEF InsertEventFails
<1>6. CASE Dispatch(d)
  <2>1. eventOf[d] \in Event
    BY <1>6 DEF Dispatch
  <2>2. Handler(eventOf[d]) \in {"credit", "setstatus", "markapplied"}
    BY <2>1 DEF Handler, Event, Kinds
  <2> QED
    BY <1>6, <2>2 DEF Dispatch
<1>7. CASE PostCredit(d)
  BY <1>7 DEF PostCredit
<1>8. CASE PostCreditFails(d)
  BY <1>8 DEF PostCreditFails
<1>9. CASE SetStatus(d) \/ SetStatusFails(d)
  <2>1. eventOf[d] \in Event
    BY <1>9 DEF SetStatus, SetStatusFails
  <2>2. RowFrom(eventOf[d]) \in SubRow /\ eventOf[d].sub \in Subs
    BY <2>1 DEF RowFrom, SubRow, Event
  <2>3. subs' \in [Subs -> SubRow]
    BY <1>9, <2>2 DEF SetStatus, SetStatusFails
  <2> QED
    BY <1>9, <2>3 DEF SetStatus, SetStatusFails
<1>10. CASE MarkApplied(d)
  BY <1>10 DEF MarkApplied, Marked
<1>11. CASE MarkFailed(d)
  BY <1>11 DEF MarkFailed, Marked
<1>12. CASE Crash(d)
  BY <1>12 DEF Crash, Running
<1> QED
  BY <1>2, <1>3, <1>4, <1>5, <1>6, <1>7, <1>8, <1>9, <1>10, <1>11, <1>12 DEF Handle

(* The tables and the deliveries' local state keep their types. *)
THEOREM TypeCorrect == Spec => []TypeOK
<1>1. Init => TypeOK
  <2>1. NoSubRow \in SubRow /\ [status |-> "active", period |-> 0] \in SubRow
    BY DEF NoSubRow, SubRow
  <2> QED
    BY <2>1, NoEventAssumption DEF Init, TypeOK, PCs, Answers, RowStatuses
<1> QED
  BY <1>1, TypeStep, PTL DEF Spec

-------------------------------------------------------------------------------
(* The unique index lets one delivery of an event past InsertEvent, and    *)
(* only past it does a delivery credit.                                    *)
LEMMA InboxInit == Init => InboxInv
BY NoEventAssumption DEF Init, InboxInv, OneRowPerEvent, DeliveryInv

LEMMA InboxStep == TypeOK /\ InboxInv /\ [Next]_receiver => InboxInv'
<1> USE EventsAssumption, NoEventAssumption
<1> SUFFICES ASSUME TypeOK, InboxInv, [Next]_receiver PROVE InboxInv'
  OBVIOUS
<1>1. CASE UNCHANGED receiver
  BY <1>1 DEF receiver, InboxInv, OneRowPerEvent, DeliveryInv
<1> SUFFICES ASSUME NEW d \in Deliveries,
                    (\E e \in Events : Receive(d, e)) \/ Handle(d) \/ Crash(d)
             PROVE  InboxInv'
  BY <1>1 DEF Next
<1>t. /\ pc \in [Deliveries -> PCs]
      /\ status \in [Deliveries -> RowStatuses]
      /\ eventOf \in [Deliveries -> Events \cup {NoEvent}]
      /\ credits \subseteq Deliveries
  BY DEF TypeOK
\* A step of d leaves the other deliveries' rows and local state alone.
<1>f. \A x \in Deliveries \ {d} :
          /\ pc'[x] = pc[x] /\ status'[x] = status[x] /\ eventOf'[x] = eventOf[x]
          /\ x \in credits' <=> x \in credits
  BY <1>t DEF Handle, Receive, LookupEvent, InsertEvent, InsertEventFails, Dispatch, PostCredit,
         PostCreditFails, SetStatus, SetStatusFails, MarkApplied, MarkFailed, Marked, Crash,
         Goto, Return
<1>o. \A x \in Deliveries \ {d} : DeliveryInv(x)'
  BY <1>f DEF InboxInv, DeliveryInv
<1> SUFFICES OneRowPerEvent' /\ DeliveryInv(d)'
  BY <1>o DEF InboxInv
<1>h. OneRowPerEvent /\ DeliveryInv(d)
  BY DEF InboxInv
<1>n. ASSUME status'[d] # "absent" => status[d] # "absent", UNCHANGED eventOf
      PROVE  OneRowPerEvent'
  BY <1>n, <1>f, <1>h DEF OneRowPerEvent
<1> USE DEF DeliveryInv, Goto, Return
<1>2. ASSUME NEW e \in Events, Receive(d, e) PROVE OneRowPerEvent' /\ DeliveryInv(d)'
  <2>1. status' = status /\ status[d] = "absent" /\ d \notin credits'
    BY <1>2, <1>h DEF Receive
  <2>2. OneRowPerEvent'
    BY <2>1, <1>f, <1>h DEF OneRowPerEvent
  <2> QED
    BY <1>2, <1>t, <2>1, <2>2 DEF Receive
<1>3. CASE LookupEvent(d)
  BY <1>3, <1>t, <1>h, <1>n DEF LookupEvent
<1>4. CASE InsertEvent(d)
  <2>1. OneRowPerEvent'
    BY <1>4, <1>t, <1>f, <1>h DEF InsertEvent, Seen, OneRowPerEvent
  <2> QED
    BY <1>4, <1>t, <1>h, <2>1 DEF InsertEvent
<1>5. CASE InsertEventFails(d)
  <2>1. OneRowPerEvent'
    BY <1>5, <1>t, <1>f, <1>h DEF InsertEventFails, Seen, OneRowPerEvent
  <2> QED
    BY <1>5, <1>t, <1>h, <2>1 DEF InsertEventFails
<1>6. CASE Dispatch(d)
  <2>1. eventOf[d] \in Event
    BY <1>6, <1>t DEF Dispatch, TypeOK
  <2>2. /\ Handler(eventOf[d]) \in {"credit", "setstatus", "markapplied"}
        /\ eventOf[d].kind = "payment" /\ eventOf[d].ours => Handler(eventOf[d]) = "credit"
        /\ Handler(eventOf[d]) = "setstatus" => eventOf[d].kind # "payment"
    BY <2>1 DEF Handler, Event, Kinds
  <2> QED
    BY <1>6, <1>t, <1>h, <1>n, <2>2 DEF Dispatch
<1>7. CASE PostCredit(d)
  BY <1>7, <1>t, <1>h, <1>n DEF PostCredit
<1>8. CASE PostCreditFails(d)
  BY <1>8, <1>t, <1>h, <1>n DEF PostCreditFails
<1>9. CASE SetStatus(d) \/ SetStatusFails(d)
  BY <1>9, <1>t, <1>h, <1>n DEF SetStatus, SetStatusFails
<1>10. CASE MarkApplied(d)
  BY <1>10, <1>t, <1>h, <1>n DEF MarkApplied, Marked
<1>11. CASE MarkFailed(d)
  BY <1>11, <1>t, <1>h, <1>n DEF MarkFailed, Marked
<1>12. CASE Crash(d)
  BY <1>12, <1>t, <1>h, <1>n DEF Crash
<1> QED
  BY <1>2, <1>3, <1>4, <1>5, <1>6, <1>7, <1>8, <1>9, <1>10, <1>11, <1>12 DEF Handle

LEMMA InboxInvariant == Spec => []InboxInv
<1>1. [Next]_vars => [Next]_receiver
  BY DEF vars, receiver
<1> QED
  BY <1>1, InboxInit, InboxStep, TypeCorrect, PTL DEF Spec

(* An event credits the ledger at most once, however often and however     *)
(* concurrently it is delivered.                                           *)
THEOREM CreditedOnce == Spec => []CreditedAtMostOnce
<1>1. TypeOK /\ InboxInv => CreditedAtMostOnce
  BY DEF InboxInv, OneRowPerEvent, DeliveryInv, CreditedAtMostOnce, TypeOK
<1> QED
  BY <1>1, TypeCorrect, InboxInvariant, PTL

(* A payment event marked applied has its credit in the ledger. *)
THEOREM AppliedCredited == Spec => []AppliedIsCredited
<1>1. InboxInv => AppliedIsCredited
  BY DEF InboxInv, DeliveryInv, AppliedIsCredited
<1> QED
  BY <1>1, InboxInvariant, PTL

-------------------------------------------------------------------------------
(* A step of the receiver, or one that leaves alone what it writes, is a   *)
(* step of the inbox or none.                                              *)
LEMMA InboxMoves == TypeOK /\ InboxInv /\ [Next]_receiver => [Inbox!Next]_(Inbox!vars)
<1> USE EventsAssumption, NoEventAssumption
<1> USE DEF Inbox!Answers
<1> SUFFICES ASSUME TypeOK, InboxInv, [Next]_receiver PROVE [Inbox!Next]_(Inbox!vars)
  OBVIOUS
<1> DEFINE Accepted == {d \in Deliveries : status[d] # "absent"}
<1>1. CASE UNCHANGED receiver
  BY <1>1 DEF receiver, Inbox!vars
<1> SUFFICES ASSUME NEW d \in Deliveries,
                    (\E e \in Events : Receive(d, e)) \/ Handle(d) \/ Crash(d)
             PROVE  [Inbox!Next]_(Inbox!vars)
  BY <1>1 DEF Next
<1> SUFFICES ASSUME TRUE
             PROVE  \/ Inbox!Arrive(d) \/ Inbox!Accept(d) \/ Inbox!Credit(d) \/ Inbox!Reply(d)
                    \/ UNCHANGED Inbox!vars
  BY DEF Inbox!Next
<1>t. /\ pc \in [Deliveries -> PCs]
      /\ status \in [Deliveries -> RowStatuses]
      /\ answer \in [Deliveries -> Answers]
      /\ pc[d] = "idle" <=> eventOf[d] = NoEvent
      /\ pc[d] = "done" <=> answer[d] # "none"
  BY DEF TypeOK
<1>h. DeliveryInv(d)
  BY DEF InboxInv
<1> USE DEF Goto, Return, Inbox!vars
<1>2. ASSUME NEW e \in Events, Receive(d, e) PROVE Inbox!Arrive(d)
  BY <1>2, <1>t DEF Receive, Inbox!Arrive
<1>a. ASSUME status' = [status EXCEPT ![d] = "received"], ~Seen(eventOf[d])
      PROVE  Accepted' = Accepted \cup {d} /\ \A x \in Accepted : eventOf[x] # eventOf[d]
  BY <1>a, <1>t DEF Seen
<1>m. ASSUME NEW v \in {"applied", "failed"}, status' \in {status, Marked(d, v)},
             status[d] = "received"
      PROVE  Accepted' = Accepted
  BY <1>m, <1>t DEF Marked
<1>3. CASE LookupEvent(d)
  BY <1>3, <1>t DEF LookupEvent, Seen, Inbox!Reply
<1>4. CASE InsertEvent(d)
  <2>1. CASE Seen(eventOf[d])
    BY <2>1, <1>4, <1>t DEF InsertEvent, Seen, Inbox!Reply
  <2>2. CASE ~Seen(eventOf[d])
    BY <2>2, <1>4, <1>t, <1>a DEF InsertEvent, Inbox!Accept
  <2> QED
    BY <2>1, <2>2
<1>5. CASE InsertEventFails(d)
  <2>1. CASE UNCHANGED status
    BY <2>1, <1>5, <1>t DEF InsertEventFails, Inbox!Reply
  <2>2. CASE ~UNCHANGED status
    BY <2>2, <1>5, <1>t, <1>a DEF InsertEventFails, Inbox!Accept
  <2> QED
    BY <2>1, <2>2
<1>6. CASE Dispatch(d)
  BY <1>6 DEF Dispatch
<1>7. CASE PostCredit(d) \/ PostCreditFails(d)
  BY <1>7, <1>t, <1>h DEF PostCredit, PostCreditFails, DeliveryInv, Inbox!Credit
<1>8. CASE SetStatus(d) \/ SetStatusFails(d)
  BY <1>8 DEF SetStatus, SetStatusFails
<1>9. CASE MarkApplied(d)
  <2>1. status[d] = "received" /\ d \in Accepted
    BY <1>9, <1>h DEF MarkApplied, DeliveryInv
  <2>2. Accepted' = Accepted
    BY <1>9, <1>m, <2>1 DEF MarkApplied
  <2> QED
    BY <1>9, <1>t, <2>1, <2>2 DEF MarkApplied, Inbox!Reply
<1>10. CASE MarkFailed(d)
  <2>1. Accepted' = Accepted
    BY <1>10, <1>h, <1>m DEF MarkFailed, DeliveryInv
  <2> QED
    BY <1>10, <1>t, <2>1 DEF MarkFailed, Inbox!Reply
<1>11. CASE Crash(d)
  BY <1>11, <1>t DEF Crash, Running, Inbox!Reply
<1> QED
  BY <1>2, <1>3, <1>4, <1>5, <1>6, <1>7, <1>8, <1>9, <1>10, <1>11 DEF Handle

(* The receiver implements the at-most-once inbox: inserting the event row *)
(* accepts a delivery, the ledger row credits it, a return answers it.     *)
THEOREM ImplementsInbox == Spec => InboxSpec
<1>1. Init => Inbox!Init
  BY DEF Init, Inbox!Init
<1>2. [Next]_vars => [Next]_receiver
  BY DEF vars, receiver
<1> QED
  BY <1>1, <1>2, InboxMoves, TypeCorrect, InboxInvariant, PTL DEF Spec, InboxSpec, Inbox!Spec

-------------------------------------------------------------------------------
(* The composed system.                                                    *)

(* What a subscription has behind it when an event or a reply speaks of it. *)
EventTrue(e) == Exists(e.sub) /\ (e.kind = "deleted" => upstream[e.sub].state = "ended")

ReplyTrue(o) ==
    LET s == request[o].sub IN
    /\ apipc[o] = "gateway" /\ request[o].kind # "create" => Exists(s)
    /\ apipc[o] = "cache" =>
        /\ Exists(s)
        /\ request[o].kind = "cancel" => upstream[s].state \in {"ending", "ended"}
        /\ request[o].kind = "cancelnow" => upstream[s].state = "ended"

RowTrue(s) ==
    /\ Cached(s) => Exists(s)
    /\ subs[s].status = "canceled" => upstream[s].state \in {"ending", "ended"}
    /\ subs[s].status = "expired" => upstream[s].state = "ended"

(* Everything that is, or may be, written locally is true of Stripe. *)
FollowInv ==
    /\ \A e \in emitted : EventTrue(e)
    /\ \A d \in Deliveries : eventOf[d] # NoEvent => eventOf[d] \in emitted
    /\ \A o \in ApiCalls : ReplyTrue(o)
    /\ \A s \in Subs : RowTrue(s)

(* Stripe's subscriptions only move on. *)
Advances ==
    \A s \in Subs :
        /\ Exists(s) => Exists(s)'
        /\ upstream[s].state \in {"ending", "ended"} => upstream'[s].state \in {"ending", "ended"}
        /\ upstream[s].state = "ended" => upstream'[s].state = "ended"

ApiTypeOK ==
    /\ upstream \in [Subs -> UpstreamRow]
    /\ emitted \subseteq Events
    /\ request \in [ApiCalls -> Request \cup {NoRequest}]
    /\ apipc \in [ApiCalls -> {"idle", "gateway", "cache", "done"}]
    /\ reply \in [ApiCalls -> {"none", "ok", "notfound", "error", "crashed"}]
    /\ read \in [ApiCalls -> Nat]
    /\ \A o \in ApiCalls : /\ apipc[o] = "idle" <=> request[o] = NoRequest
                           /\ apipc[o] = "done" <=> reply[o] # "none"

(* What Stripe does with a request keeps its state well-typed. *)
LEMMA AppliesType ==
    ASSUME SubscriptionsTypeOK, NEW r \in Request, StripeApplies(r)
    PROVE  upstream' \in [Subs -> UpstreamRow] /\ emitted' \subseteq Events
<1>1. r.sub \in Subs /\ r.kind \in {"create", "cancel", "cancelnow"}
  BY DEF Request
<1>2. [state |-> "live", period |-> 1] \in UpstreamRow
  BY DEF UpstreamRow
<1>3. ASSUME NEW st \in {"ending", "ended"}
      PROVE  [upstream EXCEPT ![r.sub].state = st] \in [Subs -> UpstreamRow]
  BY <1>1, <1>3 DEF SubscriptionsTypeOK, UpstreamRow
<1>4. CASE r.kind = "create"
  BY <1>4, <1>1, <1>2 DEF StripeApplies, SubscriptionsTypeOK, Emit
<1>5. CASE r.kind = "cancel"
  BY <1>5, <1>1, <1>3 DEF StripeApplies, SubscriptionsTypeOK, Emit
<1>6. CASE r.kind = "cancelnow"
  BY <1>6, <1>1, <1>3 DEF StripeApplies, SubscriptionsTypeOK, Emit
<1> QED
  BY <1>1, <1>4, <1>5, <1>6

(* The composed system keeps the types. *)
THEOREM SubscriptionsTypeCorrect == SubscriptionsSpec => []SubscriptionsTypeOK
<1> USE NoRequestAssumption, EventsAssumption, NoEventAssumption
<1>1. SubscriptionsInit => SubscriptionsTypeOK
  <2> SUFFICES ASSUME SubscriptionsInit PROVE SubscriptionsTypeOK
    OBVIOUS
  <2>1. NoSubRow \in SubRow /\ [state |-> "none", period |-> 0] \in UpstreamRow
    BY DEF NoSubRow, SubRow, UpstreamRow
  <2>2. TypeOK
    BY <2>1 DEF SubscriptionsInit, Init, TypeOK, PCs, Answers, RowStatuses
  <2>3. ApiTypeOK
    BY <2>1 DEF SubscriptionsInit, ApiTypeOK
  <2> QED
    BY <2>2, <2>3 DEF SubscriptionsTypeOK, ApiTypeOK
<1>2. SubscriptionsTypeOK /\ [SubscriptionsNext]_subscriptionVars => SubscriptionsTypeOK'
  <2> SUFFICES ASSUME SubscriptionsTypeOK, [SubscriptionsNext]_subscriptionVars
               PROVE  TypeOK' /\ ApiTypeOK'
    BY DEF SubscriptionsTypeOK, ApiTypeOK
  <2>t. TypeOK /\ ApiTypeOK
    BY DEF SubscriptionsTypeOK, ApiTypeOK
  <2>v. ASSUME UNCHANGED vars PROVE TypeOK'
    BY <2>v, <2>t, TypeStep
  <2>1. CASE UNCHANGED subscriptionVars
    BY <2>1, <2>t, <2>v DEF subscriptionVars, apiVars, ApiTypeOK
  <2>2. CASE Webhook
    <3>1. Next
      BY <2>2, <2>t DEF Webhook, Next, ApiTypeOK
    <3> QED
      BY <2>2, <2>t, <3>1, TypeStep DEF Webhook, apiVars, ApiTypeOK
  <2>3. ASSUME NEW o \in ApiCalls, Api(o) PROVE TypeOK' /\ ApiTypeOK'
    <3> USE DEF ApiGoto, ApiReturn
    <3>1. ASSUME NEW r \in Request, Start(o, r) PROVE TypeOK' /\ ApiTypeOK'
      <4>1. subs[r.sub].period \in Nat
        BY <2>t DEF Request, TypeOK, SubRow
      <4>2. TypeOK'
        BY <3>1, <2>v DEF Start
      <4> QED
        BY <3>1, <2>t, <4>1, <4>2 DEF Start, ApiTypeOK
    <3>2. ASSUME apipc[o] \in {"gateway", "cache"} PROVE request[o] \in Request
      BY <3>2, <2>t DEF ApiTypeOK
    <3>3. CASE CallGateway(o) \/ GatewayFails(o)
      <4>1. upstream' \in [Subs -> UpstreamRow] /\ emitted' \subseteq Events
        BY <3>2, <3>3, <2>t, AppliesType DEF CallGateway, GatewayFails, ApiTypeOK
      <4>2. TypeOK'
        BY <3>3, <2>v DEF CallGateway, GatewayFails
      <4> QED
        BY <3>3, <2>t, <4>1, <4>2 DEF CallGateway, GatewayFails, ApiTypeOK
    <3>4. CASE CacheRow(o) \/ CacheFails(o)
      <4>1. /\ request[o].kind \in {"create", "cancel", "cancelnow"}
            /\ request[o].sub \in Subs /\ read[o] \in Nat
        BY <3>2, <3>4, <2>t DEF CacheRow, CacheFails, Request, ApiTypeOK
      <4>2. OwnRow(o) \in SubRow
        BY <4>1 DEF OwnRow, SubRow
      <4>3. subs' \in [Subs -> SubRow]
        BY <3>4, <2>t, <4>1, <4>2 DEF CacheRow, CacheFails, TypeOK
      <4>4. TypeOK'
        BY <3>4, <2>t, <4>3 DEF CacheRow, CacheFails, TypeOK
      <4> QED
        BY <3>4, <2>t, <4>4 DEF CacheRow, CacheFails, ApiTypeOK
    <3>5. CASE CrashApi(o)
      BY <3>5, <2>t, <2>v DEF CrashApi, ApiTypeOK
    <3> QED
      BY <2>3, <3>1, <3>3, <3>4, <3>5 DEF Api
  <2>4. ASSUME NEW s \in Subs, Renew(s) \/ End(s) PROVE TypeOK' /\ ApiTypeOK'
    <3>1. upstream' \in [Subs -> UpstreamRow]
      BY <2>4, <2>t DEF Renew, End, ApiTypeOK, UpstreamRow
    <3>2. TypeOK' /\ emitted' \subseteq Events
      BY <2>4, <2>t, <2>v DEF Renew, End, Emit, ApiTypeOK
    <3> QED
      BY <2>4, <2>t, <3>1, <3>2 DEF Renew, End, apiVars, ApiTypeOK
  <2> QED
    BY <2>1, <2>2, <2>3, <2>4 DEF SubscriptionsNext
<1> QED
  BY <1>1, <1>2, PTL DEF SubscriptionsSpec

-------------------------------------------------------------------------------
(* A subscription that moves on, and emits what is then true of it. *)
LEMMA MovesOn ==
    ASSUME SubscriptionsTypeOK, FollowInv, NEW s \in Subs, NEW st \in {"live", "ending", "ended"},
           \A x \in Subs \ {s} : upstream'[x] = upstream[x],
           upstream'[s].state = st,
           upstream[s].state \in {"ending", "ended"} => st \in {"ending", "ended"},
           upstream[s].state = "ended" => st = "ended",
           NEW period, NEW kinds, Emit(s, period, kinds), "deleted" \in kinds => st = "ended"
    PROVE  /\ Advances
           /\ emitted \subseteq emitted'
           /\ \A e \in emitted' : EventTrue(e)'
<1>1. \A e \in emitted : e.sub \in Subs /\ EventTrue(e)
  BY EventsAssumption DEF Event, FollowInv, SubscriptionsTypeOK
<1>2. Advances
  BY DEF Advances, Exists
<1>3. emitted \subseteq emitted' /\ \A e \in emitted' \ emitted : e.sub = s /\ e.kind \in kinds
  BY DEF Emit
<1>4. \A e \in emitted' : EventTrue(e)'
  BY <1>1, <1>2, <1>3 DEF EventTrue, Exists, Advances
<1> QED
  BY <1>2, <1>3, <1>4

(* Stripe acts before it answers or emits. *)
LEMMA StripeSpeaksTruth ==
    ASSUME SubscriptionsTypeOK, FollowInv, NEW r \in Request, StripeApplies(r),
           r.kind # "create" => Exists(r.sub)
    PROVE  /\ Advances
           /\ \A e \in emitted' : EventTrue(e)'
           /\ Exists(r.sub)'
           /\ r.kind = "cancel" => upstream'[r.sub].state \in {"ending", "ended"}
           /\ r.kind = "cancelnow" => upstream'[r.sub].state = "ended"
<1>t. /\ upstream \in [Subs -> UpstreamRow]
      /\ emitted \subseteq Events
      /\ r.sub \in Subs /\ r.kind \in {"create", "cancel", "cancelnow"}
      /\ upstream[r.sub].state \in {"none", "live", "ending", "ended"}
  BY DEF SubscriptionsTypeOK, UpstreamRow, Request
<1>e. \A e \in emitted : e.sub \in Subs /\ EventTrue(e)
  BY <1>t, EventsAssumption DEF Event, FollowInv
<1>1. CASE UNCHANGED <<upstream, emitted>>
  <2>1. Advances /\ \A e \in emitted' : EventTrue(e)'
    BY <1>1, <1>e DEF Advances, EventTrue, Exists
  <2>2. upstream'[r.sub] = upstream[r.sub]
    BY <1>1
  <2>3. /\ Exists(r.sub)
        /\ r.kind = "cancel" => upstream[r.sub].state \in {"ending", "ended"}
        /\ r.kind = "cancelnow" => upstream[r.sub].state = "ended"
    <3>1. CASE r.kind = "create" /\ upstream[r.sub].state = "none"
      BY <3>1, <2>2, <1>t DEF StripeApplies
    <3>2. CASE r.kind = "cancel" /\ upstream[r.sub].state = "live"
      BY <3>2, <2>2, <1>t DEF StripeApplies, UpstreamRow
    <3>3. CASE r.kind = "cancelnow" /\ upstream[r.sub].state \in {"live", "ending"}
      BY <3>3, <2>2, <1>t DEF StripeApplies, UpstreamRow
    <3> QED
      BY <3>1, <3>2, <3>3, <1>t DEF Exists
  <2> QED
    BY <2>1, <2>2, <2>3 DEF Exists
<1>3. CASE r.kind = "create" /\ upstream[r.sub].state = "none" /\ ~UNCHANGED <<upstream, emitted>>
  <2>1. /\ upstream' = [upstream EXCEPT ![r.sub] = [state |-> "live", period |-> 1]]
        /\ Emit(r.sub, 1, {"created", "invoice"})
    BY <1>3 DEF StripeApplies
  <2>2. upstream'[r.sub].state = "live" /\ \A x \in Subs \ {r.sub} : upstream'[x] = upstream[x]
    BY <2>1, <1>t
  <2> QED
    BY <1>3, <2>1, <2>2, <1>t, MovesOn DEF Exists
<1>4. CASE r.kind = "cancel" /\ upstream[r.sub].state = "live" /\ ~UNCHANGED <<upstream, emitted>>
  <2>1. /\ upstream' = [upstream EXCEPT ![r.sub].state = "ending"]
        /\ Emit(r.sub, upstream[r.sub].period, {"updated"})
    BY <1>4 DEF StripeApplies
  <2>2. upstream'[r.sub].state = "ending" /\ \A x \in Subs \ {r.sub} : upstream'[x] = upstream[x]
    BY <2>1, <1>t DEF UpstreamRow
  <2> QED
    BY <1>4, <2>1, <2>2, <1>t, MovesOn DEF Exists
<1>5. CASE r.kind = "cancelnow" /\ upstream[r.sub].state \in {"live", "ending"}
           /\ ~UNCHANGED <<upstream, emitted>>
  <2>1. /\ upstream' = [upstream EXCEPT ![r.sub].state = "ended"]
        /\ Emit(r.sub, upstream[r.sub].period, {"deleted"})
    BY <1>5 DEF StripeApplies
  <2>2. upstream'[r.sub].state = "ended" /\ \A x \in Subs \ {r.sub} : upstream'[x] = upstream[x]
    BY <2>1, <1>t DEF UpstreamRow
  <2> QED
    BY <1>5, <2>1, <2>2, <1>t, MovesOn DEF Exists
<1> QED
  BY <1>1, <1>3, <1>4, <1>5 DEF StripeApplies

(* A step of the composed system is one of the receiver on an event Stripe *)
(* has emitted, or leaves alone what the receiver writes.                  *)
LEMMA ReceiverMoves ==
    SubscriptionsTypeOK /\ [SubscriptionsNext]_subscriptionVars => TypeOK /\ [Next]_receiver
<1> SUFFICES ASSUME SubscriptionsTypeOK, [SubscriptionsNext]_subscriptionVars
             PROVE  TypeOK /\ [Next]_receiver
  OBVIOUS
<1>1. TypeOK /\ emitted \subseteq Events
  BY DEF SubscriptionsTypeOK
<1>2. CASE Webhook
  BY <1>1, <1>2 DEF Webhook, Next
<1>3. ASSUME NEW o \in ApiCalls, Api(o) PROVE UNCHANGED receiver
  <2>1. CASE \E r \in Request : Start(o, r)
    BY <2>1 DEF Start, receiver, vars
  <2>2. CASE CallGateway(o) \/ GatewayFails(o) \/ CrashApi(o)
    BY <2>2 DEF CallGateway, GatewayFails, CrashApi, receiver, vars
  <2>3. CASE CacheRow(o) \/ CacheFails(o)
    BY <2>3 DEF CacheRow, CacheFails, receiver, vars
  <2> QED
    BY <1>3, <2>1, <2>2, <2>3 DEF Api
<1>4. ASSUME NEW z \in Subs, Renew(z) \/ End(z) PROVE UNCHANGED receiver
  BY <1>4 DEF Renew, End, receiver, vars
<1>5. UNCHANGED subscriptionVars => UNCHANGED receiver
  BY DEF subscriptionVars, vars, receiver
<1>6. Webhook \/ UNCHANGED receiver
  BY <1>3, <1>4, <1>5 DEF SubscriptionsNext
<1> QED
  BY <1>1, <1>2, <1>6

LEMMA ComposedInboxInvariant == SubscriptionsSpec => []InboxInv
<1>1. SubscriptionsInit => InboxInv
  BY InboxInit DEF SubscriptionsInit
<1>2. SubscriptionsTypeOK /\ InboxInv /\ [SubscriptionsNext]_subscriptionVars => InboxInv'
  BY ReceiverMoves, InboxStep
<1> QED
  BY <1>1, <1>2, SubscriptionsTypeCorrect, PTL DEF SubscriptionsSpec

(* The receiver keeps its promise to the ledger while users subscribe and  *)
(* cancel, Stripe renews, and all of them write billing_subscriptions,     *)
(* which decides what a delivery does: the composed system implements the  *)
(* at-most-once inbox.                                                     *)
THEOREM ComposedInbox == SubscriptionsSpec => InboxSpec
<1>1. SubscriptionsInit => Inbox!Init
  BY DEF SubscriptionsInit, Init, Inbox!Init
<1>2. SubscriptionsTypeOK /\ InboxInv /\ [SubscriptionsNext]_subscriptionVars
         => [Inbox!Next]_(Inbox!vars)
  BY ReceiverMoves, InboxMoves
<1> QED
  BY <1>1, <1>2, SubscriptionsTypeCorrect, ComposedInboxInvariant, PTL
     DEF SubscriptionsSpec, InboxSpec, Inbox!Spec

(* In the composed system, too, an event credits the ledger at most once,  *)
(* and a payment event marked applied has its credit.                      *)
THEOREM ComposedCredits ==
    SubscriptionsSpec => [](CreditedAtMostOnce /\ AppliedIsCredited)
<1>1. TypeOK /\ InboxInv => CreditedAtMostOnce /\ AppliedIsCredited
  BY DEF InboxInv, OneRowPerEvent, DeliveryInv, CreditedAtMostOnce, AppliedIsCredited, TypeOK
<1>2. SubscriptionsTypeOK => TypeOK
  BY DEF SubscriptionsTypeOK
<1> QED
  BY <1>1, <1>2, SubscriptionsTypeCorrect, ComposedInboxInvariant, PTL

(* No local row runs ahead of Stripe. *)
THEOREM FollowsStripe == SubscriptionsSpec => []LocalFollowsStripe
<1> USE NoRequestAssumption, NoEventAssumption
<1>1. SubscriptionsInit => FollowInv
  BY DEF SubscriptionsInit, Init, FollowInv, ReplyTrue, RowTrue, Cached, NoSubRow
<1>2. SubscriptionsTypeOK /\ FollowInv /\ [SubscriptionsNext]_subscriptionVars => FollowInv'
  <2> SUFFICES ASSUME SubscriptionsTypeOK, FollowInv, [SubscriptionsNext]_subscriptionVars
               PROVE  FollowInv'
    OBVIOUS
  <2>t. TypeOK /\ ApiTypeOK
    BY DEF SubscriptionsTypeOK, ApiTypeOK
  <2>e. \A e \in Events : e.sub \in Subs
    BY EventsAssumption DEF Event
  <2>q. \A o \in ApiCalls : apipc[o] \in {"gateway", "cache"} => request[o] \in Request
    BY <2>t DEF ApiTypeOK
  <2>s. \A r \in Request : r.sub \in Subs
    BY DEF Request
  \* What was true stays true while Stripe moves on and nothing local changes.
  <2>a. ASSUME Advances
        PROVE  /\ \A e \in emitted : EventTrue(e)'
               /\ \A o \in ApiCalls : UNCHANGED <<request[o], apipc[o]>> => ReplyTrue(o)'
               /\ \A s \in Subs : UNCHANGED subs[s] => RowTrue(s)'
    <3>1. \A e \in emitted : EventTrue(e)'
      BY <2>a, <2>t, <2>e DEF FollowInv, EventTrue, Advances, ApiTypeOK
    <3>2. ASSUME NEW o \in ApiCalls, UNCHANGED <<request[o], apipc[o]>> PROVE ReplyTrue(o)'
      BY <2>a, <2>q, <2>s, <3>2 DEF FollowInv, ReplyTrue, Advances
    <3>3. ASSUME NEW s \in Subs, UNCHANGED subs[s] PROVE RowTrue(s)'
      BY <2>a, <3>3 DEF FollowInv, RowTrue, Cached, Advances
    <3> QED
      BY <3>1, <3>2, <3>3
  <2>u. ASSUME UNCHANGED upstream PROVE Advances
    BY <2>u DEF Advances, Exists
  <2>1. CASE UNCHANGED subscriptionVars
    BY <2>1, <2>a, <2>u DEF subscriptionVars, vars, apiVars, FollowInv
  <2>2. CASE Webhook
    <3> PICK d \in Deliveries : (\E e \in emitted : Receive(d, e)) \/ Handle(d) \/ Crash(d)
      BY <2>2 DEF Webhook
    <3>1. UNCHANGED <<upstream, emitted, request, apipc>>
      BY <2>2 DEF Webhook, apiVars
    <3>2. \A x \in Deliveries : eventOf'[x] # NoEvent => eventOf'[x] \in emitted'
      BY <3>1, <2>t DEF TypeOK, FollowInv, Receive, Handle, Crash, LookupEvent, InsertEvent,
         InsertEventFails, Dispatch, PostCredit, PostCreditFails, SetStatus, SetStatusFails,
         MarkApplied, MarkFailed
    <3>3. ASSUME NEW s \in Subs PROVE RowTrue(s)'
      <4>1. CASE UNCHANGED subs[s]
        BY <4>1, <3>1, <2>a, <2>u
      <4>2. CASE ~UNCHANGED subs[s]
        <5>1. SetStatus(d) \/ SetStatusFails(d)
          BY <4>2, <2>t DEF Receive, Handle, Crash, LookupEvent, InsertEvent,
             InsertEventFails, Dispatch, PostCredit, PostCreditFails, MarkApplied, MarkFailed
        <5>2. eventOf[d] \in emitted
          BY <5>1, <2>t DEF SetStatus, SetStatusFails, TypeOK, FollowInv
        <5>3. EventTrue(eventOf[d]) /\ s = eventOf[d].sub /\ subs'[s] = RowFrom(eventOf[d])
          BY <5>1, <5>2, <4>2, <2>t DEF FollowInv, SetStatus, SetStatusFails, TypeOK
        <5> QED
          BY <5>3, <3>1 DEF RowTrue, RowFrom, EventTrue, Exists
      <4> QED
        BY <4>1, <4>2
    <3> QED
      BY <3>1, <3>2, <3>3, <2>a, <2>u DEF FollowInv
  <2>3. ASSUME NEW o \in ApiCalls, Api(o) PROVE FollowInv'
    <3> USE DEF ApiGoto, ApiReturn
    <3>1. ASSUME NEW r \in Request, Start(o, r) PROVE FollowInv'
      <4>1. UNCHANGED <<vars, upstream, emitted>>
        BY <3>1 DEF Start
      <4>2. ReplyTrue(o)'
        BY <3>1, <2>t, <2>s, <4>1 DEF Start, ReplyTrue, FollowInv, RowTrue, Exists, ApiTypeOK
      <4>3. \A p \in ApiCalls \ {o} : UNCHANGED <<request[p], apipc[p]>>
        BY <3>1, <2>t DEF Start, ApiTypeOK
      <4> QED
        BY <4>1, <4>2, <4>3, <2>a, <2>u DEF FollowInv, vars
    <3>2. CASE CallGateway(o) \/ GatewayFails(o)
      <4>1. UNCHANGED vars /\ UNCHANGED request /\ request[o] \in Request
        BY <3>2, <2>q DEF CallGateway, GatewayFails
      <4>2. \A p \in ApiCalls \ {o} : UNCHANGED <<request[p], apipc[p]>>
        BY <3>2, <2>t DEF CallGateway, GatewayFails, ApiTypeOK
      <4>3. request[o].kind # "create" => Exists(request[o].sub)
        BY <3>2 DEF CallGateway, GatewayFails, FollowInv, ReplyTrue
      <4>4. Advances /\ (\A e \in emitted' : EventTrue(e)') /\ emitted \subseteq emitted'
        <5>1. CASE StripeApplies(request[o])
          <6>1. emitted \subseteq emitted'
            BY <5>1, <4>1 DEF StripeApplies, Emit, Request
          <6> QED
            BY <5>1, <6>1, <4>1, <4>3, StripeSpeaksTruth
        <5>2. CASE UNCHANGED <<upstream, emitted>>
          BY <5>2, <2>a, <2>u
        <5> QED
          BY <3>2, <5>1, <5>2 DEF CallGateway, GatewayFails
      <4>5. ReplyTrue(o)'
        <5>1. CASE CallGateway(o)
          BY <5>1, <4>1, <4>3, <2>t, StripeSpeaksTruth
             DEF CallGateway, ReplyTrue, ApiTypeOK, Exists
        <5>2. CASE GatewayFails(o)
          BY <5>2, <2>t DEF GatewayFails, ReplyTrue, ApiTypeOK
        <5> QED
          BY <3>2, <5>1, <5>2
      <4> QED
        BY <4>1, <4>2, <4>4, <4>5, <2>a DEF FollowInv, vars
    <3>3. CASE CacheRow(o) \/ CacheFails(o)
      <4>1. /\ UNCHANGED <<eventOf, upstream, emitted, request>> /\ request[o] \in Request
            /\ apipc[o] = "cache" /\ apipc'[o] = "done"
        BY <3>3, <2>q, <2>t DEF CacheRow, CacheFails, ApiTypeOK
      <4>2. \A p \in ApiCalls \ {o} : UNCHANGED <<request[p], apipc[p]>>
        BY <3>3, <2>t DEF CacheRow, CacheFails, ApiTypeOK
      <4>3. ReplyTrue(o)'
        BY <4>1 DEF ReplyTrue
      <4>4. ASSUME NEW s \in Subs PROVE RowTrue(s)'
        <5>1. CASE UNCHANGED subs[s]
          BY <5>1, <4>1, <2>a, <2>u
        <5>2. CASE ~UNCHANGED subs[s]
          <6>1. s = request[o].sub /\ subs'[s] = OwnRow(o)
            BY <5>2, <3>3, <2>t DEF CacheRow, CacheFails, TypeOK
          <6>2. ReplyTrue(o) /\ request[o].kind \in {"create", "cancel", "cancelnow"}
            BY <4>1 DEF FollowInv, Request
          <6> QED
            BY <6>1, <6>2, <4>1 DEF OwnRow, ReplyTrue, RowTrue, Exists
        <5> QED
          BY <5>1, <5>2
      <4> QED
        BY <4>1, <4>2, <4>3, <4>4, <2>a, <2>u DEF FollowInv
    <3>4. CASE CrashApi(o)
      <4>1. UNCHANGED <<vars, upstream, emitted, request>> /\ apipc'[o] = "done"
        BY <3>4, <2>t DEF CrashApi, ApiTypeOK
      <4>2. \A p \in ApiCalls \ {o} : UNCHANGED <<request[p], apipc[p]>>
        BY <3>4, <2>t DEF CrashApi, ApiTypeOK
      <4>3. ReplyTrue(o)'
        BY <4>1 DEF ReplyTrue
      <4> QED
        BY <4>1, <4>2, <4>3, <2>a, <2>u DEF FollowInv, vars
    <3> QED
      BY <2>3, <3>1, <3>2, <3>3, <3>4 DEF Api
  <2>4. ASSUME NEW s \in Subs, Renew(s) \/ End(s) PROVE FollowInv'
    <3>1. UNCHANGED <<vars, apiVars>> /\ upstream[s].state \in {"live", "ending"}
      BY <2>4 DEF Renew, End
    <3>2. CASE Renew(s)
      <4>1. upstream'[s].state = "live" /\ \A x \in Subs \ {s} : upstream'[x] = upstream[x]
        BY <3>2, <2>t DEF Renew, ApiTypeOK, UpstreamRow
      <4>2. Emit(s, upstream[s].period + 1, {"updated", "invoice"}) /\ upstream[s].state = "live"
        BY <3>2 DEF Renew
      <4> QED
        BY <4>1, <4>2, <3>1, <2>a, MovesOn DEF FollowInv, vars, apiVars
    <3>3. CASE End(s)
      <4>1. upstream'[s].state = "ended" /\ \A x \in Subs \ {s} : upstream'[x] = upstream[x]
        BY <3>3, <2>t DEF End, ApiTypeOK, UpstreamRow
      <4>2. Emit(s, upstream[s].period, {"deleted"})
        BY <3>3 DEF End
      <4> QED
        BY <4>1, <4>2, <3>1, <2>a, MovesOn DEF FollowInv, vars, apiVars
    <3> QED
      BY <2>4, <3>2, <3>3
  <2> QED
    BY <2>1, <2>2, <2>3, <2>4 DEF SubscriptionsNext
<1>3. FollowInv => LocalFollowsStripe
  BY DEF FollowInv, RowTrue, LocalFollowsStripe
<1> QED
  BY <1>1, <1>2, <1>3, SubscriptionsTypeCorrect, PTL DEF SubscriptionsSpec
================================================================================
