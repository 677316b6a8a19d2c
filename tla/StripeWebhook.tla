----------------------------- MODULE StripeWebhook -----------------------------
(***************************************************************************)
(* The Stripe webhook receiver (PaymentsService.HandleWebhook and its      *)
(* per-type handlers) over the tables billing_webhook_events,              *)
(* billing_subscriptions and ledger_entries.                               *)
(*                                                                         *)
(* A delivery is one execution of HandleWebhook on a verified event.       *)
(* Stripe delivers at least once, in any order, and deliveries of one      *)
(* event may overlap. Nothing runs in a transaction. A delivery inserts at *)
(* most one event row and at most one ledger row, so both are identified   *)
(* with it.                                                                *)
(***************************************************************************)
EXTENDS Naturals, FiniteSets

CONSTANTS
    Deliveries,   \* executions of HandleWebhook
    Events,       \* the events Stripe may deliver
    NoEvent,      \* the event of a delivery that has not been made
    Subs,         \* Stripe subscriptions
    Quota         \* included_quota_cents of each, frozen at subscription time

Kinds == {"payment", "created", "updated", "deleted", "invoice", "other"}

(* ours: the metadata carries our tenant and user; sub and period matter   *)
(* to the subscription kinds only; nr tells equal-looking events apart.    *)
Event == [kind : Kinds, ours : BOOLEAN, sub : Subs, period : Nat, nr : Nat]

ASSUME EventsAssumption == Events \subseteq Event
ASSUME NoEventAssumption == NoEvent \notin Events
ASSUME QuotaAssumption == Quota \in [Subs -> Nat]

VARIABLES
    eventOf,      \* the event each delivery carries
    pc,           \* the statement a delivery executes next
    answer,       \* how a delivery ended: "ok" is a 200
    status,       \* billing_webhook_events: status of the row a delivery inserted
    credits,      \* ledger_entries: deliveries whose credit was inserted
    subs          \* billing_subscriptions, by Stripe id

vars == <<eventOf, pc, answer, status, credits, subs>>

PCs == {"idle", "lookup", "insert", "dispatch", "credit", "setstatus",
        "markapplied", "markfailed", "done"}

Answers == {"none", "ok", "error", "crashed"}

RowStatuses == {"absent", "received", "applied", "failed"}

SubRow == [status : {"absent", "active", "canceled", "expired"}, period : Nat]

NoSubRow == [status |-> "absent", period |-> 0]

Cached(s) == subs[s].status # "absent"

Running(d) == pc[d] \notin {"idle", "done"}

(* The event has a row, whatever its status.                               *)
Seen(e) == \E x \in Deliveries : eventOf[x] = e /\ status[x] # "absent"

Goto(d, label) ==
    /\ pc' = [pc EXCEPT ![d] = label]
    /\ UNCHANGED answer

Return(d, v) ==
    /\ pc' = [pc EXCEPT ![d] = "done"]
    /\ answer' = [answer EXCEPT ![d] = v]

Init ==
    /\ eventOf = [d \in Deliveries |-> NoEvent]
    /\ pc = [d \in Deliveries |-> "idle"]
    /\ answer = [d \in Deliveries |-> "none"]
    /\ status = [d \in Deliveries |-> "absent"]
    /\ credits = {}
    /\ subs \in [Subs -> {NoSubRow, [status |-> "active", period |-> 0]}]

-------------------------------------------------------------------------------
(* The signature was verified; an event that was answered is delivered     *)
(* again only because its answer was lost or was not a 200.                *)
Receive(d, e) ==
    /\ pc[d] = "idle"
    /\ eventOf' = [eventOf EXCEPT ![d] = e]
    /\ Goto(d, "lookup")
    /\ UNCHANGED <<status, credits, subs>>

(* Mutant: a failed lookup is answered like a duplicate. *)
LookupEvent_ErrorIsDuplicate(d) ==
    /\ pc[d] = "lookup"
    /\ \/ Return(d, "ok")
       \/ ~Seen(eventOf[d]) /\ Goto(d, "insert")
    /\ UNCHANGED <<eventOf, status, credits, subs>>

LookupEvent(d) ==
    /\ pc[d] = "lookup"
    /\ \/ Seen(eventOf[d]) /\ Return(d, "ok")
       \/ ~Seen(eventOf[d]) /\ Goto(d, "insert")
       \/ Return(d, "error")
    /\ UNCHANGED <<eventOf, status, credits, subs>>

(* Mutant: no unique index on stripe_event_id.                             *)
InsertEvent_NoIndex(d) ==
    /\ pc[d] = "insert"
    /\ status' = [status EXCEPT ![d] = "received"]
    /\ Goto(d, "dispatch")
    /\ UNCHANGED <<eventOf, credits, subs>>

(* A unique violation means that a concurrent delivery won.                *)
InsertEvent(d) ==
    /\ pc[d] = "insert"
    /\ IF Seen(eventOf[d])
       THEN Return(d, "ok") /\ UNCHANGED status
       ELSE /\ status' = [status EXCEPT ![d] = "received"]
            /\ Goto(d, "dispatch")
    /\ UNCHANGED <<eventOf, credits, subs>>

(* The INSERT fails, or commits and its acknowledgement is lost.           *)
InsertEventFails(d) ==
    /\ pc[d] = "insert"
    /\ Return(d, "error")
    /\ \/ UNCHANGED status
       \/ ~Seen(eventOf[d]) /\ status' = [status EXCEPT ![d] = "received"]
    /\ UNCHANGED <<eventOf, credits, subs>>

-------------------------------------------------------------------------------
(* dispatchEvent: what the handler of the event's type does after it has   *)
(* decoded the payload and read the local subscription.                    *)
Handler(e) ==
    CASE ~e.ours -> "markapplied"
      [] e.ours /\ e.kind = "payment" -> "credit"
      [] e.ours /\ e.kind \in {"created", "updated", "deleted"} ->
            IF Cached(e.sub) THEN "setstatus" ELSE "markapplied"
      [] e.ours /\ e.kind = "invoice" ->
            IF Cached(e.sub) /\ Quota[e.sub] > 0 THEN "credit" ELSE "markapplied"
      [] e.ours /\ e.kind = "other" -> "markapplied"

(* A failed read of the subscription is reported by the subscription       *)
(* handlers, but the invoice handler takes it for a plan without quota.    *)
Dispatch(d) ==
    LET e == eventOf[d] IN
    /\ pc[d] = "dispatch"
    /\ \/ Goto(d, Handler(e))
       \/ e.ours /\ e.kind \in {"created", "updated", "deleted"} /\ Goto(d, "markfailed")
       \/ e.ours /\ e.kind = "invoice" /\ Goto(d, "markapplied")
    /\ UNCHANGED <<eventOf, status, credits, subs>>

(* Topup, seen from its caller: the ledger row is in. Its balance refresh  *)
(* (module BillingLedger) cannot fail the call.                            *)
PostCredit(d) ==
    /\ pc[d] = "credit"
    /\ credits' = credits \cup {d}
    /\ Goto(d, "markapplied")
    /\ UNCHANGED <<eventOf, status, subs>>

(* Mutant: an error of Topup is taken for an earlier credit. *)
PostCreditFails_Ignored(d) ==
    /\ pc[d] = "credit"
    /\ credits' \in {credits, credits \cup {d}}
    /\ Goto(d, "markapplied")
    /\ UNCHANGED <<eventOf, status, subs>>

PostCreditFails(d) ==
    /\ pc[d] = "credit"
    /\ credits' \in {credits, credits \cup {d}}
    /\ Goto(d, "markfailed")
    /\ UNCHANGED <<eventOf, status, subs>>

(* The row a subscription event writes: "active" whatever state the event  *)
(* reports, and no period end when the subscription was deleted.           *)
RowFrom(e) ==
    IF e.kind = "deleted" THEN [status |-> "expired", period |-> 0]
                          ELSE [status |-> "active", period |-> e.period]

SetStatus(d) ==
    LET e == eventOf[d] IN
    /\ pc[d] = "setstatus"
    /\ subs' = [subs EXCEPT ![e.sub] = RowFrom(e)]
    /\ Goto(d, "markapplied")
    /\ UNCHANGED <<eventOf, status, credits>>

SetStatusFails(d) ==
    LET e == eventOf[d] IN
    /\ pc[d] = "setstatus"
    /\ subs' \in {subs, [subs EXCEPT ![e.sub] = RowFrom(e)]}
    /\ Goto(d, "markfailed")
    /\ UNCHANGED <<eventOf, status, credits>>

-------------------------------------------------------------------------------
(* UPDATE ... WHERE tenant_id = $1: the row of an event without our        *)
(* metadata has tenant_id NULL and is never matched.                       *)
Marked(d, s) == IF eventOf[d].ours THEN [status EXCEPT ![d] = s] ELSE status

MarkApplied(d) ==
    /\ pc[d] = "markapplied"
    /\ \/ status' = Marked(d, "applied") /\ Return(d, "ok")
       \/ status' \in {status, Marked(d, "applied")} /\ Return(d, "error")
    /\ UNCHANGED <<eventOf, credits, subs>>

(* The error of this update is ignored: the delivery fails either way.     *)
MarkFailed(d) ==
    /\ pc[d] = "markfailed"
    /\ status' \in {status, Marked(d, "failed")}
    /\ Return(d, "error")
    /\ UNCHANGED <<eventOf, credits, subs>>

(* The process dies, or the request is cut off, between two statements.    *)
Crash(d) ==
    /\ Running(d)
    /\ Return(d, "crashed")
    /\ UNCHANGED <<eventOf, status, credits, subs>>

Handle(d) ==
    \/ LookupEvent(d) \/ InsertEvent(d) \/ InsertEventFails(d)
    \/ Dispatch(d) \/ PostCredit(d) \/ PostCreditFails(d)
    \/ SetStatus(d) \/ SetStatusFails(d) \/ MarkApplied(d) \/ MarkFailed(d)

Next == \E d \in Deliveries : (\E e \in Events : Receive(d, e)) \/ Handle(d) \/ Crash(d)

Spec == Init /\ [][Next]_vars

-------------------------------------------------------------------------------
(* Type correctness of the tables and of the deliveries' local state; a    *)
(* delivery is answered exactly when it has returned, and has an event     *)
(* from its first step on.                                                 *)
TypeOK ==
    /\ eventOf \in [Deliveries -> Events \cup {NoEvent}]
    /\ pc \in [Deliveries -> PCs]
    /\ answer \in [Deliveries -> Answers]
    /\ status \in [Deliveries -> RowStatuses]
    /\ credits \in SUBSET Deliveries
    /\ subs \in [Subs -> SubRow]
    /\ \A d \in Deliveries : /\ pc[d] = "idle" <=> eventOf[d] = NoEvent
                             /\ pc[d] = "done" <=> answer[d] # "none"

(* billing_webhook_events is the idempotency boundary: however often and   *)
(* concurrently Stripe delivers an event, at most one ledger row comes of  *)
(* it, and that row belongs to the delivery whose event row is stored.     *)
CreditedAtMostOnce ==
    \A d, x \in credits : eventOf[d] = eventOf[x] => d = x /\ status[d] # "absent"

(* A row that says "applied" is true: the credit of a payment it records   *)
(* is in the ledger, whatever failed on the way.                           *)
AppliedIsCredited ==
    \A d \in Deliveries :
        status[d] = "applied" /\ eventOf[d].kind = "payment" => d \in credits

(* The comment in HandleWebhook: "A handler failure marks the event as     *)
(* failed + returns an error so Stripe retries the delivery." A payment    *)
(* marked failed is credited before any delivery of it is answered 200.    *)
FailedIsRetried ==
    \A d, x \in Deliveries :
        /\ status[x] = "failed" /\ eventOf[x].kind = "payment"
        /\ answer[d] = "ok" /\ eventOf[d] = eventOf[x]
        => \E y \in credits : eventOf[y] = eventOf[x]

(* The comment on resolveMarkCtx: the tenant scope is set "so the          *)
(* webhook_events repo ... can read + update the row". The event row of a  *)
(* delivery that was processed and answered 200 no longer says "received". *)
ProcessedIsMarked ==
    \A d \in Deliveries : answer[d] = "ok" => status[d] # "received"

(* The receiver is an at-most-once inbox. *)
Inbox == INSTANCE OnceInbox WITH
            accepted <- {d \in Deliveries : status[d] # "absent"},
            credited <- credits

InboxSpec == Inbox!Spec
================================================================================
