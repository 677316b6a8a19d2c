----------------------------- MODULE Subscriptions -----------------------------
(***************************************************************************)
(* Subscriptions: the users' CreateSubscription and CancelSubscription     *)
(* (billing/subscriptions.go), Stripe, and the webhook receiver of module  *)
(* StripeWebhook, all writing billing_subscriptions.                       *)
(*                                                                         *)
(* The idempotency key of CreateSubscription is the tenant, user and plan, *)
(* so a Stripe subscription is identified with that triple: every create   *)
(* for it gets the same one back. Stripe is external: its subscriptions,   *)
(* the events it emits, and their delivery in any order.                   *)
(***************************************************************************)
EXTENDS StripeWebhook

CONSTANTS
    ApiCalls,    \* executions of CreateSubscription and CancelSubscription
    NoRequest,   \* the request of a call that has not been made
    MaxPeriod    \* bound: billing periods a subscription renews through

Request == [kind : {"create", "cancel", "cancelnow"}, sub : Subs]

ASSUME MaxPeriodAssumption == MaxPeriod \in Nat
ASSUME NoRequestAssumption == NoRequest \notin Request

VARIABLES
    upstream,    \* Stripe's own state of each subscription
    emitted,     \* the events Stripe has emitted
    request,     \* what each API call asks for
    apipc,       \* the statement it executes next
    reply,       \* what it returned
    read         \* the period end it read from the local row

apiVars == <<request, apipc, reply, read>>

subscriptionVars == <<vars, upstream, emitted, apiVars>>

UpstreamRow == [state : {"none", "live", "ending", "ended"}, period : Nat]

Exists(s) == upstream[s].state # "none"

(* Stripe emits events when a subscription changes (bound: Events).        *)
Emit(s, period, kinds) ==
    LET new == [kind : kinds, ours : {TRUE}, sub : {s}, period : {period},
                nr : {Cardinality(emitted)}]
    IN  new \subseteq Events /\ emitted' = emitted \cup new

ApiGoto(o, label) ==
    /\ apipc' = [apipc EXCEPT ![o] = label]
    /\ UNCHANGED reply

ApiReturn(o, v) ==
    /\ apipc' = [apipc EXCEPT ![o] = "done"]
    /\ reply' = [reply EXCEPT ![o] = v]

SubscriptionsInit ==
    /\ Init
    /\ subs = [s \in Subs |-> NoSubRow]
    /\ upstream = [s \in Subs |-> [state |-> "none", period |-> 0]]
    /\ emitted = {}
    /\ request = [o \in ApiCalls |-> NoRequest]
    /\ apipc = [o \in ApiCalls |-> "idle"]
    /\ reply = [o \in ApiCalls |-> "none"]
    /\ read = [o \in ApiCalls |-> 0]

-------------------------------------------------------------------------------
(* CreateSubscription checks the plan and may refuse. CancelSubscription   *)
(* reads the local row, and refuses when there is none.                    *)
Start(o, r) ==
    /\ apipc[o] = "idle"
    /\ request' = [request EXCEPT ![o] = r]
    /\ IF r.kind # "create" /\ ~Cached(r.sub)
       THEN ApiReturn(o, "notfound")
       ELSE ApiGoto(o, "gateway") \/ ApiReturn(o, "error")
    /\ read' = [read EXCEPT ![o] = subs[r.sub].period]
    /\ UNCHANGED <<vars, upstream, emitted>>

(* The call to Stripe. A create with a key Stripe knows changes nothing    *)
(* and gets the first reply again; a cancel of what has ended is NotFound. *)
StripeApplies(r) ==
    LET s == r.sub
        state == upstream[s].state
    IN
    \/ /\ r.kind = "create" /\ state = "none"
       /\ upstream' = [upstream EXCEPT ![s] = [state |-> "live", period |-> 1]]
       /\ Emit(s, 1, {"created", "invoice"})
    \/ /\ r.kind = "cancel" /\ state = "live"
       /\ upstream' = [upstream EXCEPT ![s].state = "ending"]
       /\ Emit(s, upstream[s].period, {"updated"})
    \/ /\ r.kind = "cancelnow" /\ state \in {"live", "ending"}
       /\ upstream' = [upstream EXCEPT ![s].state = "ended"]
       /\ Emit(s, upstream[s].period, {"deleted"})
    \/ /\ \/ r.kind = "create" /\ state # "none"
          \/ r.kind = "cancel" /\ state # "live"
          \/ r.kind = "cancelnow" /\ state \notin {"live", "ending"}
       /\ UNCHANGED <<upstream, emitted>>

(* NotFound upstream is tolerated by CancelSubscription. *)
CallGateway(o) ==
    /\ apipc[o] = "gateway"
    /\ StripeApplies(request[o])
    /\ ApiGoto(o, "cache")
    /\ UNCHANGED <<vars, request, read>>

(* Mutant: any failure of the gateway is tolerated. *)
GatewayFails_Tolerated(o) ==
    /\ apipc[o] = "gateway"
    /\ StripeApplies(request[o]) \/ UNCHANGED <<upstream, emitted>>
    /\ ApiGoto(o, "cache")
    /\ UNCHANGED <<vars, request, read>>

(* The gateway fails, before or after Stripe has acted. *)
GatewayFails(o) ==
    /\ apipc[o] = "gateway"
    /\ StripeApplies(request[o]) \/ UNCHANGED <<upstream, emitted>>
    /\ ApiReturn(o, "error")
    /\ UNCHANGED <<vars, request, read>>

(* The local row an API call writes. A create replays Stripe's first reply *)
(* (period 1); a cancel writes back the period end it read.                *)
OwnRow(o) ==
    CASE request[o].kind = "create" -> [status |-> "active", period |-> 1]
      [] request[o].kind = "cancel" -> [status |-> "canceled", period |-> read[o]]
      [] request[o].kind = "cancelnow" -> [status |-> "expired", period |-> read[o]]

(* An INSERT for create (unique on the Stripe id), an UPDATE for cancel.   *)
Writable(o) == request[o].kind = "create" => ~Cached(request[o].sub)

CacheRow(o) ==
    /\ apipc[o] = "cache"
    /\ Writable(o)
    /\ subs' = [subs EXCEPT ![request[o].sub] = OwnRow(o)]
    /\ ApiReturn(o, "ok")
    /\ UNCHANGED <<eventOf, pc, answer, status, credits, upstream, emitted, request, read>>

(* Mutant: a unique violation is dropped, and the caller gets no reply.    *)
CacheFails_NoReply(o) ==
    /\ apipc[o] = "cache"
    /\ ~Writable(o)
    /\ ApiGoto(o, "done")
    /\ UNCHANGED <<vars, upstream, emitted, request, read>>

(* A unique violation, or a failing statement that may have committed.     *)
CacheFails(o) ==
    /\ apipc[o] = "cache"
    /\ ApiReturn(o, "error")
    /\ \/ UNCHANGED subs
       \/ Writable(o) /\ subs' = [subs EXCEPT ![request[o].sub] = OwnRow(o)]
    /\ UNCHANGED <<eventOf, pc, answer, status, credits, upstream, emitted, request, read>>

CrashApi(o) ==
    /\ apipc[o] \in {"gateway", "cache"}
    /\ ApiReturn(o, "crashed")
    /\ UNCHANGED <<vars, upstream, emitted, request, read>>

-------------------------------------------------------------------------------
(* Stripe on its own: a period ends and is renewed and paid, or the        *)
(* subscription ends: at the end of the period it was cancelled for, for   *)
(* want of payment, or by hand in Stripe's dashboard.                      *)
Renew(s) ==
    /\ upstream[s].state = "live"
    /\ upstream[s].period < MaxPeriod
    /\ upstream' = [upstream EXCEPT ![s].period = @ + 1]
    /\ Emit(s, upstream[s].period + 1, {"updated", "invoice"})
    /\ UNCHANGED <<vars, apiVars>>

End(s) ==
    /\ upstream[s].state \in {"live", "ending"}
    /\ upstream' = [upstream EXCEPT ![s].state = "ended"]
    /\ Emit(s, upstream[s].period, {"deleted"})
    /\ UNCHANGED <<vars, apiVars>>

Webhook ==
    /\ \E d \in Deliveries : (\E e \in emitted : Receive(d, e)) \/ Handle(d) \/ Crash(d)
    /\ UNCHANGED <<upstream, emitted, apiVars>>

Api(o) ==
    \/ \E r \in Request : Start(o, r)
    \/ CallGateway(o) \/ GatewayFails(o) \/ CacheRow(o) \/ CacheFails(o) \/ CrashApi(o)

SubscriptionsNext ==
    \/ Webhook
    \/ \E o \in ApiCalls : Api(o)
    \/ \E s \in Subs : Renew(s) \/ End(s)

SubscriptionsSpec == SubscriptionsInit /\ [][SubscriptionsNext]_subscriptionVars

-------------------------------------------------------------------------------
(* Type correctness of Stripe's state and of the API calls'. *)
SubscriptionsTypeOK ==
    /\ TypeOK
    /\ upstream \in [Subs -> UpstreamRow]
    /\ emitted \subseteq Events
    /\ request \in [ApiCalls -> Request \cup {NoRequest}]
    /\ apipc \in [ApiCalls -> {"idle", "gateway", "cache", "done"}]
    /\ reply \in [ApiCalls -> {"none", "ok", "notfound", "error", "crashed"}]
    /\ read \in [ApiCalls -> Nat]
    /\ \A o \in ApiCalls : /\ apipc[o] = "idle" <=> request[o] = NoRequest
                           /\ apipc[o] = "done" <=> reply[o] # "none"

(* The local row never runs ahead of Stripe: a user is shown "canceled" or *)
(* "expired" only when Stripe will charge no further period, and has a     *)
(* local row only for a subscription Stripe has. Both writers, the API and *)
(* the webhook, act on Stripe's word and write afterwards.                 *)
LocalFollowsStripe ==
    \A s \in Subs :
        /\ Cached(s) => Exists(s)
        /\ subs[s].status = "canceled" => upstream[s].state \in {"ending", "ended"}
        /\ subs[s].status = "expired" => upstream[s].state = "ended"

(* Migration 0043: "Lifecycle: active -> canceled -> expired". The status  *)
(* of a row never goes back.                                               *)
Lifecycle ==
    [][\A s \in Subs :
        /\ subs[s].status = "canceled" => subs'[s].status # "active"
        /\ subs[s].status = "expired" => subs'[s].status = "expired"]_subscriptionVars

(* Migration 0043, current_period_end: "When the current billing period    *)
(* ends (Stripe's current_period_end)". While a row stays active its       *)
(* period end does not go back.                                            *)
PeriodNeverRegresses ==
    [][\A s \in Subs :
        subs[s].status = "active" /\ subs'[s].status = "active" =>
            subs'[s].period >= subs[s].period]_subscriptionVars

(* The comment of CreateSubscription: "The webhook handler posts the       *)
(* included-quota credit when `invoice.paid` lands." An invoice event that *)
(* is marked applied has credited a plan's quota.                          *)
QuotaIsCredited ==
    \A d \in Deliveries :
        /\ status[d] = "applied" /\ eventOf[d].kind = "invoice"
        /\ Quota[eventOf[d].sub] > 0
        => d \in credits
================================================================================
