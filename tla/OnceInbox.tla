------------------------------- MODULE OnceInbox -------------------------------
(***************************************************************************)
(* What the Stripe webhook receiver promises the ledger: of all deliveries *)
(* of one event a single one is accepted, only an accepted delivery        *)
(* credits, it does so once, and a delivery is acknowledged only when its  *)
(* event has been accepted. StripeWebhook implements this specification.   *)
(***************************************************************************)
CONSTANTS
    Deliveries,   \* deliveries of events by Stripe
    Events,       \* the events
    NoEvent       \* the event of a delivery that has not been made

VARIABLES
    eventOf,      \* the event a delivery carries
    accepted,     \* deliveries that were let in
    credited,     \* deliveries that posted a credit
    answer        \* what each delivery was answered

vars == <<eventOf, accepted, credited, answer>>

Answers == {"none", "ok", "error", "crashed"}

Init ==
    /\ eventOf = [d \in Deliveries |-> NoEvent]
    /\ accepted = {}
    /\ credited = {}
    /\ answer = [d \in Deliveries |-> "none"]

Arrive(d) ==
    /\ eventOf[d] = NoEvent
    /\ \E e \in Events : eventOf' = [eventOf EXCEPT ![d] = e]
    /\ UNCHANGED <<accepted, credited, answer>>

(* The caller may be told of a failure although the event was accepted.    *)
Accept(d) ==
    /\ eventOf[d] # NoEvent
    /\ answer[d] = "none"
    /\ \A x \in accepted : eventOf[x] # eventOf[d]
    /\ accepted' = accepted \cup {d}
    /\ answer' \in {answer, [answer EXCEPT ![d] = "error"]}
    /\ UNCHANGED <<eventOf, credited>>

Credit(d) ==
    /\ d \in accepted \ credited
    /\ answer[d] = "none"
    /\ credited' = credited \cup {d}
    /\ UNCHANGED <<eventOf, accepted, answer>>

Reply(d) ==
    /\ eventOf[d] # NoEvent
    /\ answer[d] = "none"
    /\ \E v \in Answers \ {"none"} :
        /\ v = "ok" => \E x \in accepted : eventOf[x] = eventOf[d]
        /\ answer' = [answer EXCEPT ![d] = v]
    /\ UNCHANGED <<eventOf, accepted, credited>>

Next == \E d \in Deliveries : Arrive(d) \/ Accept(d) \/ Credit(d) \/ Reply(d)

Spec == Init /\ [][Next]_vars
================================================================================
