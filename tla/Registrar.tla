------------------------------- MODULE Registrar -------------------------------
(***************************************************************************)
(* Domain resale (registrar/service.go): every registration, renewal and   *)
(* transfer charges the tenant's ledger first, then places an order at the *)
(* upstream registrar, then writes the dns_domains row.                    *)
(*                                                                         *)
(* A call is one execution of RegisterDomain, RenewDomain, TransferDomain  *)
(* or DeleteDomain. Nothing runs in a transaction, and the upstream        *)
(* registrar is a remote service: an order may be refused, or be carried   *)
(* out and its answer lost. A call creates at most one row and at most one *)
(* upstream registration, so both are identified with it. The ledger is    *)
(* the abstract charge book that BillingLedger implements. Left out: the   *)
(* columns of the row no property reads (status, contacts, auto-renew) and *)
(* the rounding of a price, in particular the margin a renewal adds twice. *)
(***************************************************************************)
EXTENDS Integers, FiniteSets

CONSTANTS
    Calls,        \* executions of the four operations
    Tenants,
    Domains,
    Requests,     \* the requests a call may be made with
    NoRow,        \* the row of a call that has read none
    NoKey,        \* no idempotency key (the refund has none)
    YearPrice     \* what a year costs, margin included

Kinds == {"register", "renew", "transfer", "delete"}

Request == [kind : Kinds, tenant : Tenants, domain : Domains, period : 1..10]

ASSUME RequestsAssumption == Requests \subseteq Request
ASSUME NoRowAssumption == NoRow \notin Calls
ASSUME YearPriceAssumption == YearPrice \in Nat
ASSUME NoKeyAssumption ==
    NoKey \notin Kinds \X Tenants \X Domains \X (Calls \cup {NoRow}) \X (1..10)

VARIABLES
    req,        \* the request of each call; never changes
    pc,         \* what a call does next
    answer,     \* how a call ended
    target,     \* renew, delete: the row read at the start
    charges,    \* ledger_entries: the calls whose charge was recorded
    refunds,    \* ledger_entries: the calls whose refund was recorded
    posted,     \* what PostCharge answered to each call
    holder,     \* upstream: the registration a domain is under, or none of ours
    years,      \* upstream: the years granted so far to each registration
    orders,     \* upstream: the calls whose order was carried out
    granted,    \* the expiry in the upstream answer a call holds
    rows        \* dns_domains

local == <<req, pc, answer, target>>
ledger == <<charges, refunds, posted>>
upstream == <<holder, years, orders, granted>>
vars == <<local, ledger, upstream, rows>>

PCs == {"idle", "check", "charge", "order", "refund", "persist", "link", "drop", "done"}

Answers == {"none", "ok", "refused", "error", "crashed"}

Row == [present : BOOLEAN, expiry : Nat, ledger : SUBSET Calls]

NoDomainRow == [present |-> FALSE, expiry |-> 0, ledger |-> {}]

(* The registration an order is about: the one it opens, or the one whose  *)
(* row the renewal read.                                                   *)
Registration(c) == IF req[c].kind = "renew" THEN target[c] ELSE c

(* Neither time nor attempt is part of the key; a renewal's names the row. *)
KeyOf(c) == <<req[c].kind, req[c].tenant, req[c].domain, target[c], req[c].period>>

Book == INSTANCE ChargeBook WITH
            book <- charges,
            answer <- posted,
            keyOf <- [c \in Calls |-> KeyOf(c)],
            tenantOf <- [c \in Calls |-> req[c].tenant]

Amount(c) == YearPrice * req[c].period

(* Mutant: PostCharge takes negative amounts. *)
ValidAmount_NonZero(n) == n # 0

(* validateAmount of the ledger *)
ValidAmount(n) == n > 0

(* The ledger row PostCharge returned to c: its own or an earlier one. *)
LedgerRow(c) == {d \in charges : KeyOf(d) = KeyOf(c)}

RowsNamed(t, d) == {r \in Calls : rows[r].present /\ req[r].tenant = t /\ req[r].domain = d}

Goto(c, label) ==
    /\ pc' = [pc EXCEPT ![c] = label]
    /\ UNCHANGED <<req, answer>>

Return(c, v) ==
    /\ pc' = [pc EXCEPT ![c] = "done"]
    /\ answer' = [answer EXCEPT ![c] = v]
    /\ UNCHANGED req

Init ==
    /\ req \in [Calls -> Requests]
    /\ pc = [c \in Calls |-> "idle"]
    /\ answer = [c \in Calls |-> "none"]
    /\ target = [c \in Calls |-> NoRow]
    /\ charges = {} /\ refunds = {}
    /\ posted = [c \in Calls |-> "none"]
    /\ holder \in [Domains -> {"free", "elsewhere"}]
    /\ years = [c \in Calls |-> 0]
    /\ orders = {}
    /\ granted = [c \in Calls |-> 0]
    /\ rows = [c \in Calls |-> NoDomainRow]

-------------------------------------------------------------------------------
(* The start of the operations *)

Begin(c) ==
    /\ pc[c] = "idle"
    /\ \/ /\ req[c].kind \in {"register", "transfer"}
          /\ Goto(c, IF req[c].kind = "register" THEN "check" ELSE "charge")
          /\ UNCHANGED target
       \/ /\ req[c].kind \in {"renew", "delete"}
          /\ \E r \in RowsNamed(req[c].tenant, req[c].domain) :
                target' = [target EXCEPT ![c] = r]
          /\ Goto(c, IF req[c].kind = "renew" THEN "charge" ELSE "drop")
       \/ /\ req[c].kind \in {"renew", "delete"}   \* no such row, or Get failed
          /\ Return(c, "refused")
          /\ UNCHANGED target
    /\ UNCHANGED <<ledger, upstream, rows>>

(* CheckDomain says the domain is available and what it costs, or not. *)
Check(c) ==
    /\ pc[c] = "check"
    /\ \/ holder[req[c].domain] = "free" /\ Goto(c, "charge")
       \/ Return(c, "refused")
    /\ UNCHANGED <<target, ledger, upstream, rows>>

-------------------------------------------------------------------------------
(* PostCharge, as the charge book promises it *)

RecordCharge(c) ==
    /\ pc[c] = "charge"
    /\ ValidAmount(Amount(c))
    /\ UNCHANGED <<local, posted>>
    /\ Book!Record(c)
    /\ UNCHANGED <<refunds, upstream, rows>>

AnswerCharge(c) ==
    /\ pc[c] = "charge"
    /\ UNCHANGED <<req, target>>
    /\ Book!Answer(c)
    /\ \/ posted'[c] \in {"posted", "existing"} /\ Goto(c, "order")
       \/ posted'[c] \in {"duplicate", "error"} /\ Return(c, "error")
    /\ UNCHANGED <<refunds, upstream, rows>>

-------------------------------------------------------------------------------
(* The upstream order *)

(* A registration needs a free domain, a transfer one that is registered   *)
(* elsewhere, a renewal the registration named by the row's order id.      *)
Accepted(c) ==
    holder[req[c].domain] = CASE req[c].kind = "register" -> "free"
                              [] req[c].kind = "transfer" -> "elsewhere"
                              [] OTHER -> target[c]

CarryOut(c) ==
    /\ Accepted(c)
    /\ holder' = [holder EXCEPT ![req[c].domain] = Registration(c)]
    /\ years' = [years EXCEPT ![Registration(c)] = @ + req[c].period]
    /\ orders' = orders \cup {c}

PlaceOrder(c) ==
    /\ pc[c] = "order"
    /\ CarryOut(c)
    /\ granted' = [granted EXCEPT ![c] = years'[Registration(c)]]
    /\ Goto(c, "persist")
    /\ UNCHANGED <<target, ledger, rows>>

(* Mutant: a failed order is taken for granted. *)
OrderFails_Ignored(c) ==
    /\ pc[c] = "order"
    /\ granted' = [granted EXCEPT ![c] = years[Registration(c)] + req[c].period]
    /\ Goto(c, "persist")
    /\ UNCHANGED <<target, ledger, holder, years, orders, rows>>

(* The order is refused or never arrives, or its answer is lost. *)
OrderFails(c) ==
    /\ pc[c] = "order"
    /\ CarryOut(c) \/ UNCHANGED <<holder, years, orders>>
    /\ Goto(c, "refund")
    /\ UNCHANGED <<target, ledger, granted, rows>>

(* The refund is a charge of the negated amount, which the ledger refuses; *)
(* its error is dropped.                                                   *)
Refund(c) ==
    /\ pc[c] = "refund"
    /\ refunds' = IF ValidAmount(-Amount(c)) THEN refunds \cup {c} ELSE refunds
    /\ Return(c, "error")
    /\ UNCHANGED <<target, charges, posted, upstream, rows>>

-------------------------------------------------------------------------------
(* The dns_domains row *)

(* Mutant: no unique index on (tenant_id, name). *)
CreateRow_NoIndex(c) ==
    /\ pc[c] = "persist" /\ req[c].kind # "renew"
    /\ rows' = [rows EXCEPT ![c] =
                    [present |-> TRUE, expiry |-> granted[c], ledger |-> LedgerRow(c)]]
    /\ Return(c, "ok")
    /\ UNCHANGED <<target, ledger, upstream>>

CreateRow(c) ==
    /\ pc[c] = "persist" /\ req[c].kind # "renew"
    /\ RowsNamed(req[c].tenant, req[c].domain) = {}   \* uq_dns_domains_tenant_name
    /\ rows' = [rows EXCEPT ![c] =
                    [present |-> TRUE, expiry |-> granted[c], ledger |-> LedgerRow(c)]]
    /\ Return(c, "ok")
    /\ UNCHANGED <<target, ledger, upstream>>

(* SetDNSDomainExpiry updates the row if it still exists. *)
SetExpiry(c) ==
    /\ pc[c] = "persist" /\ req[c].kind = "renew"
    /\ rows' = [rows EXCEPT ![target[c]] =
                    IF @.present THEN [@ EXCEPT !.expiry = granted[c]] ELSE @]
    /\ Goto(c, "link")
    /\ UNCHANGED <<target, ledger, upstream>>

(* Mutant: the failed write ends the call without an answer. *)
PersistFails_NoAnswer(c) ==
    /\ pc[c] = "persist"
    /\ Goto(c, "done")
    /\ UNCHANGED <<target, ledger, upstream, rows>>

(* The INSERT conflicts or fails, or the UPDATE fails. *)
PersistFails(c) ==
    /\ pc[c] = "persist"
    /\ Return(c, "error")
    /\ UNCHANGED <<target, ledger, upstream, rows>>

(* A failure to link the ledger row is ignored. *)
SetLedgerLink(c) ==
    /\ pc[c] = "link"
    /\ \/ UNCHANGED rows
       \/ rows' = [rows EXCEPT ![target[c]] =
                       IF @.present THEN [@ EXCEPT !.ledger = LedgerRow(c)] ELSE @]
    /\ Return(c, "ok")
    /\ UNCHANGED <<target, ledger, upstream>>

(* DeleteDomain removes the row; the registration stays upstream. *)
Drop(c) ==
    /\ pc[c] = "drop"
    /\ \/ rows' = [rows EXCEPT ![target[c]] = NoDomainRow] /\ Return(c, "ok")
       \/ UNCHANGED rows /\ Return(c, "error")
    /\ UNCHANGED <<target, ledger, upstream>>

-------------------------------------------------------------------------------
(* The process dies, or the request's context is cancelled, between steps. *)
Crash(c) ==
    /\ pc[c] \notin {"idle", "done"}
    /\ Return(c, "crashed")
    /\ UNCHANGED <<target, ledger, upstream, rows>>

(* A registration lapses or moves away, or somebody else registers.        *)
RegistryChanges(d) ==
    /\ \E h \in {"free", "elsewhere"} : holder' = [holder EXCEPT ![d] = h]
    /\ UNCHANGED <<local, ledger, years, orders, granted, rows>>

Step(c) ==
    \/ Check(c) \/ RecordCharge(c) \/ AnswerCharge(c) \/ PlaceOrder(c) \/ OrderFails(c)
    \/ Refund(c) \/ CreateRow(c) \/ SetExpiry(c) \/ PersistFails(c) \/ SetLedgerLink(c)
    \/ Drop(c)

Next ==
    \/ \E c \in Calls : Begin(c) \/ Step(c) \/ Crash(c)
    \/ \E d \in Domains : RegistryChanges(d)

Spec == Init /\ [][Next]_vars

-------------------------------------------------------------------------------
(* Type correctness; a call has an answer exactly when it has returned.    *)
TypeOK ==
    /\ req \in [Calls -> Requests]
    /\ pc \in [Calls -> PCs]
    /\ answer \in [Calls -> Answers]
    /\ \A c \in Calls : answer[c] # "none" <=> pc[c] = "done"
    /\ target \in [Calls -> Calls \cup {NoRow}]
    /\ charges \in SUBSET Calls
    /\ refunds \in SUBSET Calls
    /\ posted \in [Calls -> Book!Answers]
    /\ holder \in [Domains -> Calls \cup {"free", "elsewhere"}]
    /\ years \in [Calls -> Nat]
    /\ orders \in SUBSET Calls
    /\ granted \in [Calls -> Nat]
    /\ rows \in [Calls -> Row]

(* An order the registrar carried out is paid for: the ledger has exactly  *)
(* one charge under its key, and no call with that key was refunded. Two   *)
(* calls of one tenant for one domain share the key and the charge, so a   *)
(* refund to the one that lost the race would take back the payment of the *)
(* one that won; a refund after a lost answer would pay back a domain that *)
(* was registered (RegisterDomain, RenewDomain, TransferDomain).           *)
OrdersStayPaid ==
    \A c \in orders :
        /\ \E d \in charges : LedgerRow(c) = {d}
        /\ \A e \in refunds : KeyOf(e) # KeyOf(c)

(* The cached expires_at of a row is never later than what the registrar   *)
(* has granted to the registration, although renewals of one domain        *)
(* overlap, fail half-way and write the row in any order.                  *)
ExpiryNotAhead ==
    \A r \in Calls : rows[r].present => rows[r].expiry <= years[r]

(* Every row of dns_domains stands for a registration that was carried     *)
(* out, names one ledger row, a charge of its own tenant for the domain,   *)
(* and is the tenant's only row of the domain, whatever lapsed, moved or   *)
(* was deleted in between.                                                 *)
RowsAreOrders ==
    \A r \in Calls : rows[r].present =>
        /\ r \in orders
        /\ \E d \in charges : /\ rows[r].ledger = {d}
                              /\ req[d].tenant = req[r].tenant
                              /\ req[d].domain = req[r].domain
        /\ RowsNamed(req[r].tenant, req[r].domain) = {r}

(* The package comment: "every registration / renewal / transfer is        *)
(* charged against the user's ledger". No two carried out orders share a   *)
(* charge.                                                                 *)
EveryOrderIsCharged ==
    \A c, d \in orders : KeyOf(c) = KeyOf(d) => c = d

(* The comment of RegisterDomain: "On failure we record a refund row so    *)
(* the user's balance is restored." A call that was charged and whose      *)
(* order failed has been refunded when it returns.                         *)
FailedIsRefunded ==
    [][\A c \in Calls :
        pc[c] = "refund" /\ answer'[c] = "error" => c \in refunds']_vars
================================================================================
