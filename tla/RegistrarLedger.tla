---------------------------- MODULE RegistrarLedger ----------------------------
(***************************************************************************)
(* The registrar over the billing ledger itself: the charge of an order is *)
(* the PostCharge of module BillingLedger, statement by statement, with    *)
(* the refresh of the balance cache, and not a call of the charge book.    *)
(* Calls of the registrar, and the statements of their charges, interleave *)
(* freely.  The two modules share ledger_entries (charges).                *)
(***************************************************************************)
EXTENDS Registrar

CONSTANTS
    Accounts,             \* (tenant, user) pairs
    TenantOf,             \* the tenant of an account
    LowBalanceThreshold

ASSUME TenantOfAssumption == TenantOf \in [Accounts -> Tenants]

VARIABLES
    user,       \* the account each call is made for; never changes
    statement,  \* the statement a call's PostCharge executes next
    returned,   \* what its PostCharge returned
    balances, snapshot, prior, lowEvents, disturbed   \* of BillingLedger

charging == <<statement, returned, balances, snapshot, prior, lowEvents, disturbed>>
composedVars == <<vars, user, charging>>

Keys == Kinds \X Tenants \X Domains \X (Calls \cup {NoRow}) \X (1..10)

Charges ==
    [kind : {"charge"}, acct : Accounts, amount : {YearPrice * n : n \in 1..10}, key : Keys]

(* The parameters of PostCharge.                                           *)
ChargeOf(c) ==
    [kind |-> "charge", acct |-> user[c], amount |-> Amount(c), key |-> KeyOf(c)]

Ledger == INSTANCE BillingLedger WITH
            Requests <- Charges,
            req <- [c \in Calls |-> ChargeOf(c)],
            pc <- statement,
            answer <- returned,
            ledger <- charges

ComposedInit ==
    /\ Init
    /\ user \in {u \in [Calls -> Accounts] : \A c \in Calls : TenantOf[u[c]] = req[c].tenant}
    /\ Ledger!Init

-------------------------------------------------------------------------------
(* A statement of the call's PostCharge.                                   *)
Charge(c) ==
    /\ pc[c] = "charge"
    /\ ValidAmount(Amount(c))
    /\ UNCHANGED <<local, refunds, posted, upstream, rows, user>>
    /\ Ledger!Begin(c) \/ Ledger!Step(c)

(* What PostCharge answers: validateAmount comes before any statement.     *)
ChargeAnswer(c) == IF ValidAmount(Amount(c)) THEN returned[c] ELSE "error"

(* Mutant: the order is placed whatever PostCharge has answered. *)
ChargeReturns_Unchecked(c) ==
    /\ pc[c] = "charge"
    /\ ChargeAnswer(c) # "none"
    /\ posted' = [posted EXCEPT ![c] = ChargeAnswer(c)]
    /\ Goto(c, "order")
    /\ UNCHANGED <<target, charges, refunds, upstream, rows, user, charging>>

(* A ledger row, the call's own or an earlier one, or an error.            *)
ChargeReturns(c) ==
    /\ pc[c] = "charge"
    /\ ChargeAnswer(c) # "none"
    /\ posted' = [posted EXCEPT ![c] = ChargeAnswer(c)]
    /\ IF ChargeAnswer(c) \in {"posted", "existing"} THEN Goto(c, "order") ELSE Return(c, "error")
    /\ UNCHANGED <<target, charges, refunds, upstream, rows, user, charging>>

(* The process dies, or the context is cancelled, also inside PostCharge.  *)
ComposedCrash(c) ==
    /\ Crash(c) /\ UNCHANGED user
    /\ \/ Ledger!Crash(c)
       \/ statement[c] \in {"idle", "done"} /\ UNCHANGED charging

(* Every other step of the registrar.                                      *)
Uncharged(c) ==
    /\ \/ Begin(c) \/ Check(c) \/ PlaceOrder(c) \/ OrderFails(c) \/ Refund(c)
       \/ CreateRow(c) \/ SetExpiry(c) \/ PersistFails(c) \/ SetLedgerLink(c) \/ Drop(c)
    /\ UNCHANGED <<user, charging>>

ComposedNext ==
    \/ \E c \in Calls :
          Charge(c) \/ ChargeReturns(c) \/ ComposedCrash(c) \/ Uncharged(c)
    \/ (\E d \in Domains : RegistryChanges(d)) /\ UNCHANGED <<user, charging>>

ComposedSpec == ComposedInit /\ [][ComposedNext]_composedVars

-------------------------------------------------------------------------------
(* The types of both modules, and the accounts are those of the requests.  *)
ComposedTypeOK ==
    /\ TypeOK
    /\ Ledger!TypeOK
    /\ user \in [Calls -> Accounts]

(* The registrar over the ledger's statements is the registrar over the    *)
(* charge book: every charge looks atomic to the orders.                   *)
RegistrarSpec == Spec
================================================================================
