------------------------------ MODULE ChargeBook ------------------------------
(***************************************************************************)
(* What the billing ledger promises its callers, with every call atomic:   *)
(* a call is recorded at most once, a key of one charge is recorded at     *)
(* most once over all tenants, and an answer "posted" or "existing" is     *)
(* given only when the row it speaks of is in the book.                    *)
(* BillingLedger implements this specification.                            *)
(***************************************************************************)
CONSTANTS
    Calls,      \* calls of Topup, Refund, PostCharge and RebuildBalance
    NoKey       \* the absent idempotency key (SQL NULL)

VARIABLES
    keyOf,      \* the idempotency key each call carries; never changes
    tenantOf,   \* the tenant in each call's context; never changes
    book,       \* the calls whose ledger row exists
    answer      \* what each call returned

vars == <<keyOf, tenantOf, book, answer>>

Answers == {"none", "posted", "existing", "rebuilt", "duplicate", "error", "crashed"}

KeyFree(c) == keyOf[c] = NoKey \/ \A d \in book : keyOf[d] # keyOf[c]

Init ==
    /\ book = {}
    /\ answer = [c \in Calls |-> "none"]

(* The row of c appears in the book; the answer follows later, or is lost. *)
Record(c) ==
    /\ answer[c] = "none"
    /\ c \notin book
    /\ KeyFree(c)
    /\ book' = book \cup {c}
    /\ \/ UNCHANGED answer
       \/ answer' = [answer EXCEPT ![c] = "error"]
    /\ UNCHANGED <<keyOf, tenantOf>>

(* A call answers once; a positive answer names a recorded row. *)
Answer(c) ==
    /\ answer[c] = "none"
    /\ \E v \in Answers \ {"none"} :
        /\ v = "posted" => c \in book
        /\ v = "existing" => /\ keyOf[c] # NoKey
                             /\ \E d \in book \ {c} :
                                  /\ keyOf[d] = keyOf[c]
                                  /\ tenantOf[d] = tenantOf[c]
        /\ v = "duplicate" => c \notin book
        /\ answer' = [answer EXCEPT ![c] = v]
    /\ UNCHANGED <<keyOf, tenantOf, book>>

Next == \E c \in Calls : Record(c) \/ Answer(c)

Spec == Init /\ [][Next]_vars
===============================================================================
