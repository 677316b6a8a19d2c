----------------------------- MODULE BillingLedger -----------------------------
(***************************************************************************)
(* The per-user ledger and its balance cache (billing/ledger.go) over the  *)
(* tables ledger_entries and user_balances.                                *)
(*                                                                         *)
(* A call is one execution of Topup, Refund, PostCharge or RebuildBalance. *)
(* Nothing runs in a transaction: each statement is a step of its own and  *)
(* the steps of concurrent calls (HTTP handlers, the webhook receiver, the *)
(* rollup job, several replicas) interleave freely. A call inserts at most *)
(* one row, so a row is identified with the call that inserted it and a    *)
(* SUM over rows is represented by the set of rows it has summed.          *)
(***************************************************************************)
EXTENDS Integers, FiniteSets, FiniteSetsExt

CONSTANTS
    Calls,                \* executions of the four entry points
    Accounts,             \* (tenant, user) pairs
    Tenants,
    TenantOf,             \* the tenant of an account
    Keys,                 \* idempotency keys
    NoKey,                \* no idempotency key (SQL NULL)
    Requests,             \* the requests a call may be made with
    LowBalanceThreshold   \* config.LowBalanceThreshold

Kinds == {"topup", "refund", "charge", "rebuild"}

Request == [kind : Kinds, acct : Accounts, amount : Nat, key : Keys \cup {NoKey}]

ASSUME TenantOfAssumption == TenantOf \in [Accounts -> Tenants]
ASSUME NoKeyAssumption == NoKey \notin Keys
ASSUME ThresholdAssumption == LowBalanceThreshold \in Int
ASSUME CallsAssumption == IsFiniteSet(Calls)
\* Only PostCharge takes an idempotency key.
ASSUME RequestsAssumption ==
    /\ Requests \subseteq Request
    /\ \A r \in Requests : r.kind # "charge" => r.key = NoKey

VARIABLES
    req,        \* the request of each call; never changes
    pc,         \* the statement a call executes next
    answer,     \* what a call returned
    ledger,     \* ledger_entries: the calls whose row was inserted
    balances,   \* user_balances: is there a row, and which rows it has summed
    snapshot,   \* the rows a call's SumForUser has summed
    prior,      \* the balance row a refresh read before it writes
    lowEvents,  \* number of billing.balance.low events per account
    disturbed   \* history: what hindered the account's refreshes so far

vars == <<req, pc, answer, ledger, balances, snapshot, prior, lowEvents, disturbed>>

PCs == {"idle", "lookup", "insert", "relookup", "sum", "prior", "upsert", "done"}

Answers == {"none", "posted", "existing", "rebuilt", "duplicate", "error", "crashed"}

BalanceRow == [present : BOOLEAN, rows : SUBSET Calls]

NoBalanceRow == [present |-> FALSE, rows |-> {}]

Acct(c) == req[c].acct

KeyOf(c) == req[c].key

TenantOfCall(c) == TenantOf[Acct(c)]

(* The rows SumForUser adds up: those of one tenant and user. *)
RowsOf(a) == {r \in ledger : Acct(r) = a}

(* credits minus debits *)
Balance(rows) ==
    MapThenSumSet(LAMBDA r : IF req[r].kind = "charge" THEN -req[r].amount
                                                       ELSE req[r].amount, rows)

(* GetByIdempotencyKey is scoped to the tenant; the unique index is not. *)
VisibleWithKey(c) == {r \in ledger : KeyOf(r) = KeyOf(c) /\ TenantOfCall(r) = TenantOfCall(c)}

(* Mutant: no unique index on idempotency_key. *)
KeyTaken_NoIndex(c) == FALSE

KeyTaken(c) == KeyOf(c) # NoKey /\ \E r \in ledger : KeyOf(r) = KeyOf(c)

(* Calls of account a between their SUM and their UPSERT. *)
Refreshing(a) == {c \in Calls : Acct(c) = a /\ pc[c] \in {"prior", "upsert"}}

(* Success of a call whose row is in: RebuildBalance has no row of its own. *)
Succeeded(c) == IF req[c].kind = "rebuild" THEN "rebuilt" ELSE "posted"

Return(c, v) ==
    /\ pc' = [pc EXCEPT ![c] = "done"]
    /\ answer' = [answer EXCEPT ![c] = v]

Goto(c, label) ==
    /\ pc' = [pc EXCEPT ![c] = label]
    /\ UNCHANGED answer

(* "failure": a refresh failed or was cut off by a crash; "overlap": a SUM *)
(* was taken between the SUM and the UPSERT of another refresh; "unread":  *)
(* the prior balance could not be read.                                    *)
Disturbances == {"failure", "overlap", "unread"}

Disturb(a, how) == disturbed' = [disturbed EXCEPT ![a] = @ \cup {how}]

Init ==
    /\ req \in [Calls -> Requests]
    /\ pc = [c \in Calls |-> "idle"]
    /\ answer = [c \in Calls |-> "none"]
    /\ ledger = {}
    /\ balances = [a \in Accounts |-> NoBalanceRow]
    /\ snapshot = [c \in Calls |-> {}]
    /\ prior = [c \in Calls |-> NoBalanceRow]
    /\ lowEvents = [a \in Accounts |-> 0]
    /\ disturbed = [a \in Accounts |-> {}]

-------------------------------------------------------------------------------
(* Topup, Refund, PostCharge *)

Begin(c) ==
    /\ pc[c] = "idle"
    /\ Goto(c, IF req[c].kind = "rebuild" THEN "sum"
               ELSE IF KeyOf(c) # NoKey THEN "lookup"
               ELSE "insert")
    /\ UNCHANGED <<req, ledger, balances, snapshot, prior, lowEvents, disturbed>>

(* Mutant: an existing row ends the call without an answer. *)
LookupKey_NoAnswer(c) ==
    /\ pc[c] = "lookup"
    /\ Goto(c, IF VisibleWithKey(c) # {} THEN "done" ELSE "insert")
    /\ UNCHANGED <<req, ledger, balances, snapshot, prior, lowEvents, disturbed>>

(* PostCharge: a row with the key means an earlier run recorded the charge. *)
LookupKey(c) ==
    /\ pc[c] = "lookup"
    /\ \/ /\ VisibleWithKey(c) # {}
          /\ Return(c, "existing")
       \/ /\ VisibleWithKey(c) = {}
          /\ Goto(c, "insert")
       \/ Return(c, "error")  \* dedup lookup failed
    /\ UNCHANGED <<req, ledger, balances, snapshot, prior, lowEvents, disturbed>>

(* Mutant: a charge returns without refreshing the cached balance. *)
InsertRow_NoRefresh(c) ==
    /\ pc[c] = "insert"
    /\ ~KeyTaken(c)
    /\ ledger' = ledger \cup {c}
    /\ IF req[c].kind = "charge" THEN Return(c, "posted") ELSE Goto(c, "sum")
    /\ UNCHANGED <<req, balances, snapshot, prior, lowEvents, disturbed>>

InsertRow(c) ==
    /\ pc[c] = "insert"
    /\ ~KeyTaken(c)
    /\ ledger' = ledger \cup {c}
    /\ Goto(c, "sum")
    /\ UNCHANGED <<req, balances, snapshot, prior, lowEvents, disturbed>>

(* The unique index on idempotency_key rejects the row. *)
InsertConflicts(c) ==
    /\ pc[c] = "insert"
    /\ KeyTaken(c)
    /\ Goto(c, "relookup")
    /\ UNCHANGED <<req, ledger, balances, snapshot, prior, lowEvents, disturbed>>

(* The INSERT fails, or it commits and its acknowledgement is lost. *)
InsertFails(c) ==
    /\ pc[c] = "insert"
    /\ Return(c, "error")
    /\ \/ UNCHANGED <<ledger, disturbed>>
       \/ /\ ~KeyTaken(c)
          /\ ledger' = ledger \cup {c}
          /\ Disturb(Acct(c), "failure")
    /\ UNCHANGED <<req, balances, snapshot, prior, lowEvents>>

(* Mutant: any row with the key is taken for an earlier run of the charge. *)
LookupWinner_AnyTenant(c) ==
    /\ pc[c] = "relookup"
    /\ KeyTaken(c) /\ Return(c, "existing")
    /\ UNCHANGED <<req, ledger, balances, snapshot, prior, lowEvents, disturbed>>

(* After a unique violation PostCharge returns the winner's row, unless it *)
(* cannot be read: another tenant's row, or a failed lookup.               *)
LookupWinner(c) ==
    /\ pc[c] = "relookup"
    /\ \/ VisibleWithKey(c) # {} /\ Return(c, "existing")
       \/ Return(c, "duplicate")
    /\ UNCHANGED <<req, ledger, balances, snapshot, prior, lowEvents, disturbed>>

-------------------------------------------------------------------------------
(* refreshBalance *)

SumForUser(c) ==
    /\ pc[c] = "sum"
    /\ snapshot' = [snapshot EXCEPT ![c] = RowsOf(Acct(c))]
    /\ Goto(c, "prior")
    /\ IF Refreshing(Acct(c)) # {} THEN Disturb(Acct(c), "overlap") ELSE UNCHANGED disturbed
    /\ UNCHANGED <<req, ledger, balances, prior, lowEvents>>

(* An error here only means that no crossing is detected. *)
ReadPrior(c) ==
    /\ pc[c] = "prior"
    /\ \/ /\ prior' = [prior EXCEPT ![c] = balances[Acct(c)]]
          /\ UNCHANGED disturbed
       \/ /\ prior' = [prior EXCEPT ![c] = NoBalanceRow]
          /\ Disturb(Acct(c), "unread")
    /\ Goto(c, "upsert")
    /\ UNCHANGED <<req, ledger, balances, snapshot, lowEvents>>

Crossed(c) ==
    /\ prior[c].present
    /\ Balance(prior[c].rows) > LowBalanceThreshold
    /\ Balance(snapshot[c]) <= LowBalanceThreshold

(* Mutant: ON CONFLICT DO NOTHING keeps the row that is there. *)
Upsert_DoNothing(c) ==
    /\ pc[c] = "upsert"
    /\ balances' = [balances EXCEPT ![Acct(c)] =
                        IF @.present THEN @ ELSE [present |-> TRUE, rows |-> snapshot[c]]]
    /\ Return(c, Succeeded(c))
    /\ UNCHANGED <<req, ledger, snapshot, prior, lowEvents, disturbed>>

(* The balance row is overwritten whatever was written since the SUM.      *)
(* RebuildBalance reads the row back and may fail doing so.                *)
Upsert(c) ==
    /\ pc[c] = "upsert"
    /\ balances' = [balances EXCEPT ![Acct(c)] = [present |-> TRUE, rows |-> snapshot[c]]]
    /\ lowEvents' = [lowEvents EXCEPT ![Acct(c)] = IF Crossed(c) THEN @ + 1 ELSE @]
    /\ \/ Return(c, Succeeded(c))
       \/ req[c].kind = "rebuild" /\ Return(c, "error")
    /\ UNCHANGED <<req, ledger, snapshot, prior, disturbed>>

(* The SUM or the UPSERT fails, or the UPSERT commits unacknowledged. Only *)
(* RebuildBalance reports it; the other calls succeed with a stale cache.  *)
RefreshFails(c) ==
    /\ pc[c] \in {"sum", "upsert"}
    /\ Return(c, IF req[c].kind = "rebuild" THEN "error" ELSE "posted")
    /\ Disturb(Acct(c), "failure")
    /\ \/ UNCHANGED balances
       \/ /\ pc[c] = "upsert"
          /\ balances' = [balances EXCEPT ![Acct(c)] = [present |-> TRUE, rows |-> snapshot[c]]]
    /\ UNCHANGED <<req, ledger, snapshot, prior, lowEvents>>

(* The process dies, or the request's context is cancelled, between steps. *)
Crash(c) ==
    /\ pc[c] \notin {"idle", "done"}
    /\ Return(c, "crashed")
    /\ IF pc[c] \in {"sum", "prior", "upsert"} THEN Disturb(Acct(c), "failure") ELSE UNCHANGED disturbed
    /\ UNCHANGED <<req, ledger, balances, snapshot, prior, lowEvents>>

-------------------------------------------------------------------------------
Step(c) ==
    \/ LookupKey(c) \/ InsertRow(c) \/ InsertConflicts(c) \/ InsertFails(c)
    \/ LookupWinner(c) \/ SumForUser(c) \/ ReadPrior(c) \/ Upsert(c) \/ RefreshFails(c)

Next == \E c \in Calls : Begin(c) \/ Step(c) \/ Crash(c)

Spec == Init /\ [][Next]_vars

(* A started call is executed by a goroutine: it does not stop for ever.   *)
FairSpec == Spec /\ \A c \in Calls : WF_vars(Step(c))

-------------------------------------------------------------------------------
(* Type correctness of the tables and of the calls' local state; a call    *)
(* has an answer exactly when it has returned.                             *)
TypeOK ==
    /\ req \in [Calls -> Requests]
    /\ pc \in [Calls -> PCs]
    /\ answer \in [Calls -> Answers]
    /\ \A c \in Calls : answer[c] # "none" <=> pc[c] = "done"
    /\ ledger \in SUBSET Calls
    /\ balances \in [Accounts -> BalanceRow]
    /\ snapshot \in [Calls -> SUBSET Calls]
    /\ prior \in [Calls -> BalanceRow]
    /\ lowEvents \in [Accounts -> Nat]
    /\ disturbed \in [Accounts -> SUBSET Disturbances]

(* PostCharge is idempotent on its key: a keyed charge that was answered   *)
(* "posted" or "existing" stands in the ledger exactly once, in the        *)
(* caller's tenant, whatever the interleaving of the racing charges and    *)
(* however often the rollup job was retried.                               *)
ChargedExactlyOnce ==
    \A c \in Calls :
        KeyOf(c) # NoKey /\ answer[c] \in {"posted", "existing"} =>
            \E r \in VisibleWithKey(c) : \A s \in ledger : KeyOf(s) = KeyOf(c) => s = r

(* The cached balance of an account no call is working on is the sum of    *)
(* its ledger rows, unless a refresh failed, was cut off, or overlapped    *)
(* another refresh: overlap and failure are the only causes of a stale     *)
(* user_balances row (refreshBalance).                                     *)
FreshUnlessDisturbed ==
    \A a \in Accounts :
        \/ disturbed[a] \cap {"failure", "overlap"} # {}
        \/ \E c \in Calls : Acct(c) = a /\ pc[c] \in {"sum", "prior", "upsert"}
        \/ balances[a].rows = RowsOf(a)

(* RebuildBalance repairs: run when every other call of the account has    *)
(* returned, it ends with a cache equal to the ledger, or does not report  *)
(* success.                                                                *)
RebuildRepairs ==
    \A c \in Calls :
        (/\ req[c].kind = "rebuild"
         /\ pc[c] = "sum"
         /\ \A d \in Calls \ {c} : Acct(d) = Acct(c) => pc[d] = "done")
        ~> (/\ pc[c] = "done"
            /\ answer[c] = "rebuilt" => balances[Acct(c)].rows = RowsOf(Acct(c)))

(* The comment of Topup: "The balance cache is refreshed within the same   *)
(* call so the new balance is immediately visible." When no refresh of the *)
(* account ever failed, a topup that returned is in the cached balance.    *)
TopupVisible ==
    \A c \in Calls :
        /\ req[c].kind = "topup" /\ answer[c] = "posted"
        /\ "failure" \notin disturbed[Acct(c)]
        => c \in balances[Acct(c)].rows

(* The comment of refreshBalance: "Emits a billing.balance.low event if    *)
(* the balance crosses the configured threshold". A write that takes the   *)
(* cached balance across the threshold emits the event, when no statement  *)
(* of the account's refreshes ever failed.                                 *)
LowCrossingEmits ==
    [][\A a \in Accounts :
        (/\ balances[a].present
         /\ disturbed'[a] \subseteq {"overlap"}
         /\ Balance(balances[a].rows) > LowBalanceThreshold
         /\ Balance(balances'[a].rows) <= LowBalanceThreshold)
        => lowEvents'[a] = lowEvents[a] + 1]_vars

(* The calls, seen from outside, are those of the abstract charge book. *)
Book == INSTANCE ChargeBook WITH
            book <- ledger,
            keyOf <- [c \in Calls |-> KeyOf(c)],
            tenantOf <- [c \in Calls |-> TenantOfCall(c)]

BookSpec == Book!Spec
================================================================================
