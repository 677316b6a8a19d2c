------------------------------- MODULE PromoCodes -------------------------------
(***************************************************************************)
(* Promo codes (billing/promo_codes.go): CreatePromoCode, RevokePromoCode  *)
(* and RedeemPromoCode over the table billing_promo_codes of one tenant.   *)
(* A redemption is a call of four statements, none of them in a            *)
(* transaction: the lookup, the counting UPDATE, the re-read, and the      *)
(* ledger credit (module BillingLedger), of which a call makes at most one *)
(* and which is identified with it.                                        *)
(***************************************************************************)
EXTENDS Integers, FiniteSets

CONSTANTS
    Calls,       \* executions of RedeemPromoCode
    Users,
    Codes,
    MaxUses,     \* max_uses of each code
    Unlimited,   \* max_uses NULL
    NoRequest    \* the request of a call that has not been made

Requests == [user : Users, code : Codes]

ASSUME MaxUsesAssumption == MaxUses \in [Codes -> (Nat \ {0}) \cup {Unlimited}]
ASSUME NoRequestAssumption == NoRequest \notin Requests

VARIABLES
    state,       \* of a code: not created, live or revoked
    expired,     \* the codes whose expires_at has passed
    used,        \* times_used
    credits,     \* the calls whose credit stands in the ledger
    request,
    pc,          \* the statement a call executes next
    answer,      \* how a call ended
    disturbed,   \* history: the codes that another redemption or a
                 \*   revocation touched in the middle of a redemption
    late         \* history: the calls made after the end of their code

vars == <<state, expired, used, credits, request, pc, answer, disturbed, late>>
codes == <<state, expired, used>>

PCs == {"idle", "increment", "reread", "credit", "done"}
Answers == {"none", "ok", "notfound", "exhausted", "error", "crashed"}

Running(c) == pc[c] \in {"increment", "reread", "credit"}

CodeOf(c) == request[c].code

Bounded(k) == MaxUses[k] # Unlimited
UsedUp(k) == Bounded(k) /\ used[k] >= MaxUses[k]
Ended(k) == state[k] = "revoked" \/ k \in expired

InUse(k) == \E c \in Calls : Running(c) /\ CodeOf(c) = k

Goto(c, label) ==
    /\ pc' = [pc EXCEPT ![c] = label]
    /\ UNCHANGED answer

Return(c, v) ==
    /\ pc' = [pc EXCEPT ![c] = "done"]
    /\ answer' = [answer EXCEPT ![c] = v]

Init ==
    /\ state = [k \in Codes |-> "none"]
    /\ expired = {}
    /\ used = [k \in Codes |-> 0]
    /\ credits = {}
    /\ request = [c \in Calls |-> NoRequest]
    /\ pc = [c \in Calls |-> "idle"]
    /\ answer = [c \in Calls |-> "none"]
    /\ disturbed = {}
    /\ late = {}

-------------------------------------------------------------------------------
CreatePromoCode(k) ==
    /\ state[k] = "none"
    /\ state' = [state EXCEPT ![k] = "live"]
    /\ UNCHANGED <<expired, used, credits, request, pc, answer, disturbed, late>>

RevokePromoCode(k) ==
    /\ state[k] = "live"
    /\ state' = [state EXCEPT ![k] = "revoked"]
    /\ disturbed' = IF InUse(k) THEN disturbed \cup {k} ELSE disturbed
    /\ UNCHANGED <<expired, used, credits, request, pc, answer, late>>

(* The clock passes expires_at.                                            *)
Expire(k) ==
    /\ state[k] # "none" /\ k \notin expired
    /\ expired' = expired \cup {k}
    /\ UNCHANGED <<state, used, credits, request, pc, answer, disturbed, late>>

-------------------------------------------------------------------------------
(* Mutant: a used-up code is left to the UPDATE to refuse. *)
Redeemable_UsedUp(k) == state[k] = "live" /\ k \notin expired

(* The checks of RedeemPromoCode on the row it has read.                   *)
Redeemable(k) == state[k] = "live" /\ k \notin expired /\ ~UsedUp(k)

Lookup(c, q) ==
    LET k == q.code IN
    /\ pc[c] = "idle"
    /\ request' = [request EXCEPT ![c] = q]
    /\ late' = IF Ended(k) THEN late \cup {c} ELSE late
    /\ \/ /\ Redeemable(k)
          /\ Goto(c, "increment")
          /\ disturbed' = IF InUse(k) THEN disturbed \cup {k} ELSE disturbed
       \/ /\ ~Redeemable(k)
          /\ Return(c, IF state[k] = "none" THEN "notfound" ELSE "exhausted")
          /\ UNCHANGED disturbed
       \/ Return(c, "error") /\ UNCHANGED disturbed
    /\ UNCHANGED <<codes, credits>>

(* Mutant: the UPDATE has no condition on max_uses. *)
Counted_Always(k) == [used EXCEPT ![k] = @ + 1]

(* IncrementBillingPromoCodeUse: no row matched is no error.               *)
Counted(k) ==
    IF state[k] = "live" /\ ~UsedUp(k) THEN [used EXCEPT ![k] = @ + 1] ELSE used

IncrementUse(c) ==
    /\ pc[c] = "increment"
    /\ used' = Counted(CodeOf(c))
    /\ Goto(c, "reread")
    /\ UNCHANGED <<state, expired, credits, request, disturbed, late>>

(* The UPDATE fails, or commits and its acknowledgement is lost.           *)
IncrementFails(c) ==
    /\ pc[c] = "increment"
    /\ used' \in {used, Counted(CodeOf(c))}
    /\ Return(c, "error")
    /\ UNCHANGED <<state, expired, credits, request, disturbed, late>>

(* The re-read takes any use of the code for this one.                     *)
Reread(c) ==
    /\ pc[c] = "reread"
    /\ \/ used[CodeOf(c)] # 0 /\ Goto(c, "credit")
       \/ used[CodeOf(c)] = 0 /\ Return(c, "exhausted")
       \/ Return(c, "error")
    /\ UNCHANGED <<codes, credits, request, disturbed, late>>

(* Mutant: the redemption does not report. *)
Credit_NoAnswer(c) ==
    /\ pc[c] = "credit"
    /\ credits' = credits \cup {c}
    /\ Goto(c, "done")
    /\ UNCHANGED <<codes, request, disturbed, late>>

(* Topup, without an idempotency key.                                      *)
Credit(c) ==
    /\ pc[c] = "credit"
    /\ credits' = credits \cup {c}
    /\ Return(c, "ok")
    /\ UNCHANGED <<codes, request, disturbed, late>>

(* Topup fails, before or after its row is in the ledger.                  *)
CreditFails(c) ==
    /\ pc[c] = "credit"
    /\ credits' \in {credits, credits \cup {c}}
    /\ Return(c, "error")
    /\ UNCHANGED <<codes, request, disturbed, late>>

(* The process dies, or the request is cut off, between two statements.    *)
Crash(c) ==
    /\ Running(c)
    /\ Return(c, "crashed")
    /\ UNCHANGED <<codes, credits, request, disturbed, late>>

Redeem(c) ==
    \/ \E q \in Requests : Lookup(c, q)
    \/ IncrementUse(c) \/ IncrementFails(c) \/ Reread(c)
    \/ Credit(c) \/ CreditFails(c) \/ Crash(c)

Admin(k) == CreatePromoCode(k) \/ RevokePromoCode(k) \/ Expire(k)

Next == (\E c \in Calls : Redeem(c)) \/ (\E k \in Codes : Admin(k))

Spec == Init /\ [][Next]_vars

-------------------------------------------------------------------------------
(* Type correctness; a call has an answer exactly when it has returned and *)
(* a request from its first statement on.                                  *)
TypeOK ==
    /\ state \in [Codes -> {"none", "live", "revoked"}]
    /\ expired \subseteq Codes
    /\ used \in [Codes -> Nat]
    /\ credits \subseteq Calls
    /\ request \in [Calls -> Requests \cup {NoRequest}]
    /\ pc \in [Calls -> PCs]
    /\ answer \in [Calls -> Answers]
    /\ disturbed \subseteq Codes
    /\ late \subseteq Calls
    /\ \A c \in Calls : /\ pc[c] = "idle" <=> request[c] = NoRequest
                        /\ pc[c] = "done" <=> answer[c] # "none"
                        /\ c \in credits => pc[c] = "done"

(* The counter never passes max_uses, whoever raced: the UPDATE of         *)
(* IncrementUse tests it in the statement that bumps it.                   *)
UsesWithinMax == \A k \in Codes : Bounded(k) => used[k] <= MaxUses[k]

CreditsOf(k) == {c \in credits : CodeOf(c) = k}

(* Every credit of a code is covered by a use the counter shows, so that   *)
(* max_uses bounds the credits too, as long as no redemption or revocation *)
(* came between the statements of another redemption of that code;         *)
(* whatever failed, crashed or committed without an answer.                *)
CreditsCounted ==
    \A k \in Codes \ disturbed : Cardinality(CreditsOf(k)) <= used[k]

(* "Revoked codes cannot be redeemed" and "After this timestamp, redeem    *)
(* refuses": a redemption that begins after the end of its code is never   *)
(* credited.                                                               *)
LateIsRefused == late \cap credits = {}

(* The comment on max_uses: the service "atomically increments times_used  *)
(* and refuses when times_used >= max_uses".                               *)
CreditsWithinMaxUses ==
    \A k \in Codes : Bounded(k) => Cardinality(CreditsOf(k)) <= MaxUses[k]

(* The comment on RedeemPromoCode: "Idempotent on (tenant, user, code)".   *)
OncePerUser == \A c, d \in credits : request[c] = request[d] => c = d
================================================================================
