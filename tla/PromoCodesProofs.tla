---------------------------- MODULE PromoCodesProofs ----------------------------
(***************************************************************************)
(* Theorems about PromoCodes, for every set of calls, users and codes and  *)
(* every max_uses, with their proofs.                                      *)
(***************************************************************************)
EXTENDS PromoCodes, FiniteSetTheorems, TLAPS

(* A running call has its arguments; a late one never runs.                *)
TypeInv ==
    /\ TypeOK
    /\ \A c \in Calls : /\ Running(c) => request[c] \in Requests
                        /\ c \in late => pc[c] = "done"
    /\ late \cap credits = {}
    /\ UsesWithinMax

LEMMA Unbounded == ASSUME NEW k \in Codes, Bounded(k) PROVE MaxUses[k] \in Nat \ {0}
BY MaxUsesAssumption DEF Bounded

LEMMA TypeInit == Init => TypeInv
<1> SUFFICES ASSUME Init PROVE TypeInv
  OBVIOUS
<1>1. TypeOK
  BY NoRequestAssumption DEF Init, TypeOK, PCs, Answers
<1>2. UsesWithinMax
  BY Unbounded DEF Init, UsesWithinMax
<1> QED
  BY <1>1, <1>2 DEF Init, TypeInv, Running

(* The conditional UPDATE. *)
LEMMA CountedType ==
    ASSUME TypeInv, NEW k \in Codes, NEW u, u \in {used, Counted(k)}
    PROVE  /\ u \in [Codes -> Nat]
           /\ \A x \in Codes : Bounded(x) => u[x] <= MaxUses[x]
           /\ \A x \in Codes : x # k => u[x] = used[x]
           /\ u[k] >= used[k]
<1>1. used \in [Codes -> Nat] /\ \A x \in Codes : Bounded(x) => used[x] <= MaxUses[x]
  BY DEF TypeInv, TypeOK, UsesWithinMax
<1>2. CASE u = used
  BY <1>1, <1>2
<1>3. CASE u # used
  <2>1. u = [used EXCEPT ![k] = used[k] + 1] /\ ~UsedUp(k)
    BY <1>3 DEF Counted
  <2>2. Bounded(k) => used[k] + 1 <= MaxUses[k]
    BY <1>1, <2>1, Unbounded DEF UsedUp
  <2> QED
    BY <1>1, <2>1, <2>2
<1> QED
  BY <1>2, <1>3

LEMMA TypeStep == TypeInv /\ [Next]_vars => TypeInv'
<1> SUFFICES ASSUME TypeInv, [Next]_vars PROVE TypeInv'
  OBVIOUS
<1>t. /\ TypeOK /\ late \cap credits = {} /\ UsesWithinMax
      /\ \A c \in Calls : /\ Running(c) => request[c] \in Requests
                          /\ c \in late => pc[c] = "done"
  BY DEF TypeInv
<1>u. CASE UNCHANGED vars
  BY <1>u, <1>t DEF vars, TypeInv, TypeOK, UsesWithinMax, Running, Bounded
<1>a. ASSUME NEW k \in Codes, Admin(k) PROVE TypeInv'
  <2>1. TypeOK'
    BY <1>a, <1>t DEF Admin, CreatePromoCode, RevokePromoCode, Expire, TypeOK
  <2>2. UNCHANGED <<used, credits, request, pc, late>>
    BY <1>a DEF Admin, CreatePromoCode, RevokePromoCode, Expire
  <2> QED
    BY <1>t, <2>1, <2>2 DEF TypeInv, UsesWithinMax, Running, Bounded
<1>r. ASSUME NEW c \in Calls, Redeem(c) PROVE TypeInv'
  <2>m. MaxUses' = MaxUses
    OBVIOUS
  <2>1. ASSUME NEW q \in Requests, Lookup(c, q) PROVE TypeInv'
    <3>1. q.code \in Codes /\ c \notin credits
      BY <1>t, <2>1 DEF Requests, Lookup, TypeOK
    <3>2. UNCHANGED <<state, expired, used, credits>>
      BY <2>1 DEF Lookup, codes
    <3>3. pc'[c] = "increment" => ~Ended(q.code)
      BY <1>t, <2>1 DEF Lookup, Goto, Return, Redeemable, Ended, TypeOK
    <3>4. TypeOK'
      <4>1. CASE Goto(c, "increment")
        BY <1>t, <2>1, <3>1, <3>2, <4>1, NoRequestAssumption DEF Lookup, Goto, TypeOK, PCs
      <4>2. CASE \E v \in {"notfound", "exhausted", "error"} : Return(c, v) /\ UNCHANGED disturbed
        <5>1. PICK v \in {"notfound", "exhausted", "error"} : Return(c, v) /\ UNCHANGED disturbed
          BY <4>2
        <5>2. /\ request' = [request EXCEPT ![c] = q] /\ q # NoRequest /\ late' \subseteq Calls
              /\ pc[c] = "idle"
          BY <1>t, <2>1, NoRequestAssumption DEF Lookup, TypeOK
        <5>3. /\ request' \in [Calls -> Requests \cup {NoRequest}] /\ pc' \in [Calls -> PCs]
              /\ answer' \in [Calls -> Answers]
          BY <1>t, <5>1, <5>2 DEF Return, TypeOK, PCs, Answers
        <5>4. ASSUME NEW x \in Calls
              PROVE  /\ pc'[x] = "idle" <=> request'[x] = NoRequest
                     /\ pc'[x] = "done" <=> answer'[x] # "none"
                     /\ x \in credits => pc'[x] = "done"
          BY <1>t, <3>1, <5>1, <5>2 DEF Return, TypeOK
        <5> QED
          BY <1>t, <3>2, <5>1, <5>2, <5>3, <5>4 DEF TypeOK
      <4> QED
        BY <2>1, <4>1, <4>2 DEF Lookup
    <3>5. ASSUME NEW x \in Calls
          PROVE  /\ Running(x)' => request'[x] \in Requests
                 /\ x \in late' => pc'[x] = "done"
      <4>1. CASE x # c
        BY <1>t, <2>1, <4>1 DEF Lookup, Goto, Return, Running, TypeOK
      <4>2. CASE x = c
        BY <1>t, <2>1, <3>3, <4>2 DEF Lookup, Goto, Return, Running, TypeOK
      <4> QED
        BY <4>1, <4>2
    <3> QED
      BY <1>t, <2>1, <3>1, <3>2, <3>4, <3>5 DEF Lookup, TypeInv, UsesWithinMax, Bounded
  <2>2. CASE ~(\E q \in Requests : Lookup(c, q))
    <3>1. Running(c) /\ request[c] \in Requests /\ CodeOf(c) \in Codes /\ c \notin late
      BY <1>r, <1>t, <2>2 DEF Redeem, IncrementUse, IncrementFails, Reread, Credit, CreditFails,
         Crash, Running, CodeOf, Requests
    <3>2. UNCHANGED <<state, expired, request, disturbed, late>>
      BY <1>r, <2>2 DEF Redeem, IncrementUse, IncrementFails, Reread, Credit, CreditFails, Crash, codes
    <3>3. \/ \E l \in {"reread", "credit"} : Goto(c, l) /\ UNCHANGED credits
          \/ /\ \E v \in {"ok", "exhausted", "error", "crashed"} : Return(c, v)
             /\ credits' \in {credits, credits \cup {c}}
      BY <1>r, <2>2 DEF Redeem, IncrementUse, IncrementFails, Reread, Credit, CreditFails, Crash
    <3>4. used' \in {used, Counted(CodeOf(c))}
      BY <1>r, <2>2 DEF Redeem, IncrementUse, IncrementFails, Reread, Credit, CreditFails, Crash, codes
    <3>5. used' \in [Codes -> Nat] /\ \A x \in Codes : Bounded(x) => used'[x] <= MaxUses[x]
      BY <3>1, <3>4, CountedType
    <3>6. TypeOK'
      BY <1>t, <3>1, <3>2, <3>3, <3>5 DEF TypeOK, Goto, Return, PCs, Answers, Running
    <3>7. \A x \in Calls : (Running(x)' => Running(x)) /\ (pc[x] = "done" => pc'[x] = "done")
      BY <1>t, <3>1, <3>3 DEF Goto, Return, Running, TypeOK
    <3> QED
      BY <1>t, <3>1, <3>2, <3>3, <3>5, <3>6, <3>7 DEF TypeInv, UsesWithinMax, Bounded
  <2> QED
    BY <2>1, <2>2
<1> QED
  BY <1>u, <1>a, <1>r DEF Next

(* The table, the ledger and the calls keep their types. *)
THEOREM TypeCorrect == Spec => []TypeOK
<1>1. TypeInv => TypeOK
  BY DEF TypeInv
<1> QED
  BY <1>1, TypeInit, TypeStep, PTL DEF Spec

(* times_used stays within max_uses, whoever raced. *)
THEOREM UsesBounded == Spec => []UsesWithinMax
<1>1. TypeInv => UsesWithinMax
  BY DEF TypeInv
<1> QED
  BY <1>1, TypeInit, TypeStep, PTL DEF Spec

(* A redemption that begins after the end of its code is never credited. *)
THEOREM LateRefused == Spec => []LateIsRefused
<1>1. TypeInv => LateIsRefused
  BY DEF TypeInv, LateIsRefused
<1> QED
  BY <1>1, TypeInit, TypeStep, PTL DEF Spec
-------------------------------------------------------------------------------
(* While nothing comes between the statements of a redemption of k, it is  *)
(* the only one, the UPDATE counts it, and its use covers its credit.      *)
Alone(k) ==
    \A c, d \in Calls : Running(c) /\ Running(d) /\ CodeOf(c) = k /\ CodeOf(d) = k => c = d

Covered(k) ==
    \A c \in Calls : Running(c) /\ CodeOf(c) = k =>
        /\ pc[c] = "increment" => state[k] = "live" /\ ~UsedUp(k)
        /\ pc[c] # "increment" => Cardinality(CreditsOf(k)) + 1 <= used[k]

CountInv ==
    /\ IsFiniteSet(credits)
    /\ \A k \in Codes \ disturbed : Alone(k) /\ Covered(k) /\ Cardinality(CreditsOf(k)) <= used[k]

LEMMA CreditsFinite ==
    ASSUME TypeInv, CountInv, NEW k \in Codes
    PROVE  /\ IsFiniteSet(CreditsOf(k)) /\ Cardinality(CreditsOf(k)) \in Nat /\ used[k] \in Nat
<1>1. CreditsOf(k) \in SUBSET credits
  BY DEF CreditsOf
<1> QED
  BY <1>1, FS_Subset, FS_CardinalityType DEF CountInv, TypeInv, TypeOK

(* Calls that are credited have returned, and keep their arguments. *)
LEMMA SameCredits ==
    ASSUME TypeInv, NEW c \in Calls, pc[c] # "done", credits' = credits,
           \A x \in Calls : x # c => request'[x] = request[x], NEW k
    PROVE  CreditsOf(k)' = CreditsOf(k)
BY DEF CreditsOf, CodeOf, TypeInv, TypeOK

LEMMA CountInit == Init => CountInv
<1> SUFFICES ASSUME Init PROVE CountInv
  OBVIOUS
<1>1. \A k : CreditsOf(k) = {}
  BY DEF Init, CreditsOf
<1> QED
  BY <1>1, FS_EmptySet DEF Init, CountInv, Alone, Covered, Running

LEMMA AdminCount ==
    ASSUME TypeInv, CountInv, NEW j \in Codes, Admin(j)
    PROVE  CountInv'
<1>1. /\ UNCHANGED <<used, credits, request, pc>> /\ disturbed \subseteq disturbed'
      /\ \A k : CreditsOf(k)' = CreditsOf(k)
      /\ \A c : Running(c)' <=> Running(c)
      /\ \A c : CodeOf(c)' = CodeOf(c)
      /\ \A k : UsedUp(k)' <=> UsedUp(k)
  BY DEF Admin, CreatePromoCode, RevokePromoCode, Expire, CreditsOf, CodeOf, Running, UsedUp, Bounded
<1>2. ASSUME NEW k \in Codes, k \notin disturbed', NEW c \in Calls, Running(c), CodeOf(c) = k
      PROVE  state[k] = "live" => state'[k] = "live"
  <2>1. CASE RevokePromoCode(j)
    BY <1>2, <2>1 DEF RevokePromoCode, InUse, TypeInv, TypeOK
  <2> QED
    BY <2>1 DEF Admin, CreatePromoCode, Expire, TypeInv, TypeOK
<1>3. ASSUME NEW k \in Codes, k \notin disturbed'
      PROVE  Alone(k)' /\ Covered(k)' /\ Cardinality(CreditsOf(k))' <= used'[k]
  <2>1. Alone(k) /\ Covered(k) /\ Cardinality(CreditsOf(k)) <= used[k]
    BY <1>1, <1>3 DEF CountInv
  <2>2. Alone(k)'
    BY <1>1, <2>1 DEF Alone
  <2>3. Covered(k)'
    BY <1>1, <1>2, <1>3, <2>1 DEF Covered
  <2> QED
    BY <1>1, <2>1, <2>2, <2>3
<1> QED
  BY <1>1, <1>3 DEF CountInv

LEMMA LookupCount ==
    ASSUME TypeInv, CountInv, NEW c \in Calls, NEW q \in Requests, Lookup(c, q)
    PROVE  CountInv'
<1>1. /\ UNCHANGED <<state, expired, used, credits>> /\ disturbed \subseteq disturbed' /\ pc[c] = "idle"
      /\ request'[c] = q /\ pc'[c] \in {"increment", "done"}
      /\ \A x \in Calls : x # c => request'[x] = request[x] /\ pc'[x] = pc[x]
  BY DEF Lookup, codes, Goto, Return, TypeInv, TypeOK
<1>2. \A k : CreditsOf(k)' = CreditsOf(k) /\ (UsedUp(k)' <=> UsedUp(k))
  BY <1>1, SameCredits DEF UsedUp, Bounded
<1>3. \A x \in Calls : x # c => (Running(x)' <=> Running(x)) /\ CodeOf(x)' = CodeOf(x)
  BY <1>1 DEF Running, CodeOf
<1>4. CodeOf(c)' = q.code
  BY <1>1 DEF CodeOf
<1>5. Running(c)' => /\ pc'[c] = "increment" /\ state[q.code] = "live" /\ ~UsedUp(q.code)
                     /\ q.code \in disturbed' \/ ~InUse(q.code)
  BY <1>1 DEF Running, Lookup, Return, Redeemable, TypeInv, TypeOK
<1>6. ASSUME NEW k \in Codes, k \notin disturbed'
      PROVE  Alone(k)' /\ Covered(k)' /\ Cardinality(CreditsOf(k))' <= used'[k]
  <2>1. Alone(k) /\ Covered(k) /\ Cardinality(CreditsOf(k)) <= used[k]
    BY <1>1, <1>6 DEF CountInv
  <2>2. ASSUME NEW x \in Calls, x # c, Running(x), CodeOf(x) = k, Running(c)', q.code = k PROVE FALSE
    BY <1>5, <1>6, <2>2 DEF InUse
  <2>3. Alone(k)'
    BY <1>3, <1>4, <2>1, <2>2 DEF Alone
  <2>4. Covered(k)'
    <3> SUFFICES ASSUME NEW x \in Calls, Running(x)', CodeOf(x)' = k
                 PROVE  /\ pc'[x] = "increment" => state[k] = "live" /\ ~UsedUp(k)
                        /\ pc'[x] # "increment" => Cardinality(CreditsOf(k)) + 1 <= used[k]
      BY <1>1, <1>2 DEF Covered
    <3>1. CASE x = c
      BY <1>4, <1>5, <3>1
    <3>2. CASE x # c
      BY <1>1, <1>3, <2>1, <3>2 DEF Covered
    <3> QED
      BY <3>1, <3>2
  <2> QED
    BY <1>1, <1>2, <2>1, <2>3, <2>4
<1> QED
  BY <1>1, <1>6 DEF CountInv

LEMMA OneMore ==
    ASSUME NEW S, NEW T, NEW x, IsFiniteSet(S), T \in {S, S \cup {x}}
    PROVE  Cardinality(T) \in Nat /\ Cardinality(T) <= Cardinality(S) + 1
<1>1. Cardinality(S) \in Nat
  BY FS_CardinalityType
<1>2. Cardinality(S \cup {x}) =
         IF x \in S THEN Cardinality(S) ELSE Cardinality(S) + 1
  BY FS_AddElement
<1>3. CASE T = S
  BY <1>1, <1>3
<1>4. CASE T = S \cup {x}
  <2>1. CASE x \in S
    BY <1>1, <1>2, <1>4, <2>1
  <2>2. CASE x \notin S
    BY <1>1, <1>2, <1>4, <2>2
  <2> QED
    BY <2>1, <2>2
<1> QED
  BY <1>3, <1>4

(* A statement of a running redemption. *)
LEMMA RunCount ==
    ASSUME TypeInv, CountInv, NEW c \in Calls, Redeem(c), ~ \E q \in Requests : Lookup(c, q)
    PROVE  CountInv'
<1>1. /\ Running(c) /\ UNCHANGED <<state, expired, request, disturbed>>
      /\ \A x \in Calls : x # c => pc'[x] = pc[x]
  BY DEF Redeem, IncrementUse, IncrementFails, Reread, Credit, CreditFails, Crash, Running, codes,
         Goto, Return, TypeInv, TypeOK
<1>2. PICK j \in Codes : j = CodeOf(c)
  BY <1>1 DEF CodeOf, TypeInv, Requests
<1>3. \A x \in Calls : CodeOf(x)' = CodeOf(x) /\ (x # c => (Running(x)' <=> Running(x)))
  BY <1>1 DEF CodeOf, Running
<1>4. credits' = credits \/ (pc[c] = "credit" /\ pc'[c] = "done" /\ credits' = credits \cup {c} /\ UNCHANGED used)
  BY DEF Redeem, IncrementUse, IncrementFails, Reread, Credit, CreditFails, Crash, codes, Return,
         TypeInv, TypeOK
<1>5. IsFiniteSet(credits')
  BY <1>4, FS_AddElement DEF CountInv
<1>6. \A k \in Codes : k # j => CreditsOf(k)' = CreditsOf(k) /\ used'[k] = used[k]
  <2>1. used' \in {used, Counted(j)}
    BY <1>2 DEF Redeem, IncrementUse, IncrementFails, Reread, Credit, CreditFails, Crash, codes
  <2>2. \A k \in Codes : k # j => used'[k] = used[k]
    BY <1>2, <2>1, CountedType
  <2>3. \A k \in Codes : k # j => CreditsOf(k)' = CreditsOf(k)
    BY <1>2, <1>3, <1>4 DEF CreditsOf, TypeInv, TypeOK
  <2> QED
    BY <2>2, <2>3
<1>7. ASSUME NEW k \in Codes, k \notin disturbed, k # j
      PROVE  Alone(k)' /\ Covered(k)' /\ Cardinality(CreditsOf(k))' <= used'[k]
  <2>1. Alone(k) /\ Covered(k) /\ Cardinality(CreditsOf(k)) <= used[k]
    BY <1>7 DEF CountInv
  <2>2. Alone(k)'
    BY <1>2, <1>3, <1>7, <2>1 DEF Alone
  <2>3. UsedUp(k)' <=> UsedUp(k)
    BY <1>6, <1>7 DEF UsedUp, Bounded
  <2>4. Covered(k)'
    BY <1>2, <1>1, <1>3, <1>6, <1>7, <2>1, <2>3 DEF Covered
  <2> QED
    BY <1>6, <1>7, <2>1, <2>2, <2>4
<1>8. ASSUME j \notin disturbed
      PROVE  Alone(j)' /\ Covered(j)' /\ Cardinality(CreditsOf(j)') <= used'[j]
  <2>1. /\ Alone(j) /\ Cardinality(CreditsOf(j)) <= used[j]
        /\ pc[c] = "increment" => state[j] = "live" /\ ~UsedUp(j)
        /\ pc[c] # "increment" => Cardinality(CreditsOf(j)) + 1 <= used[j]
    BY <1>1, <1>2, <1>8 DEF CountInv, Covered
  <2>2. \A x \in Calls : Running(x)' /\ CodeOf(x)' = j => x = c
    BY <1>2, <1>1, <1>3, <2>1 DEF Alone
  <2>3. IsFiniteSet(CreditsOf(j)) /\ Cardinality(CreditsOf(j)) \in Nat /\ used[j] \in Nat
    BY <1>2, CreditsFinite
  <2>4. Alone(j)'
    BY <1>3, <2>2 DEF Alone
  <2>5. ASSUME pc'[c] \in {"reread", "credit", "done"},
               Cardinality(CreditsOf(j)') <= used'[j],
               pc'[c] # "done" => Cardinality(CreditsOf(j)') + 1 <= used'[j]
        PROVE  Covered(j)' /\ Cardinality(CreditsOf(j)') <= used'[j]
    BY <1>3, <2>2, <2>5 DEF Covered, Running
  <2>6. credits' = credits => CreditsOf(j)' = CreditsOf(j)
    BY <1>3 DEF CreditsOf, TypeInv, TypeOK
  <2>7. CASE IncrementUse(c)
    <3>1. used'[j] = used[j] + 1
      BY <1>2, <2>1, <2>7 DEF IncrementUse, Counted, TypeInv, TypeOK
    <3>2. pc'[c] = "reread" /\ credits' = credits
      BY <2>7 DEF IncrementUse, Goto, TypeInv, TypeOK
    <3> QED
      BY <2>1, <2>3, <2>4, <2>5, <2>6, <3>1, <3>2
  <2>8. CASE IncrementFails(c)
    <3>1. used'[j] \in Nat /\ used'[j] >= used[j]
      BY <1>2, <2>8, CountedType DEF IncrementFails
    <3>2. pc'[c] = "done" /\ credits' = credits
      BY <2>8 DEF IncrementFails, Return, TypeInv, TypeOK
    <3> QED
      BY <2>1, <2>3, <2>4, <2>5, <2>6, <3>1, <3>2
  <2>9. CASE Reread(c)
    <3>1. pc[c] = "reread" /\ pc'[c] \in {"credit", "done"} /\ UNCHANGED <<credits, used>>
      BY <2>9 DEF Reread, codes, Goto, Return, TypeInv, TypeOK
    <3> QED
      BY <2>1, <2>3, <2>4, <2>5, <2>6, <3>1
  <2>10. CASE Credit(c) \/ CreditFails(c)
    <3>1. pc[c] = "credit" /\ pc'[c] = "done" /\ UNCHANGED used /\ credits' \in {credits, credits \cup {c}}
      BY <2>10 DEF Credit, CreditFails, codes, Return, TypeInv, TypeOK
    <3>2. CreditsOf(j)' \in {CreditsOf(j), CreditsOf(j) \cup {c}}
      BY <1>3, <2>6, <3>1 DEF CreditsOf, TypeInv, TypeOK
    <3>3. Cardinality(CreditsOf(j)') \in Nat /\ Cardinality(CreditsOf(j)') <= Cardinality(CreditsOf(j)) + 1
      BY <2>3, <3>2, OneMore
    <3> QED
      BY <2>1, <2>3, <2>4, <2>5, <3>1, <3>3
  <2>11. CASE Crash(c)
    <3>1. pc'[c] = "done" /\ UNCHANGED <<credits, used>>
      BY <2>11 DEF Crash, codes, Return, TypeInv, TypeOK
    <3> QED
      BY <2>1, <2>4, <2>5, <2>6, <3>1
  <2> QED
    BY <2>7, <2>8, <2>9, <2>10, <2>11 DEF Redeem
<1>9. ASSUME NEW k \in Codes, k \notin disturbed
      PROVE  Alone(k)' /\ Covered(k)' /\ Cardinality(CreditsOf(k)') <= used'[k]
  BY <1>7, <1>8, <1>9
<1> QED
  BY <1>1, <1>5, <1>9 DEF CountInv

LEMMA CountStep == TypeInv /\ CountInv /\ [Next]_vars => CountInv'
<1> SUFFICES ASSUME TypeInv, CountInv, [Next]_vars PROVE CountInv'
  OBVIOUS
<1>1. CASE UNCHANGED vars
  <2>1. /\ UNCHANGED <<state, used, credits, disturbed, pc>>
        /\ \A k : CreditsOf(k)' = CreditsOf(k) /\ (UsedUp(k)' <=> UsedUp(k))
        /\ \A c : (Running(c)' <=> Running(c)) /\ CodeOf(c)' = CodeOf(c)
    BY <1>1 DEF vars, CodeOf, CreditsOf, Running, UsedUp, Bounded
  <2> QED
    BY <2>1 DEF CountInv, Alone, Covered
<1>2. ASSUME NEW c \in Calls, Redeem(c) PROVE CountInv'
  BY <1>2, LookupCount, RunCount
<1> QED
  BY <1>1, <1>2, AdminCount DEF Next

(* Every credit of an undisturbed code is covered by a counted use. *)
THEOREM CreditsCovered == Spec => []CreditsCounted
<1>1. CountInv => CreditsCounted
  BY DEF CountInv, CreditsCounted
<1> QED
  BY <1>1, TypeInit, TypeStep, CountInit, CountStep, PTL DEF Spec
================================================================================
