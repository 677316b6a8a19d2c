---------------------------- MODULE RegistrarProofs ----------------------------
(***************************************************************************)
(* Theorems about Registrar, and about the registrar over the ledger it    *)
(* charges (RegistrarLedger), for every set of calls, tenants, domains and *)
(* prices, with their proofs.                                              *)
(***************************************************************************)
EXTENDS RegistrarLedger, TLAPS

(* Where a call stands decides what it knows of the row it works on.       *)
Stage(c) ==
    /\ target[c] \in Calls =>
         req[target[c]].tenant = req[c].tenant /\ req[target[c]].domain = req[c].domain
    /\ pc[c] \in {"charge", "order", "refund", "persist", "link"} => Registration(c) \in Calls
    /\ pc[c] \in {"drop", "link"} => target[c] \in Calls
    /\ pc[c] = "check" => req[c].kind = "register"

TypeInv == TypeOK /\ \A c \in Calls : Stage(c)

Charged(c) == posted[c] \in {"posted", "existing"}

(* No refund is ever recorded, and a call gets past the charge only with a *)
(* ledger row under its key.                                               *)
PaidInv ==
    /\ refunds = {}
    /\ \A c \in Calls :
        /\ pc[c] = "idle" => c \notin charges /\ posted[c] = "none"
        /\ pc[c] \in {"order", "refund", "persist", "link"} => Charged(c)
        /\ c \in orders => Charged(c)
        /\ Charged(c) => LedgerRow(c) # {}

(* The charge book keeps one row per key, although a call has its key only *)
(* once it has read the row it is about.                                   *)
OneCharge == \A c, d \in charges : KeyOf(c) = KeyOf(d) => c = d

(* What the registrar answered it has granted; a row is written from an    *)
(* answer.                                                                 *)
RowInv ==
    /\ \A c \in Calls : pc[c] = "persist" => c \in orders /\ granted[c] <= years[Registration(c)]
    /\ RowsAreOrders
    /\ ExpiryNotAhead

-------------------------------------------------------------------------------
(* A step other than Begin leaves the keys of the calls as they are.       *)
LEMMA KeysStay ==
    ASSUME UNCHANGED <<req, target>>
    PROVE  \A c \in Calls : KeyOf(c)' = KeyOf(c) /\ Registration(c)' = Registration(c)
BY DEF KeyOf, Registration

(* What the two steps of PostCharge do to the ledger.                      *)
LEMMA ChargeEffect ==
    ASSUME NEW c \in Calls, charges \subseteq Calls
    PROVE  /\ RecordCharge(c) => charges' = charges \cup {c} /\ UNCHANGED posted
           /\ AnswerCharge(c) =>
                /\ UNCHANGED charges
                /\ posted[c] = "none"
                /\ \E v \in Book!Answers \ {"none"} :
                    /\ posted' = [posted EXCEPT ![c] = v]
                    /\ v = "posted" => c \in charges
                    /\ v = "existing" => \E d \in charges : KeyOf(d) = KeyOf(c)
<1>1. ASSUME RecordCharge(c) PROVE charges' = charges \cup {c} /\ UNCHANGED posted
  BY <1>1 DEF RecordCharge, Book!Record
<1>2. ASSUME AnswerCharge(c)
      PROVE  /\ UNCHANGED charges
             /\ posted[c] = "none"
             /\ \E v \in Book!Answers \ {"none"} :
                    /\ posted' = [posted EXCEPT ![c] = v]
                    /\ v = "posted" => c \in charges
                    /\ v = "existing" => \E d \in charges : KeyOf(d) = KeyOf(c)
  <2>1. Book!Answer(c)
    BY <1>2 DEF AnswerCharge
  <2>2. UNCHANGED charges /\ posted[c] = "none"
    BY <2>1 DEF Book!Answer
  <2>3. PICK v \in Book!Answers \ {"none"} :
            /\ v = "posted" => c \in charges
            /\ v = "existing" =>
                 \E d \in charges \ {c} :
                    [x \in Calls |-> KeyOf(x)][d] = [x \in Calls |-> KeyOf(x)][c]
            /\ posted' = [posted EXCEPT ![c] = v]
    BY <2>1 DEF Book!Answer
  <2>4. ASSUME v = "existing" PROVE \E d \in charges : KeyOf(d) = KeyOf(c)
    BY <2>3, <2>4
  <2> QED
    BY <2>2, <2>3, <2>4
<1> QED
  BY <1>1, <1>2

-------------------------------------------------------------------------------
(* The types together with what a call's stage implies.                    *)
LEMMA TypeInit == Init => TypeInv
<1> USE RequestsAssumption, NoRowAssumption
<1> SUFFICES ASSUME Init PROVE TypeInv
  OBVIOUS
<1>1. NoDomainRow \in Row
  BY DEF NoDomainRow, Row
<1>2. TypeOK
  BY <1>1 DEF Init, TypeOK, PCs, Answers, Book!Answers
<1>3. \A c \in Calls : Stage(c)
  BY DEF Init, Stage
<1> QED
  BY <1>2, <1>3 DEF TypeInv

LEMMA TypeStep == TypeInv /\ [Next]_vars => TypeInv'
<1> USE RequestsAssumption, NoRowAssumption
<1> SUFFICES ASSUME TypeInv, [Next]_vars PROVE TypeInv'
  OBVIOUS
<1>t. TypeOK /\ \A c \in Calls : Stage(c)
  BY DEF TypeInv
<1> USE DEF PCs, Answers, Goto, Return, local, ledger, upstream
<1>1. CASE UNCHANGED vars
  BY <1>1, <1>t DEF vars, TypeInv, TypeOK, Stage, Registration
<1>2. ASSUME NEW d \in Domains, RegistryChanges(d) PROVE TypeInv'
  BY <1>2, <1>t DEF RegistryChanges, TypeInv, TypeOK, Stage, Registration
<1>3. ASSUME NEW c \in Calls, Begin(c) \/ Step(c) \/ Crash(c) PROVE TypeInv'
  <2>r. req[c] \in Request /\ req[c].domain \in Domains /\ req[c].period \in Nat
    BY <1>t DEF TypeOK, Request
  <2>1. CASE Begin(c)
    <3>1. TypeOK'
      BY <2>1, <1>t DEF Begin, TypeOK, RowsNamed
    <3>2. ASSUME NEW d \in Calls PROVE Stage(d)'
      BY <2>1, <1>t DEF Begin, TypeOK, RowsNamed, Stage, Registration
    <3> QED
      BY <3>1, <3>2 DEF TypeInv
  <2>2. ASSUME UNCHANGED <<req, target>>, TypeOK',
               \A d \in Calls : d # c => pc'[d] = pc[d],
               pc'[c] # "check",
               pc'[c] \in {"charge", "order", "refund", "persist", "link"} => Registration(c) \in Calls,
               pc'[c] \in {"drop", "link"} => target[c] \in Calls
        PROVE  TypeInv'
    <3>1. ASSUME NEW d \in Calls PROVE Stage(d)'
      <4>1. CASE d # c
        BY <2>2, <4>1, <1>t DEF Stage, Registration
      <4>2. CASE d = c
        BY <2>2, <4>2, <1>t DEF Stage, Registration
      <4> QED
        BY <4>1, <4>2
    <3> QED
      BY <2>2, <3>1 DEF TypeInv
  <2>3. CASE Check(c) \/ Crash(c)
    <3>1. TypeOK'
      BY <2>3, <1>t DEF Check, Crash, TypeOK
    <3> QED
      BY <2>2, <2>3, <3>1, <1>t DEF Check, Crash, TypeOK, Stage, Registration
  <2>4. CASE RecordCharge(c)
    <3>1. UNCHANGED <<local, posted, refunds, upstream, rows>> /\ charges' = charges \cup {c}
      BY <2>4, <1>t, ChargeEffect DEF RecordCharge, TypeOK
    <3>2. TypeOK'
      BY <3>1, <1>t DEF TypeOK
    <3> QED
      BY <2>2, <2>4, <3>1, <3>2, <1>t DEF RecordCharge, TypeOK, Stage
  <2>5. CASE AnswerCharge(c)
    <3>1. UNCHANGED charges /\ posted' \in [Calls -> Book!Answers]
      BY <2>5, <1>t, ChargeEffect DEF TypeOK
    <3>2. TypeOK'
      BY <2>5, <3>1, <1>t DEF AnswerCharge, TypeOK
    <3> QED
      BY <2>2, <2>5, <3>2, <1>t DEF AnswerCharge, TypeOK, Stage
  <2>6. CASE PlaceOrder(c) \/ OrderFails(c)
    <3>1. Registration(c) \in Calls
      BY <2>6, <1>t DEF PlaceOrder, OrderFails, Stage
    <3>2. years' \in [Calls -> Nat] /\ holder' \in [Domains -> Calls \cup {"free", "elsewhere"}]
      BY <2>6, <2>r, <3>1, <1>t DEF PlaceOrder, OrderFails, CarryOut, TypeOK
    <3>3. orders' \in SUBSET Calls /\ granted' \in [Calls -> Nat]
      BY <2>6, <3>1, <3>2, <1>t DEF PlaceOrder, OrderFails, CarryOut, TypeOK
    <3>4. TypeOK'
      BY <2>6, <3>2, <3>3, <1>t DEF PlaceOrder, OrderFails, TypeOK
    <3> QED
      BY <2>2, <2>6, <3>1, <3>4, <1>t DEF PlaceOrder, OrderFails, TypeOK
  <2>7. CASE Refund(c) \/ PersistFails(c)
    <3>1. TypeOK'
      BY <2>7, <1>t DEF Refund, PersistFails, TypeOK
    <3> QED
      BY <2>2, <2>7, <3>1, <1>t DEF Refund, PersistFails, TypeOK
  <2>8. CASE CreateRow(c) \/ SetExpiry(c) \/ SetLedgerLink(c) \/ Drop(c)
    <3>1. ASSUME NEW e \in Nat, NEW l \in SUBSET Calls, NEW p \in BOOLEAN
          PROVE  [present |-> p, expiry |-> e, ledger |-> l] \in Row
      BY DEF Row
    <3>2. LedgerRow(c) \in SUBSET Calls /\ granted[c] \in Nat
      BY <1>t DEF LedgerRow, TypeOK
    <3>3. ASSUME NEW r \in Calls PROVE rows'[r] \in Row
      <4>1. rows[r] \in Row
        BY <1>t DEF TypeOK
      <4>2. NoDomainRow \in Row
        BY <3>1 DEF NoDomainRow
      <4>3. [rows[r] EXCEPT !.expiry = granted[c]] \in Row
        BY <3>2, <4>1 DEF Row
      <4>4. [rows[r] EXCEPT !.ledger = LedgerRow(c)] \in Row
        BY <3>2, <4>1 DEF Row
      <4>5. CASE CreateRow(c)
        BY <4>5, <3>1, <3>2, <4>1, <1>t DEF CreateRow, TypeOK
      <4>6. CASE SetExpiry(c)
        BY <4>6, <4>1, <4>3, <1>t DEF SetExpiry, TypeOK
      <4>7. CASE SetLedgerLink(c)
        BY <4>7, <4>1, <4>4, <1>t DEF SetLedgerLink, TypeOK
      <4>8. CASE Drop(c)
        BY <4>8, <4>1, <4>2, <1>t DEF Drop, TypeOK
      <4> QED
        BY <2>8, <4>5, <4>6, <4>7, <4>8
    <3>4. rows' \in [Calls -> Row]
      BY <2>8, <3>3, <1>t DEF CreateRow, SetExpiry, SetLedgerLink, Drop, TypeOK
    <3>5. TypeOK'
      BY <2>8, <3>4, <1>t DEF CreateRow, SetExpiry, SetLedgerLink, Drop, TypeOK
    <3> QED
      BY <2>2, <2>8, <3>5, <1>t
      DEF CreateRow, SetExpiry, SetLedgerLink, Drop, TypeOK, Stage, Registration
  <2> QED
    BY <1>3, <2>1, <2>3, <2>4, <2>5, <2>6, <2>7, <2>8 DEF Step
<1> QED
  BY <1>1, <1>2, <1>3 DEF Next

LEMMA TypeInvariant == Spec => []TypeInv
BY TypeInit, TypeStep, PTL DEF Spec

(* The tables and the calls' local state keep their types (dns_domains,    *)
(* ledger_entries and the handlers of registrar/service.go).               *)
THEOREM TypeCorrect == Spec => []TypeOK
BY TypeInvariant, PTL DEF TypeInv

-------------------------------------------------------------------------------
(* Nobody is refunded, and an order is placed only by a call whose key has *)
(* a charge.                                                               *)
LEMMA PaidInvariant == Spec => []PaidInv
<1>1. Init => PaidInv
  BY DEF Init, PaidInv, Charged
<1>2. TypeInv /\ PaidInv /\ [Next]_vars => PaidInv'
  <2> SUFFICES ASSUME TypeInv, PaidInv, [Next]_vars PROVE PaidInv'
    OBVIOUS
  <2>t. TypeOK /\ \A c \in Calls : Stage(c)
    BY DEF TypeInv
  <2> USE DEF Goto, Return, local, ledger, upstream
  <2>1. CASE UNCHANGED vars
    BY <2>1 DEF vars, PaidInv, Charged, LedgerRow, KeyOf
  <2>2. ASSUME NEW d \in Domains, RegistryChanges(d) PROVE PaidInv'
    BY <2>2 DEF RegistryChanges, PaidInv, Charged, LedgerRow, KeyOf
  <2>3. ASSUME NEW c \in Calls, Begin(c) \/ Step(c) \/ Crash(c) PROVE PaidInv'
    <3>1. CASE Begin(c)
      <4>1. /\ UNCHANGED <<charges, refunds, posted, orders>>
            /\ pc[c] = "idle" /\ pc'[c] \in {"check", "charge", "drop", "done"}
            /\ \A x \in Calls \ {c} : pc'[x] = pc[x] /\ KeyOf(x)' = KeyOf(x)
        BY <3>1, <2>t DEF Begin, TypeOK, KeyOf
      <4>2. c \notin charges /\ posted[c] = "none"
        BY <4>1 DEF PaidInv
      <4>3. ASSUME NEW d \in Calls, Charged(d) PROVE LedgerRow(d)' # {}
        <5>1. d # c
          BY <4>2, <4>3 DEF Charged
        <5>2. PICK e \in charges : KeyOf(e) = KeyOf(d)
          BY <4>3 DEF PaidInv, LedgerRow
        <5>3. e \in Calls /\ e # c
          BY <4>2, <2>t DEF TypeOK
        <5> QED
          BY <4>1, <5>1, <5>2, <5>3 DEF LedgerRow
      <4> QED
        BY <4>1, <4>2, <4>3 DEF PaidInv, Charged
    <3>2. CASE RecordCharge(c)
      <4>1. /\ UNCHANGED <<local, posted, refunds, upstream>>
            /\ charges' = charges \cup {c} /\ pc[c] = "charge"
        BY <3>2, <2>t, ChargeEffect DEF RecordCharge, TypeOK
      <4>2. \A d \in Calls : KeyOf(d)' = KeyOf(d)
        BY <4>1, KeysStay
      <4>3. \A d \in Calls : LedgerRow(d) \subseteq LedgerRow(d)'
        BY <4>1, <4>2, <2>t DEF LedgerRow, TypeOK
      <4> QED
        BY <4>1, <4>3 DEF PaidInv, Charged
    <3>3. CASE AnswerCharge(c)
      <4>1. UNCHANGED <<req, target, charges, refunds, orders>> /\ posted[c] = "none"
        BY <3>3, <2>t, ChargeEffect DEF AnswerCharge, TypeOK
      <4>2. PICK v : /\ posted' = [posted EXCEPT ![c] = v]
                     /\ v = "posted" => c \in charges
                     /\ v = "existing" => \E d \in charges : KeyOf(d) = KeyOf(c)
        BY <3>3, <2>t, ChargeEffect DEF TypeOK
      <4>3. posted'[c] = v /\ \A d \in Calls : d # c => posted'[d] = posted[d] /\ pc'[d] = pc[d]
        BY <3>3, <4>2, <2>t DEF AnswerCharge, TypeOK
      <4>4. \A d \in Calls : KeyOf(d)' = KeyOf(d)
        BY <4>1, KeysStay
      <4>5. \A d \in Calls : LedgerRow(d)' = LedgerRow(d)
        BY <4>1, <4>4, <2>t DEF LedgerRow, TypeOK
      <4>6. /\ pc'[c] # "idle"
            /\ pc'[c] \in {"order", "refund", "persist", "link"} => v \in {"posted", "existing"}
        BY <3>3, <4>3, <2>t DEF AnswerCharge, TypeOK
      <4>7. v \in {"posted", "existing"} => LedgerRow(c) # {}
        BY <4>2 DEF LedgerRow
      <4>8. c \notin orders
        BY <4>1 DEF PaidInv, Charged
      <4> QED
        BY <4>1, <4>3, <4>5, <4>6, <4>7, <4>8 DEF PaidInv, Charged
    <3>4. ASSUME UNCHANGED <<req, target, charges, refunds, posted>>,
                 \A d \in Calls : d # c => pc'[d] = pc[d],
                 pc'[c] # "idle",
                 pc'[c] \in {"order", "refund", "persist", "link"} =>
                     pc[c] \in {"order", "refund", "persist", "link"},
                 \/ orders' = orders
                 \/ /\ orders' = orders \cup {c}
                    /\ pc[c] \in {"order", "refund", "persist", "link"}
          PROVE  PaidInv'
      <4>1. \A d \in Calls : KeyOf(d)' = KeyOf(d)
        BY <3>4, KeysStay
      <4>2. \A d \in Calls : LedgerRow(d)' = LedgerRow(d)
        BY <3>4, <4>1, <2>t DEF LedgerRow, TypeOK
      <4> QED
        BY <3>4, <4>2 DEF PaidInv, Charged
    <3>5. CASE Check(c) \/ Crash(c)
      BY <3>4, <3>5, <2>t DEF Check, Crash, TypeOK
    <3>6. CASE PlaceOrder(c) \/ OrderFails(c)
      BY <3>4, <3>6, <2>t DEF PlaceOrder, OrderFails, CarryOut, TypeOK
    <3>7. CASE Refund(c)
      <4>1. Amount(c) \in Nat
        BY <2>t, YearPriceAssumption, RequestsAssumption DEF Amount, TypeOK, Request
      <4>2. UNCHANGED refunds
        BY <3>7, <4>1 DEF Refund, ValidAmount
      <4> QED
        BY <3>4, <3>7, <4>2, <2>t DEF Refund, TypeOK
    <3>8. CASE CreateRow(c) \/ SetExpiry(c) \/ PersistFails(c)
      BY <3>4, <3>8, <2>t DEF CreateRow, SetExpiry, PersistFails, TypeOK
    <3>9. CASE SetLedgerLink(c) \/ Drop(c)
      BY <3>4, <3>9, <2>t DEF SetLedgerLink, Drop, TypeOK
    <3> QED
      BY <2>3, <3>1, <3>2, <3>3, <3>5, <3>6, <3>7, <3>8, <3>9 DEF Step
  <2> QED
    BY <2>1, <2>2, <2>3 DEF Next
<1> QED
  BY <1>1, <1>2, TypeInvariant, PTL DEF Spec

LEMMA OneChargeInvariant == Spec => []OneCharge
<1>1. Init => OneCharge
  BY DEF Init, OneCharge
<1>2. TypeInv /\ PaidInv /\ OneCharge /\ [Next]_vars => OneCharge'
  <2> SUFFICES ASSUME TypeInv, PaidInv, OneCharge, [Next]_vars PROVE OneCharge'
    OBVIOUS
  <2>t. TypeOK
    BY DEF TypeInv
  <2> USE DEF Goto, Return, local, ledger, upstream
  <2>1. ASSUME UNCHANGED <<req, target, charges>> PROVE OneCharge'
    BY <2>1 DEF OneCharge, KeyOf
  <2>2. CASE UNCHANGED vars
    BY <2>1, <2>2 DEF vars
  <2>3. ASSUME NEW d \in Domains, RegistryChanges(d) PROVE OneCharge'
    BY <2>1, <2>3 DEF RegistryChanges
  <2>4. ASSUME NEW c \in Calls, Begin(c) \/ Step(c) \/ Crash(c) PROVE OneCharge'
    <3>1. CASE Begin(c)
      <4>1. UNCHANGED <<req, charges>> /\ c \notin charges
        BY <3>1 DEF Begin, PaidInv
      <4>2. \A x \in charges : KeyOf(x)' = KeyOf(x)
        BY <3>1, <4>1, <2>t DEF Begin, KeyOf, TypeOK
      <4> QED
        BY <4>1, <4>2 DEF OneCharge
    <3>2. CASE RecordCharge(c)
      <4>1. /\ UNCHANGED <<req, target>> /\ charges' = charges \cup {c}
            /\ Book!KeyFree(c)
        BY <3>2 DEF RecordCharge, Book!Record
      <4>2. KeyOf(c) # NoKey
        <5>1. req[c] \in Request /\ target[c] \in Calls \cup {NoRow}
          BY <2>t, RequestsAssumption DEF TypeOK
        <5>2. KeyOf(c) \in Kinds \X Tenants \X Domains \X (Calls \cup {NoRow}) \X (1..10)
          BY <5>1 DEF KeyOf, Request
        <5> QED
          BY <5>2, NoKeyAssumption
      <4>3. \A d \in charges : KeyOf(d) # KeyOf(c)
        BY <4>1, <4>2, <2>t DEF Book!KeyFree, TypeOK
      <4>4. \A x \in Calls : KeyOf(x)' = KeyOf(x)
        BY <4>1, KeysStay
      <4> QED
        BY <4>1, <4>3, <4>4, <2>t DEF OneCharge, TypeOK
    <3>3. CASE AnswerCharge(c)
      BY <2>1, <3>3, <2>t, ChargeEffect DEF AnswerCharge, TypeOK
    <3>4. CASE Check(c) \/ Crash(c) \/ PlaceOrder(c) \/ OrderFails(c) \/ Refund(c)
      BY <2>1, <3>4 DEF Check, Crash, PlaceOrder, OrderFails, Refund
    <3>5. CASE CreateRow(c) \/ SetExpiry(c) \/ PersistFails(c) \/ SetLedgerLink(c) \/ Drop(c)
      BY <2>1, <3>5 DEF CreateRow, SetExpiry, PersistFails, SetLedgerLink, Drop
    <3> QED
      BY <2>4, <3>1, <3>2, <3>3, <3>4, <3>5 DEF Step
  <2> QED
    BY <2>2, <2>3, <2>4 DEF Next
<1> QED
  BY <1>1, <1>2, TypeInvariant, PaidInvariant, PTL DEF Spec

(* The ledger row of a charged call is one row, a charge of the call's     *)
(* tenant for the call's domain.                                           *)
LEMMA TheLedgerRow ==
    ASSUME TypeInv, OneCharge, PaidInv, NEW c \in Calls, Charged(c)
    PROVE  \E d \in charges : /\ LedgerRow(c) = {d}
                              /\ req[d].tenant = req[c].tenant
                              /\ req[d].domain = req[c].domain
<1>1. PICK d \in charges : KeyOf(d) = KeyOf(c)
  BY DEF PaidInv, LedgerRow
<1>2. LedgerRow(c) = {d}
  BY <1>1 DEF LedgerRow, OneCharge
<1> QED
  BY <1>1, <1>2 DEF KeyOf

(* An order the registrar carried out stays paid for: its key has one      *)
(* charge and no refund, for any number of racing, failing and repeated calls     *)
(* (RegisterDomain, RenewDomain, TransferDomain).                          *)
THEOREM OrdersPaid == Spec => []OrdersStayPaid
<1>1. TypeInv /\ OneCharge /\ PaidInv => OrdersStayPaid
  <2> SUFFICES ASSUME TypeInv, OneCharge, PaidInv, NEW c \in orders
               PROVE  /\ \E d \in charges : LedgerRow(c) = {d}
                      /\ \A e \in refunds : KeyOf(e) # KeyOf(c)
    BY DEF OrdersStayPaid
  <2>1. c \in Calls /\ Charged(c) /\ refunds = {}
    BY DEF TypeInv, TypeOK, PaidInv
  <2> QED
    BY <2>1, TheLedgerRow
<1> QED
  BY <1>1, TypeInvariant, PaidInvariant, OneChargeInvariant, PTL

-------------------------------------------------------------------------------

(* Orders, charges and granted years are never taken back.                 *)
LEMMA NothingTakenBack ==
    ASSUME TypeInv, [Next]_vars
    PROVE  /\ UNCHANGED req
           /\ orders \subseteq orders'
           /\ charges \subseteq charges'
           /\ \A r \in Calls : years[r] <= years'[r]
<1>t. TypeOK /\ \A c \in Calls : Stage(c)
  BY DEF TypeInv
<1> USE DEF Goto, Return, local, ledger, upstream
<1>r. \A r \in Calls : years[r] \in Nat
  BY <1>t DEF TypeOK
<1>1. CASE UNCHANGED vars
  BY <1>1, <1>r DEF vars
<1>2. ASSUME NEW d \in Domains, RegistryChanges(d)
      PROVE  UNCHANGED <<req, orders, charges, years>>
  BY <1>2 DEF RegistryChanges
<1>3. ASSUME NEW c \in Calls, CarryOut(c)
      PROVE  orders \subseteq orders' /\ \A r \in Calls : years[r] <= years'[r]
  <2>1. req[c].period \in Nat
    BY <1>t, RequestsAssumption DEF TypeOK, Request
  <2> QED
    BY <1>3, <1>r, <1>t, <2>1 DEF CarryOut, TypeOK
<1>4. ASSUME NEW c \in Calls, Begin(c) \/ Step(c) \/ Crash(c)
      PROVE  /\ UNCHANGED req
             /\ orders \subseteq orders'
             /\ charges \subseteq charges'
             /\ \A r \in Calls : years[r] <= years'[r]
  <2>1. CASE Begin(c) \/ Check(c) \/ Crash(c)
    BY <2>1, <1>r DEF Begin, Check, Crash
  <2>2. CASE RecordCharge(c) \/ AnswerCharge(c)
    BY <2>2, <1>r, <1>t, ChargeEffect DEF RecordCharge, AnswerCharge, TypeOK
  <2>3. CASE PlaceOrder(c) \/ OrderFails(c)
    BY <2>3, <1>r, <1>3 DEF PlaceOrder, OrderFails
  <2>4. CASE Refund(c) \/ CreateRow(c) \/ SetExpiry(c) \/ PersistFails(c)
    BY <2>4, <1>r DEF Refund, CreateRow, SetExpiry, PersistFails
  <2>5. CASE SetLedgerLink(c) \/ Drop(c)
    BY <2>5, <1>r DEF SetLedgerLink, Drop
  <2> QED
    BY <1>4, <2>1, <2>2, <2>3, <2>4, <2>5 DEF Step
<1> QED
  BY <1>1, <1>2, <1>3, <1>4, <1>r DEF Next

(* A call that holds an answer of the registrar has had its order carried  *)
(* out and holds no more than was granted.                                 *)
LEMMA AnswersStayTrue ==
    ASSUME TypeInv, TypeInv', RowInv, [Next]_vars, NEW d \in Calls, pc'[d] = "persist"
    PROVE  d \in orders' /\ granted'[d] <= years'[Registration(d)']
<1>t. TypeOK /\ \A c \in Calls : Stage(c)
  BY DEF TypeInv
<1> USE DEF Goto, Return, local, ledger, upstream
<1>a. ASSUME UNCHANGED <<req, target>>, granted'[d] = granted[d], pc[d] = "persist"
      PROVE  d \in orders' /\ granted'[d] <= years'[Registration(d)']
  <2>1. d \in orders /\ granted[d] <= years[Registration(d)]
    BY <1>a DEF RowInv
  <2>2. Registration(d) \in Calls /\ Registration(d)' = Registration(d)
    BY <1>a, <1>t DEF Stage, Registration
  <2>3. orders \subseteq orders' /\ years[Registration(d)] <= years'[Registration(d)]
    BY <2>2, NothingTakenBack
  <2>4. /\ granted[d] \in Nat /\ years[Registration(d)] \in Nat
        /\ years'[Registration(d)] \in Int
    BY <2>2, <1>t DEF TypeInv, TypeOK
  <2> QED
    BY <1>a, <2>1, <2>2, <2>3, <2>4
<1>1. ASSUME UNCHANGED <<req, target, granted>>, pc[d] = "persist"
      PROVE  d \in orders' /\ granted'[d] <= years'[Registration(d)']
  BY <1>1, <1>a
<1>2. CASE UNCHANGED vars
  BY <1>1, <1>2 DEF vars
<1>3. ASSUME NEW e \in Domains, RegistryChanges(e)
      PROVE  d \in orders' /\ granted'[d] <= years'[Registration(d)']
  BY <1>1, <1>3 DEF RegistryChanges
<1>4. ASSUME NEW c \in Calls, Begin(c) \/ Step(c) \/ Crash(c)
      PROVE  d \in orders' /\ granted'[d] <= years'[Registration(d)']
  <2>1. CASE Begin(c)
    <3>1. pc'[c] # "persist"
      BY <2>1, <1>t DEF Begin, TypeOK
    <3>2. d # c /\ pc[d] = "persist" /\ UNCHANGED <<orders, granted, years, req>>
      BY <2>1, <3>1, <1>t DEF Begin, TypeOK
    <3>3. Registration(d)' = Registration(d)
      BY <2>1, <3>2, <1>t DEF Begin, Registration, TypeOK
    <3> QED
      BY <3>2, <3>3 DEF RowInv
  <2>2. CASE PlaceOrder(c)
    <3>1. CASE d = c
      <4>1. UNCHANGED <<req, target>> /\ granted'[c] = years'[Registration(c)] /\ c \in orders'
        BY <2>2, <1>t DEF PlaceOrder, CarryOut, TypeOK
      <4>2. Registration(c) \in Calls /\ Registration(c)' = Registration(c)
        BY <2>2, <4>1, <1>t DEF PlaceOrder, Stage, Registration
      <4> QED
        BY <3>1, <4>1, <4>2 DEF TypeInv, TypeOK
    <3>2. CASE d # c
      <4>1. pc[d] = "persist" /\ granted'[d] = granted[d] /\ UNCHANGED <<req, target>>
        BY <2>2, <3>2, <1>t DEF PlaceOrder, TypeOK
      <4> QED
        BY <1>a, <4>1
    <3> QED
      BY <3>1, <3>2
  <2>3. CASE Check(c) \/ Crash(c) \/ RecordCharge(c) \/ AnswerCharge(c) \/ OrderFails(c)
    BY <1>1, <2>3, <1>t
    DEF Check, Crash, RecordCharge, AnswerCharge, OrderFails, TypeOK
  <2>4. CASE Refund(c) \/ CreateRow(c) \/ SetExpiry(c) \/ PersistFails(c)
    BY <1>1, <2>4, <1>t DEF Refund, CreateRow, SetExpiry, PersistFails, TypeOK
  <2>5. CASE SetLedgerLink(c) \/ Drop(c)
    BY <1>1, <2>5, <1>t DEF SetLedgerLink, Drop, TypeOK
  <2> QED
    BY <1>4, <2>1, <2>2, <2>3, <2>4, <2>5 DEF Step
<1> QED
  BY <1>2, <1>3, <1>4 DEF Next

(* How the row of a registration may change in one step.                   *)
RowChange(r) ==
    \/ rows'[r] = rows[r]
    \/ ~rows'[r].present
    \/ /\ ~rows[r].present
       /\ pc[r] = "persist" /\ req[r].kind # "renew"
       /\ RowsNamed(req[r].tenant, req[r].domain) = {}
       /\ rows'[r] = [present |-> TRUE, expiry |-> granted[r], ledger |-> LedgerRow(r)]
    \/ \E c \in Calls :
        /\ pc[c] = "persist" /\ req[c].kind = "renew" /\ target[c] = r
        /\ rows[r].present /\ rows'[r] = [rows[r] EXCEPT !.expiry = granted[c]]
    \/ \E c \in Calls :
        /\ pc[c] = "link" /\ target[c] = r
        /\ rows[r].present /\ rows'[r] = [rows[r] EXCEPT !.ledger = LedgerRow(c)]

LEMMA RowsChange ==
    ASSUME TypeInv, [Next]_vars
    PROVE  /\ \A r \in Calls : RowChange(r)
           /\ \A q, r \in Calls :
                rows'[q] # rows[q] /\ rows'[r] # rows[r] => q = r
<1>t. TypeOK /\ \A c \in Calls : Stage(c)
  BY DEF TypeInv
<1> USE DEF Goto, Return, local, ledger, upstream
<1>1. ASSUME UNCHANGED rows
      PROVE  /\ \A r \in Calls : RowChange(r)
             /\ \A q, r \in Calls :
                  rows'[q] # rows[q] /\ rows'[r] # rows[r] => q = r
  BY <1>1 DEF RowChange
<1>2. CASE UNCHANGED vars
  BY <1>1, <1>2 DEF vars
<1>3. ASSUME NEW d \in Domains, RegistryChanges(d) PROVE UNCHANGED rows
  BY <1>3 DEF RegistryChanges
<1>4. ASSUME NEW c \in Calls, Begin(c) \/ Step(c) \/ Crash(c)
      PROVE  /\ \A r \in Calls : RowChange(r)
             /\ \A q, r \in Calls :
                  rows'[q] # rows[q] /\ rows'[r] # rows[r] => q = r
  <2>1. CASE Begin(c) \/ Check(c) \/ Crash(c) \/ RecordCharge(c) \/ AnswerCharge(c)
    BY <1>1, <2>1 DEF Begin, Check, Crash, RecordCharge, AnswerCharge
  <2>2. CASE PlaceOrder(c) \/ OrderFails(c) \/ Refund(c) \/ PersistFails(c)
    BY <1>1, <2>2 DEF PlaceOrder, OrderFails, Refund, PersistFails
  <2>a. ASSUME NEW r \in Calls, \A q \in Calls : q # r => rows'[q] = rows[q], RowChange(r)
        PROVE  /\ \A q \in Calls : RowChange(q)
               /\ \A p, q \in Calls :
                    rows'[p] # rows[p] /\ rows'[q] # rows[q] => p = q
    <3>1. ASSUME NEW q \in Calls, q # r PROVE rows'[q] = rows[q] /\ RowChange(q)
      <4>1. rows'[q] = rows[q]
        BY <2>a, <3>1
      <4> QED
        BY <4>1 DEF RowChange
    <3> QED
      BY <2>a, <3>1
  <2>3. CASE CreateRow(c)
    <3>1. ~rows[c].present
      BY <2>3 DEF CreateRow, RowsNamed
    <3>2. RowChange(c) /\ \A q \in Calls : q # c => rows'[q] = rows[q]
      BY <2>3, <3>1, <1>t DEF CreateRow, RowChange, TypeOK
    <3> QED
      BY <2>a, <3>2
  <2>4. CASE SetExpiry(c)
    <3>1. target[c] \in Calls
      BY <2>4, <1>t DEF SetExpiry, Stage, Registration
    <3>2. RowChange(target[c]) /\ \A q \in Calls : q # target[c] => rows'[q] = rows[q]
      BY <2>4, <3>1, <1>t DEF SetExpiry, RowChange, TypeOK
    <3> QED
      BY <2>a, <3>1, <3>2
  <2>5. CASE SetLedgerLink(c)
    <3>1. target[c] \in Calls
      BY <2>5, <1>t DEF SetLedgerLink, Stage
    <3>2. RowChange(target[c]) /\ \A q \in Calls : q # target[c] => rows'[q] = rows[q]
      BY <2>5, <3>1, <1>t DEF SetLedgerLink, RowChange, TypeOK
    <3> QED
      BY <2>a, <3>1, <3>2
  <2>6. CASE Drop(c)
    <3>1. target[c] \in Calls
      BY <2>6, <1>t DEF Drop, Stage
    <3>2. RowChange(target[c]) /\ \A q \in Calls : q # target[c] => rows'[q] = rows[q]
      BY <2>6, <3>1, <1>t DEF Drop, RowChange, NoDomainRow, TypeOK
    <3> QED
      BY <2>a, <3>1, <3>2
  <2> QED
    BY <1>4, <2>1, <2>2, <2>3, <2>4, <2>5, <2>6 DEF Step
<1> QED
  BY <1>1, <1>2, <1>3, <1>4 DEF Next

(* What one row of dns_domains says is true.                               *)
RowTrue(r) ==
    rows[r].present =>
        /\ r \in orders
        /\ \E d \in charges : /\ rows[r].ledger = {d}
                              /\ req[d].tenant = req[r].tenant
                              /\ req[d].domain = req[r].domain
        /\ rows[r].expiry <= years[r]

SameName(q, r) == req[q].tenant = req[r].tenant /\ req[q].domain = req[r].domain

Unique == \A q, r \in Calls :
            rows[q].present /\ rows[r].present /\ SameName(q, r) => q = r

LEMMA RowInvParts ==
    RowInv <=> /\ \A c \in Calls :
                    pc[c] = "persist" => c \in orders /\ granted[c] <= years[Registration(c)]
               /\ \A r \in Calls : RowTrue(r)
               /\ Unique
BY DEF RowInv, RowsAreOrders, ExpiryNotAhead, RowTrue, Unique, SameName, RowsNamed

LEMMA RowInvariant == Spec => []RowInv
<1>1. Init => RowInv
  BY RowInvParts DEF Init, NoDomainRow, RowTrue, Unique
<1>2. TypeInv /\ TypeInv' /\ PaidInv /\ OneCharge /\ RowInv /\ [Next]_vars => RowInv'
  <2> SUFFICES ASSUME TypeInv, TypeInv', PaidInv, OneCharge, RowInv, [Next]_vars PROVE RowInv'
    OBVIOUS
  <2>t. TypeOK /\ TypeOK' /\ \A c \in Calls : Stage(c)
    BY DEF TypeInv
  <2>1. \A c \in Calls : pc'[c] = "persist" =>
            c \in orders' /\ granted'[c] <= years'[Registration(c)']
    BY AnswersStayTrue
  <2>2. ASSUME NEW r \in Calls PROVE RowTrue(r)'
    <3> SUFFICES ASSUME rows'[r].present PROVE RowTrue(r)'
      BY DEF RowTrue
    <3>m. /\ UNCHANGED req
          /\ orders \subseteq orders' /\ charges \subseteq charges' /\ years[r] <= years'[r]
      BY NothingTakenBack
    <3>n. years[r] \in Nat /\ years'[r] \in Nat /\ rows[r].expiry \in Nat
      BY <2>t DEF TypeOK, Row
    <3>1. RowTrue(r)
      BY RowInvParts
    <3>2. CASE rows'[r] = rows[r]
      BY <3>1, <3>2, <3>m, <3>n DEF RowTrue
    <3>3. CASE /\ pc[r] = "persist" /\ req[r].kind # "renew"
               /\ rows'[r] = [present |-> TRUE, expiry |-> granted[r], ledger |-> LedgerRow(r)]
      <4>1. r \in orders /\ granted[r] <= years[r] /\ granted[r] \in Nat
        BY <3>3, <2>t DEF RowInv, Registration, TypeOK
      <4>2. \E d \in charges : /\ LedgerRow(r) = {d}
                               /\ req[d].tenant = req[r].tenant /\ req[d].domain = req[r].domain
        BY <3>3, TheLedgerRow DEF PaidInv
      <4> QED
        BY <3>3, <4>1, <4>2, <3>m, <3>n DEF RowTrue
    <3>4. ASSUME NEW c \in Calls, pc[c] = "persist", req[c].kind = "renew", target[c] = r,
                 rows[r].present, rows'[r] = [rows[r] EXCEPT !.expiry = granted[c]]
          PROVE  RowTrue(r)'
      <4>1. granted[c] <= years[r] /\ granted[c] \in Nat
        BY <3>4, <2>t DEF RowInv, Registration, TypeOK
      <4>2. rows'[r].expiry = granted[c] /\ rows'[r].ledger = rows[r].ledger
        BY <3>4, <2>t DEF TypeOK, Row
      <4> QED
        BY <3>1, <3>4, <4>1, <4>2, <3>m, <3>n DEF RowTrue
    <3>5. ASSUME NEW c \in Calls, pc[c] = "link", target[c] = r,
                 rows[r].present, rows'[r] = [rows[r] EXCEPT !.ledger = LedgerRow(c)]
          PROVE  RowTrue(r)'
      <4>1. \E d \in charges : /\ LedgerRow(c) = {d}
                               /\ req[d].tenant = req[c].tenant /\ req[d].domain = req[c].domain
        BY <3>5, TheLedgerRow DEF PaidInv
      <4>2. req[c].tenant = req[r].tenant /\ req[c].domain = req[r].domain
        BY <3>5, <2>t DEF Stage
      <4>3. rows'[r].expiry = rows[r].expiry /\ rows'[r].ledger = LedgerRow(c)
        BY <3>5, <2>t DEF TypeOK, Row
      <4> QED
        BY <3>1, <3>5, <4>1, <4>2, <4>3, <3>m, <3>n DEF RowTrue
    <3> QED
      BY <3>2, <3>3, <3>4, <3>5, RowsChange DEF RowChange
  <2>3. Unique'
    <3> SUFFICES ASSUME NEW q \in Calls, NEW r \in Calls,
                        rows'[q].present, rows'[r].present, SameName(q, r)', q # r
                 PROVE  FALSE
      BY DEF Unique
    <3>1. Unique /\ SameName(q, r) /\ SameName(r, q)
      BY RowInvParts, NothingTakenBack DEF SameName
    <3>2. rows'[q] = rows[q] \/ rows'[r] = rows[r]
      BY RowsChange
    <3>3. ASSUME NEW x \in Calls, NEW y \in Calls, x # y, SameName(x, y),
                 rows'[x] = rows[x], rows'[x].present, rows'[y].present
          PROVE  FALSE
      <4>1. ~rows[y].present
        BY <3>1, <3>3 DEF Unique
      <4>2. RowsNamed(req[y].tenant, req[y].domain) = {}
        BY <3>3, <4>1, RowsChange DEF RowChange
      <4> QED
        BY <3>3, <4>2 DEF RowsNamed, SameName
    <3> QED
      BY <3>1, <3>2, <3>3
  <2> QED
    BY <2>1, <2>2, <2>3
    DEF RowInv, RowsAreOrders, ExpiryNotAhead, RowTrue, Unique, SameName, RowsNamed
<1> QED
  BY <1>1, <1>2, TypeInvariant, PaidInvariant, OneChargeInvariant, PTL DEF Spec

(* The cached expires_at is never later than what the registrar granted,   *)
(* however renewals overlap and fail (RenewDomain, SetDNSDomainExpiry).    *)
THEOREM NeverAhead == Spec => []ExpiryNotAhead
BY RowInvariant, PTL DEF RowInv

(* Every row stands for a registration carried out upstream, names one     *)
(* charge, of its tenant and for its domain, and is the tenant's only row  *)
(* of the domain (CreateRow, SetExpiry, SetLedgerLink, Drop).              *)
THEOREM RowsTrue == Spec => []RowsAreOrders
BY RowInvariant, PTL DEF RowInv
-------------------------------------------------------------------------------
(* RegistrarLedger: the orders over the statements of PostCharge.          *)

(* Where a call's PostCharge stands, and what it has returned, says        *)
(* whether the call's charge is in the ledger.                             *)
ChargeTrue(c) ==
    /\ returned[c] = "none" <=> statement[c] # "done"
    /\ statement[c] \in {"idle", "lookup", "insert", "relookup"} => c \notin charges
    /\ statement[c] \in {"sum", "prior", "upsert"} \/ returned[c] = "posted" => c \in charges
    /\ returned[c] \in {"existing", "duplicate"} => c \notin charges
    /\ returned[c] = "existing" => \E d \in charges : KeyOf(d) = KeyOf(c)
    /\ returned[c] # "rebuilt"
    /\ returned[c] = "crashed" => pc[c] = "done"
    /\ pc[c] \in {"idle", "check"} => statement[c] = "idle"
    /\ pc[c] \in {"idle", "check", "charge"} => posted[c] = "none"

LinkInv ==
    /\ statement \in [Calls -> Ledger!PCs]
    /\ returned \in [Calls -> Ledger!Answers]
    /\ \A c \in Calls : ChargeTrue(c)

(* A statement of one call's PostCharge that keeps that call's facts keeps *)
(* those of all.                                                           *)
LEMMA OthersKeepTrue ==
    ASSUME LinkInv, charges \subseteq Calls, NEW c \in Calls,
           UNCHANGED <<req, target, pc, posted>>,
           charges' \in {charges, charges \cup {c}},
           NEW l \in Ledger!PCs, statement' = [statement EXCEPT ![c] = l],
           NEW v \in Ledger!Answers, returned' = [returned EXCEPT ![c] = v],
           ChargeTrue(c)'
    PROVE  LinkInv'
<1>1. \A d \in Calls : KeyOf(d)' = KeyOf(d)
  BY KeysStay
<1>2. statement' \in [Calls -> Ledger!PCs] /\ returned' \in [Calls -> Ledger!Answers]
  BY DEF LinkInv
<1>3. ASSUME NEW d \in Calls, d # c PROVE ChargeTrue(d)'
  <2>1. ChargeTrue(d) /\ statement'[d] = statement[d] /\ returned'[d] = returned[d]
    BY <1>3 DEF LinkInv
  <2>2. d \in charges' <=> d \in charges
    BY <1>3
  <2>3. (\E e \in charges : KeyOf(e) = KeyOf(d)) => \E e \in charges' : KeyOf(e)' = KeyOf(d)'
    BY <1>1
  <2> QED
    BY <2>1, <2>2, <2>3 DEF ChargeTrue
<1> QED
  BY <1>2, <1>3 DEF LinkInv

(* A statement of c's PostCharge ends before statement l with return v,    *)
(* and that is true of the ledger.                                         *)
Moves(c, l, v) ==
    /\ l \in Ledger!PCs /\ statement' = [statement EXCEPT ![c] = l]
    /\ v \in Ledger!Answers /\ returned' = [returned EXCEPT ![c] = v]
    /\ v = "none" <=> l # "done"
    /\ l \in {"idle", "lookup", "insert", "relookup"} => c \notin charges
    /\ l \in {"sum", "prior", "upsert"} \/ v = "posted" => c \in charges
    /\ v \in {"existing", "duplicate"} => c \notin charges
    /\ v = "existing" => \E d \in charges : KeyOf(d) = KeyOf(c)
    /\ v \notin {"rebuilt", "crashed"}

(* The statements of PostCharge that leave the ledger as it is.            *)
LEMMA QuietStatements ==
    ASSUME LinkInv, charges \subseteq Calls, NEW c \in Calls, pc[c] = "charge",
           UNCHANGED <<req, target, pc, posted>>,
           \/ Ledger!Begin(c) \/ Ledger!LookupKey(c) \/ Ledger!InsertConflicts(c)
           \/ Ledger!LookupWinner(c) \/ Ledger!SumForUser(c) \/ Ledger!ReadPrior(c)
           \/ Ledger!Upsert(c) \/ Ledger!RefreshFails(c)
    PROVE  LinkInv' /\ UNCHANGED charges
<1> USE DEF Ledger!Goto, Ledger!Return, Ledger!PCs, Ledger!Answers
<1>t. /\ statement \in [Calls -> Ledger!PCs] /\ returned \in [Calls -> Ledger!Answers]
      /\ ChargeTrue(c) /\ \A d \in Calls : KeyOf(d)' = KeyOf(d)
  BY KeysStay DEF LinkInv
<1>k. [x \in Calls |-> ChargeOf(x)][c].kind = "charge"
  BY DEF ChargeOf
<1>1. UNCHANGED charges
  BY DEF Ledger!Begin, Ledger!LookupKey, Ledger!InsertConflicts, Ledger!LookupWinner,
         Ledger!SumForUser, Ledger!ReadPrior, Ledger!Upsert, Ledger!RefreshFails
<1>2. ASSUME NEW l, NEW v, Moves(c, l, v) PROVE LinkInv'
  <2>1. statement'[c] = l /\ returned'[c] = v
    BY <1>2, <1>t DEF Moves
  <2>2. v = "existing" => \E d \in charges' : KeyOf(d)' = KeyOf(c)'
    BY <1>1, <1>2, <1>t DEF Moves
  <2>3. ChargeTrue(c)'
    BY <1>1, <1>2, <1>t, <2>1, <2>2 DEF ChargeTrue, Moves
  <2> QED
    BY <1>1, <1>2, <2>3, OthersKeepTrue DEF Moves
<1>r. returned = [returned EXCEPT ![c] = returned[c]]
  BY <1>t
<1>3. CASE Ledger!Begin(c)
  <2>1. /\ statement[c] = "idle" /\ UNCHANGED returned /\ returned[c] = "none"
        /\ \E l \in {"lookup", "insert"} : statement' = [statement EXCEPT ![c] = l]
    BY <1>3, <1>k, <1>t DEF Ledger!Begin, ChargeTrue
  <2>2. \E l : Moves(c, l, "none")
    BY <1>r, <1>t, <2>1 DEF Moves, ChargeTrue
  <2> QED
    BY <1>1, <1>2, <2>2
<1>4. CASE Ledger!LookupKey(c) \/ Ledger!LookupWinner(c)
  <2>1. statement[c] \in {"lookup", "relookup"} /\ c \notin charges /\ returned[c] = "none"
    BY <1>4, <1>t DEF Ledger!LookupKey, Ledger!LookupWinner, ChargeTrue
  <2>2. Ledger!VisibleWithKey(c) # {} => \E d \in charges : KeyOf(d) = KeyOf(c)
    BY DEF Ledger!VisibleWithKey, Ledger!KeyOf, ChargeOf
  <2>3. \/ /\ statement' = [statement EXCEPT ![c] = "insert"] /\ UNCHANGED returned
        \/ /\ statement' = [statement EXCEPT ![c] = "done"]
           /\ \E v \in {"existing", "duplicate", "error"} :
                /\ returned' = [returned EXCEPT ![c] = v]
                /\ v = "existing" => Ledger!VisibleWithKey(c) # {}
    BY <1>4 DEF Ledger!LookupKey, Ledger!LookupWinner
  <2>4. Moves(c, "insert", "none") \/ \E v : Moves(c, "done", v)
    BY <1>r, <2>1, <2>2, <2>3 DEF Moves
  <2> QED
    BY <1>1, <1>2, <2>4
<1>5. CASE Ledger!InsertConflicts(c)
  <2>1. /\ statement[c] = "insert" /\ c \notin charges /\ returned[c] = "none"
        /\ statement' = [statement EXCEPT ![c] = "relookup"] /\ UNCHANGED returned
    BY <1>5, <1>t DEF Ledger!InsertConflicts, ChargeTrue
  <2>2. Moves(c, "relookup", "none")
    BY <1>r, <2>1 DEF Moves
  <2> QED
    BY <1>1, <1>2, <2>2
<1>6. CASE Ledger!SumForUser(c) \/ Ledger!ReadPrior(c)
  <2>1. statement[c] \in {"sum", "prior"} /\ c \in charges /\ returned[c] = "none"
    BY <1>6, <1>t DEF Ledger!SumForUser, Ledger!ReadPrior, ChargeTrue
  <2>2. /\ UNCHANGED returned
        /\ \E l \in {"prior", "upsert"} : statement' = [statement EXCEPT ![c] = l]
    BY <1>6 DEF Ledger!SumForUser, Ledger!ReadPrior
  <2>3. \E l : Moves(c, l, "none")
    BY <1>r, <2>1, <2>2 DEF Moves
  <2> QED
    BY <1>1, <1>2, <2>3
<1>7. CASE Ledger!Upsert(c) \/ Ledger!RefreshFails(c)
  <2>1. statement[c] \in {"sum", "upsert"} /\ c \in charges
    BY <1>7, <1>t DEF Ledger!Upsert, Ledger!RefreshFails, ChargeTrue
  <2>2. /\ statement' = [statement EXCEPT ![c] = "done"]
        /\ returned' = [returned EXCEPT ![c] = "posted"]
    BY <1>7, <1>k DEF Ledger!Upsert, Ledger!RefreshFails, Ledger!Succeeded
  <2>3. Moves(c, "done", "posted")
    BY <2>1, <2>2 DEF Moves
  <2> QED
    BY <1>1, <1>2, <2>3
<1> QED
  BY <1>1, <1>3, <1>4, <1>5, <1>6, <1>7

(* The INSERT, when it commits, is the moment at which the charge is       *)
(* recorded; the unique index is what makes its key free.                  *)
LEMMA InsertRecords ==
    ASSUME LinkInv, charges \subseteq Calls, NEW c \in Calls,
           pc[c] = "charge", ValidAmount(Amount(c)),
           UNCHANGED <<local, refunds, posted, upstream, rows>>,
           Ledger!InsertRow(c) \/ Ledger!InsertFails(c)
    PROVE  LinkInv' /\ (RecordCharge(c) \/ UNCHANGED vars)
<1> USE DEF Ledger!Goto, Ledger!Return
<1>t. /\ statement \in [Calls -> Ledger!PCs] /\ returned \in [Calls -> Ledger!Answers]
      /\ ChargeTrue(c)
  BY DEF LinkInv
<1>u. UNCHANGED <<req, target, pc, posted>>
  BY DEF local
<1>1. statement[c] = "insert" /\ c \notin charges /\ returned[c] = "none" /\ posted[c] = "none"
  BY <1>t DEF Ledger!InsertRow, Ledger!InsertFails, ChargeTrue
<1>2. \/ UNCHANGED charges
      \/ charges' = charges \cup {c} /\ ~Ledger!KeyTaken(c)
  BY DEF Ledger!InsertRow, Ledger!InsertFails
<1>3. ~Ledger!KeyTaken(c) => KeyOf(c) = NoKey \/ \A d \in charges : KeyOf(d) # KeyOf(c)
  BY DEF Ledger!KeyTaken, Ledger!KeyOf, ChargeOf
<1>4. ASSUME charges' = charges \cup {c}, ~Ledger!KeyTaken(c) PROVE RecordCharge(c)
  <2>1. Book!KeyFree(c)
    BY <1>3, <1>4 DEF Book!KeyFree
  <2>2. UNCHANGED <<[x \in Calls |-> KeyOf(x)], [x \in Calls |-> req[x].tenant]>>
    BY <1>u DEF KeyOf
  <2> QED
    BY <1>1, <1>4, <2>1, <2>2 DEF RecordCharge, Book!Record
<1>5. charges' = charges => UNCHANGED vars
  BY DEF vars, ledger
<1>6. CASE Ledger!InsertRow(c)
  <2>1. /\ statement' = [statement EXCEPT ![c] = "sum"] /\ UNCHANGED returned
        /\ charges' = charges \cup {c}
    BY <1>6 DEF Ledger!InsertRow
  <2>2. returned' = [returned EXCEPT ![c] = "none"] /\ statement'[c] = "sum" /\ returned'[c] = "none"
    BY <1>1, <1>t, <2>1
  <2>3. ChargeTrue(c)'
    BY <1>1, <1>t, <1>u, <2>1, <2>2 DEF ChargeTrue
  <2>4. "sum" \in Ledger!PCs /\ "none" \in Ledger!Answers
    BY DEF Ledger!PCs, Ledger!Answers
  <2>5. LinkInv'
    BY <1>u, <2>1, <2>2, <2>3, <2>4, OthersKeepTrue
  <2> QED
    BY <1>2, <1>4, <1>5, <2>5
<1>7. CASE Ledger!InsertFails(c)
  <2>1. /\ statement' = [statement EXCEPT ![c] = "done"]
        /\ returned' = [returned EXCEPT ![c] = "error"]
    BY <1>7 DEF Ledger!InsertFails
  <2>2. statement'[c] = "done" /\ returned'[c] = "error"
    BY <1>t, <2>1
  <2>3. ChargeTrue(c)'
    BY <1>1, <1>t, <1>u, <2>2 DEF ChargeTrue
  <2>4. "done" \in Ledger!PCs /\ "error" \in Ledger!Answers
    BY DEF Ledger!PCs, Ledger!Answers
  <2>5. LinkInv'
    BY <1>2, <1>u, <2>1, <2>3, <2>4, OthersKeepTrue
  <2> QED
    BY <1>2, <1>4, <1>5, <2>5
<1> QED
  BY <1>6, <1>7

LEMMA ChargeIsAtomic ==
    ASSUME LinkInv, charges \subseteq Calls, NEW c \in Calls, Charge(c)
    PROVE  LinkInv' /\ (RecordCharge(c) \/ UNCHANGED vars)
<1>1. /\ pc[c] = "charge" /\ ValidAmount(Amount(c))
      /\ UNCHANGED <<local, refunds, posted, upstream, rows>>
      /\ UNCHANGED <<req, target, pc, posted>>
      /\ Ledger!Begin(c) \/ Ledger!Step(c)
  BY DEF Charge, local
<1>2. CASE Ledger!InsertRow(c) \/ Ledger!InsertFails(c)
  BY <1>1, <1>2, InsertRecords
<1>3. CASE ~(Ledger!InsertRow(c) \/ Ledger!InsertFails(c))
  <2>1. LinkInv' /\ UNCHANGED charges
    BY <1>1, <1>3, QuietStatements DEF Ledger!Step
  <2> QED
    BY <1>1, <2>1 DEF vars, ledger
<1> QED
  BY <1>2, <1>3

(* A step that executes no statement of a PostCharge.                      *)
LEMMA LinkStays ==
    ASSUME LinkInv, charges \subseteq Calls, UNCHANGED <<charges, statement, returned>>,
           \A d \in Calls : pc[d] # "idle" => KeyOf(d)' = KeyOf(d),
           \A d \in Calls :
             /\ pc'[d] \in {"idle", "check"} => pc[d] \in {"idle", "check"}
             /\ pc'[d] \in {"idle", "check", "charge"} =>
                  pc[d] \in {"idle", "check", "charge"} /\ posted'[d] = posted[d]
             /\ pc[d] = "done" => pc'[d] = "done"
    PROVE  LinkInv'
<1>1. ASSUME NEW d \in Calls, returned[d] = "existing" PROVE \E e \in charges' : KeyOf(e)' = KeyOf(d)'
  <2>1. PICK e \in charges : KeyOf(e) = KeyOf(d)
    BY <1>1 DEF LinkInv, ChargeTrue
  <2>2. pc[d] # "idle" /\ pc[e] # "idle"
    BY <1>1 DEF LinkInv, ChargeTrue
  <2> QED
    BY <2>1, <2>2
<1>2. ASSUME NEW d \in Calls PROVE ChargeTrue(d)'
  <2>1. ChargeTrue(d)
    BY DEF LinkInv
  <2> QED
    BY <1>1, <2>1 DEF ChargeTrue
<1> QED
  BY <1>2 DEF LinkInv

LEMMA ReturnIsAnswer ==
    ASSUME TypeInv, LinkInv, NEW c \in Calls, ChargeReturns(c)
    PROVE  AnswerCharge(c) /\ LinkInv'
<1>t. TypeOK /\ charges \subseteq Calls /\ ChargeTrue(c)
  BY DEF TypeInv, TypeOK, LinkInv
<1> USE DEF Goto, Return
<1>1. /\ pc[c] = "charge" /\ posted[c] = "none"
      /\ ChargeAnswer(c) \in {"posted", "existing", "duplicate", "error"}
  BY <1>t DEF ChargeReturns, ChargeAnswer, ChargeTrue, LinkInv, Ledger!Answers
<1>2. UNCHANGED <<req, target, charges, refunds, upstream, rows, statement, returned>>
  BY DEF ChargeReturns, charging
<1>3. posted' = [posted EXCEPT ![c] = ChargeAnswer(c)] /\ posted'[c] = ChargeAnswer(c)
  BY <1>t DEF ChargeReturns, TypeOK
<1>4. UNCHANGED <<[x \in Calls |-> KeyOf(x)], [x \in Calls |-> req[x].tenant], charges>>
  BY <1>2 DEF KeyOf
<1>5. ChargeAnswer(c) = "existing" =>
        /\ KeyOf(c) # NoKey
        /\ \E d \in charges \ {c} : KeyOf(d) = KeyOf(c) /\ req[d].tenant = req[c].tenant
  <2>1. KeyOf(c) \in Kinds \X Tenants \X Domains \X (Calls \cup {NoRow}) \X (1..10)
    BY <1>t, RequestsAssumption DEF TypeOK, Request, KeyOf
  <2>2. ASSUME NEW d \in charges, KeyOf(d) = KeyOf(c) PROVE req[d].tenant = req[c].tenant
    BY <2>2 DEF KeyOf
  <2>3. ChargeAnswer(c) = "existing" =>
            c \notin charges /\ \E d \in charges : KeyOf(d) = KeyOf(c)
    BY <1>t DEF ChargeAnswer, ChargeTrue
  <2> QED
    BY <2>1, <2>2, <2>3, NoKeyAssumption
<1>6. Book!Answer(c)
  <2>1. ChargeAnswer(c) \in Book!Answers \ {"none"}
    BY <1>1 DEF Book!Answers
  <2>2. ChargeAnswer(c) = "posted" => c \in charges
    BY <1>t DEF ChargeAnswer, ChargeTrue
  <2>3. ChargeAnswer(c) = "duplicate" => c \notin charges
    BY <1>t DEF ChargeAnswer, ChargeTrue
  <2>4. ChargeAnswer(c) = "existing" =>
            /\ [x \in Calls |-> KeyOf(x)][c] # NoKey
            /\ \E d \in charges \ {c} :
                 /\ [x \in Calls |-> KeyOf(x)][d] = [x \in Calls |-> KeyOf(x)][c]
                 /\ [x \in Calls |-> req[x].tenant][d] = [x \in Calls |-> req[x].tenant][c]
    BY <1>5, <1>t
  <2> QED
    BY <1>1, <1>3, <1>4, <2>1, <2>2, <2>3, <2>4 DEF Book!Answer
<1>7. AnswerCharge(c)
  BY <1>1, <1>2, <1>3, <1>6 DEF AnswerCharge, ChargeReturns
<1>8. pc'[c] \in {"order", "done"} /\ \A d \in Calls : d # c => pc'[d] = pc[d] /\ posted'[d] = posted[d]
  BY <1>3, <1>t DEF ChargeReturns, TypeOK
<1>9. \A d \in Calls : KeyOf(d)' = KeyOf(d)
  BY <1>2, KeysStay
<1>10. LinkInv'
  BY <1>1, <1>2, <1>8, <1>9, <1>t, LinkStays
<1> QED
  BY <1>7, <1>10

LEMMA CrashIsCrash ==
    ASSUME TypeInv, LinkInv, NEW c \in Calls, ComposedCrash(c)
    PROVE  Crash(c) /\ LinkInv'
<1>t. TypeOK /\ charges \subseteq Calls
  BY DEF TypeInv, TypeOK
<1>1. /\ Crash(c) /\ UNCHANGED <<req, target, charges, posted>>
      /\ pc' = [pc EXCEPT ![c] = "done"]
  BY DEF ComposedCrash, Crash, Return, ledger
<1>2. pc'[c] = "done" /\ \A d \in Calls : d # c => pc'[d] = pc[d]
  BY <1>1, <1>t DEF TypeOK
<1>3. \A d \in Calls : KeyOf(d)' = KeyOf(d)
  BY <1>1, KeysStay
<1>4. CASE UNCHANGED charging
  BY <1>1, <1>2, <1>3, <1>4, <1>t, LinkStays DEF charging
<1>5. CASE Ledger!Crash(c)
  <2>1. /\ statement' = [statement EXCEPT ![c] = "done"]
        /\ returned' = [returned EXCEPT ![c] = "crashed"]
    BY <1>5 DEF Ledger!Crash, Ledger!Return
  <2>2. statement' \in [Calls -> Ledger!PCs] /\ returned' \in [Calls -> Ledger!Answers]
    BY <2>1 DEF LinkInv, Ledger!PCs, Ledger!Answers
  <2>3. ChargeTrue(c)'
    BY <1>2, <2>1 DEF ChargeTrue, LinkInv
  <2>4. ASSUME NEW d \in Calls, d # c PROVE ChargeTrue(d)'
    <3>1. ChargeTrue(d) /\ statement'[d] = statement[d] /\ returned'[d] = returned[d]
      BY <2>1, <2>4 DEF LinkInv
    <3> QED
      BY <1>1, <1>2, <1>3, <1>t, <2>4, <3>1 DEF ChargeTrue
  <2> QED
    BY <1>1, <2>2, <2>3, <2>4 DEF LinkInv
<1> QED
  BY <1>1, <1>4, <1>5 DEF ComposedCrash

LEMMA UnchargedKeepsLink ==
    ASSUME TypeInv, LinkInv, NEW c \in Calls, Uncharged(c)
    PROVE  LinkInv' /\ Next
<1>t. TypeOK /\ charges \subseteq Calls
  BY DEF TypeInv, TypeOK
<1> USE DEF Goto, Return, ledger
<1>1. UNCHANGED <<charges, statement, returned, posted, req>>
  BY DEF Uncharged, charging, Begin, Check, PlaceOrder, OrderFails, Refund, CreateRow,
         SetExpiry, PersistFails, SetLedgerLink, Drop
<1>2. ASSUME \A d \in Calls : pc[d] # "idle" => KeyOf(d)' = KeyOf(d),
             \A d \in Calls : d # c => pc'[d] = pc[d],
             pc'[c] \notin {"idle", "check"} \/ pc[c] = "idle",
             pc'[c] = "charge" => pc[c] \in {"idle", "check"},
             pc[c] # "done"
      PROVE  LinkInv'
  BY <1>1, <1>2, <1>t, LinkStays
<1>3. CASE Begin(c)
  <2>1. \A d \in Calls : d # c => pc'[d] = pc[d] /\ target'[d] = target[d]
    BY <1>3, <1>t DEF Begin, TypeOK
  <2>2. pc[c] = "idle"
    BY <1>3 DEF Begin
  <2>3. \A d \in Calls : pc[d] # "idle" => KeyOf(d)' = KeyOf(d)
    BY <1>1, <2>1, <2>2 DEF KeyOf
  <2> QED
    BY <1>2, <1>3, <2>1, <2>2, <2>3 DEF Next
<1>4. CASE ~Begin(c)
  <2>1. /\ UNCHANGED target
        /\ \E l \in PCs \ {"idle", "check"} :
             /\ pc' = [pc EXCEPT ![c] = l]
             /\ l = "charge" => pc[c] = "check"
        /\ pc[c] # "done"
    BY <1>4 DEF Uncharged, Check, PlaceOrder, OrderFails, Refund, CreateRow, SetExpiry,
                PersistFails, SetLedgerLink, Drop, PCs
  <2>2. \A d \in Calls : KeyOf(d)' = KeyOf(d)
    BY <1>1, <2>1, KeysStay
  <2>3. LinkInv'
    BY <1>2, <1>t, <2>1, <2>2 DEF TypeOK
  <2>4. Step(c)
    BY <1>4 DEF Uncharged, Step
  <2> QED
    BY <2>3, <2>4 DEF Next
<1> QED
  BY <1>3, <1>4

LEMMA ComposedStart == ComposedInit => Init /\ LinkInv
BY DEF ComposedInit, Init, Ledger!Init, LinkInv, ChargeTrue, Ledger!PCs, Ledger!Answers

LEMMA ComposedStep ==
    ASSUME TypeInv, LinkInv, [ComposedNext]_composedVars
    PROVE  [Next]_vars /\ LinkInv'
<1>t. charges \subseteq Calls
  BY DEF TypeInv, TypeOK
<1>s. Next => [Next]_vars
  OBVIOUS
<1>1. CASE UNCHANGED composedVars
  <2>1. UNCHANGED vars /\ UNCHANGED <<req, target, pc, posted, charges, statement, returned>>
    BY <1>1 DEF composedVars, charging, vars, local, ledger
  <2>2. \A d \in Calls : KeyOf(d)' = KeyOf(d)
    BY <2>1, KeysStay
  <2> QED
    BY <1>t, <2>1, <2>2, LinkStays
<1>2. ASSUME NEW d \in Domains, RegistryChanges(d), UNCHANGED charging
      PROVE  [Next]_vars /\ LinkInv'
  <2>1. UNCHANGED <<req, target, pc, posted, charges, statement, returned>>
    BY <1>2 DEF RegistryChanges, charging, local, ledger
  <2>2. \A e \in Calls : KeyOf(e)' = KeyOf(e)
    BY <2>1, KeysStay
  <2>3. LinkInv'
    BY <1>t, <2>1, <2>2, LinkStays
  <2> QED
    BY <1>2, <2>3 DEF Next
<1>3. ASSUME NEW c \in Calls, Charge(c) PROVE [Next]_vars /\ LinkInv'
  BY <1>3, <1>t, ChargeIsAtomic DEF Next, Step
<1>4. ASSUME NEW c \in Calls, ChargeReturns(c) PROVE [Next]_vars /\ LinkInv'
  BY <1>4, ReturnIsAnswer DEF Next, Step
<1>5. ASSUME NEW c \in Calls, ComposedCrash(c) PROVE [Next]_vars /\ LinkInv'
  BY <1>5, CrashIsCrash DEF Next
<1>6. ASSUME NEW c \in Calls, Uncharged(c) PROVE [Next]_vars /\ LinkInv'
  BY <1>6, <1>s, UnchargedKeepsLink
<1> QED
  BY <1>1, <1>2, <1>3, <1>4, <1>5, <1>6 DEF ComposedNext

LEMMA ComposedInvariant == ComposedSpec => [](TypeInv /\ LinkInv)
<1>1. ComposedInit => TypeInv /\ LinkInv
  BY ComposedStart, TypeInit
<1>2. TypeInv /\ LinkInv /\ [ComposedNext]_composedVars => TypeInv' /\ LinkInv'
  BY ComposedStep, TypeStep
<1> QED
  BY <1>1, <1>2, PTL DEF ComposedSpec

(* The registrar that runs the ledger's statements implements the registrar *)
(* that calls the charge book: however the lookups, inserts and cache       *)
(* refreshes of concurrent PostCharges interleave with the orders, fail or  *)
(* are cut off, the orders see atomic charges (RegisterDomain, RenewDomain, *)
(* TransferDomain, PostCharge).                                             *)
THEOREM ImplementsRegistrar == ComposedSpec => RegistrarSpec
<1>1. ComposedInit => Init
  BY ComposedStart
<1>2. TypeInv /\ LinkInv /\ [ComposedNext]_composedVars => [Next]_vars
  BY ComposedStep
<1> QED
  BY <1>1, <1>2, ComposedInvariant, PTL DEF ComposedSpec, RegistrarSpec, Spec

(* So the properties of the registrar hold of the composition as well: no   *)
(* order is unpaid or paid back, no expiry runs ahead, and every row is of  *)
(* an order.                                                                *)
THEOREM ComposedOrders == ComposedSpec => [](OrdersStayPaid /\ ExpiryNotAhead /\ RowsAreOrders)
<1>1. ComposedSpec => Spec
  BY ImplementsRegistrar DEF RegistrarSpec
<1> QED
  BY <1>1, OrdersPaid, NeverAhead, RowsTrue, PTL

(* The tables of the ledger and the locals of its calls.                    *)
LedgerTypes ==
    /\ statement \in [Calls -> Ledger!PCs]
    /\ returned \in [Calls -> Ledger!Answers]
    /\ balances \in [Accounts -> Ledger!BalanceRow]
    /\ snapshot \in [Calls -> SUBSET Calls]
    /\ prior \in [Calls -> Ledger!BalanceRow]
    /\ lowEvents \in [Accounts -> Nat]
    /\ disturbed \in [Accounts -> SUBSET Ledger!Disturbances]
    /\ user \in [Calls -> Accounts]

LEMMA StatementTypes ==
    ASSUME LedgerTypes, charges \subseteq Calls, UNCHANGED user, NEW c \in Calls,
           Ledger!Begin(c) \/ Ledger!Step(c) \/ Ledger!Crash(c)
    PROVE  LedgerTypes'
<1> USE DEF LedgerTypes, Ledger!PCs, Ledger!Answers, Ledger!Goto, Ledger!Return, Ledger!Disturb
<1>a. Ledger!Acct(c) = user[c] /\ user[c] \in Accounts
  BY DEF Ledger!Acct, ChargeOf
<1>b. [present |-> TRUE, rows |-> snapshot[c]] \in Ledger!BalanceRow
  BY DEF Ledger!BalanceRow
<1>c. Ledger!NoBalanceRow \in Ledger!BalanceRow
  BY DEF Ledger!BalanceRow, Ledger!NoBalanceRow
<1>d. {"failure"} \subseteq Ledger!Disturbances /\ {"overlap"} \subseteq Ledger!Disturbances
      /\ {"unread"} \subseteq Ledger!Disturbances
  BY DEF Ledger!Disturbances
<1>1. CASE Ledger!Begin(c) \/ Ledger!LookupKey(c) \/ Ledger!InsertRow(c)
           \/ Ledger!InsertConflicts(c) \/ Ledger!LookupWinner(c)
  BY <1>1 DEF Ledger!Begin, Ledger!LookupKey, Ledger!InsertRow, Ledger!InsertConflicts,
              Ledger!LookupWinner
<1>2. CASE Ledger!InsertFails(c) \/ Ledger!Crash(c)
  BY <1>2, <1>a, <1>d DEF Ledger!InsertFails, Ledger!Crash
<1>3. CASE Ledger!SumForUser(c)
  <2>1. Ledger!RowsOf(Ledger!Acct(c)) \subseteq Calls
    BY DEF Ledger!RowsOf
  <2> QED
    BY <1>3, <1>a, <1>d, <2>1 DEF Ledger!SumForUser
<1>4. CASE Ledger!ReadPrior(c)
  BY <1>4, <1>a, <1>c, <1>d DEF Ledger!ReadPrior
<1>5. CASE Ledger!Upsert(c) \/ Ledger!RefreshFails(c)
  <2>1. balances' \in [Accounts -> Ledger!BalanceRow]
    BY <1>5, <1>a, <1>b DEF Ledger!Upsert, Ledger!RefreshFails
  <2>2. lowEvents' \in [Accounts -> Nat]
    BY <1>5, <1>a DEF Ledger!Upsert, Ledger!RefreshFails
  <2>3. disturbed' \in [Accounts -> SUBSET Ledger!Disturbances]
    BY <1>5, <1>a, <1>d DEF Ledger!Upsert, Ledger!RefreshFails
  <2> QED
    BY <1>5, <2>1, <2>2, <2>3 DEF Ledger!Upsert, Ledger!RefreshFails, Ledger!Succeeded
<1> QED
  BY <1>1, <1>2, <1>3, <1>4, <1>5 DEF Ledger!Step

LEMMA TypesTogether == TypeInv /\ LinkInv /\ LedgerTypes => ComposedTypeOK
<1> SUFFICES ASSUME TypeInv, LinkInv, LedgerTypes PROVE ComposedTypeOK
  OBVIOUS
<1>1. TypeOK /\ user \in [Calls -> Accounts]
  BY DEF TypeInv, LedgerTypes
<1>2. ASSUME NEW c \in Calls PROVE ChargeOf(c) \in Charges
  <2>1. /\ KeyOf(c) \in Keys
        /\ req[c].period \in 1..10
    BY <1>1, RequestsAssumption DEF TypeOK, Request, KeyOf, Keys
  <2>2. Amount(c) \in {YearPrice * n : n \in 1..10}
    BY <2>1 DEF Amount
  <2> QED
    BY <1>1, <2>1, <2>2 DEF ChargeOf, Charges
<1>3. \A c \in Calls : returned[c] # "none" <=> statement[c] = "done"
  BY DEF LinkInv, ChargeTrue
<1> QED
  BY <1>1, <1>2, <1>3 DEF ComposedTypeOK, Ledger!TypeOK, LedgerTypes, TypeOK

(* The tables of both modules and the locals of their calls keep their      *)
(* types; a PostCharge has an answer exactly when it has returned, and the  *)
(* request it executes is well formed from its first statement on, though   *)
(* its key is fixed only while the call runs (ChargeOf).                    *)
THEOREM ComposedTypes == ComposedSpec => []ComposedTypeOK
<1>1. ComposedInit => LedgerTypes
  <2>1. Ledger!NoBalanceRow \in Ledger!BalanceRow
    BY DEF Ledger!BalanceRow, Ledger!NoBalanceRow
  <2> QED
    BY <2>1 DEF ComposedInit, Ledger!Init, LedgerTypes, Ledger!PCs, Ledger!Answers
<1>2. TypeInv /\ LedgerTypes /\ [ComposedNext]_composedVars => LedgerTypes'
  <2> SUFFICES ASSUME TypeInv, LedgerTypes, [ComposedNext]_composedVars PROVE LedgerTypes'
    OBVIOUS
  <2>1. CASE UNCHANGED <<user, charging>>
    BY <2>1 DEF charging, LedgerTypes
  <2>2. charges \subseteq Calls
    BY DEF TypeInv, TypeOK
  <2>3. ASSUME NEW c \in Calls, Charge(c) PROVE LedgerTypes'
    BY <2>2, <2>3, StatementTypes DEF Charge
  <2>4. ASSUME NEW c \in Calls, ComposedCrash(c) PROVE LedgerTypes'
    BY <2>1, <2>2, <2>4, StatementTypes DEF ComposedCrash
  <2> QED
    BY <2>1, <2>3, <2>4 DEF ComposedNext, composedVars, ChargeReturns, Uncharged
<1> QED
  BY <1>1, <1>2, ComposedInvariant, TypesTogether, PTL DEF ComposedSpec

================================================================================
