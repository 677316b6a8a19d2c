-------------------------- MODULE BillingLedgerProofs --------------------------
(***************************************************************************)
(* Theorems about BillingLedger, for every set of calls, accounts, keys    *)
(* and requests, with their proofs.                                        *)
(***************************************************************************)
EXTENDS BillingLedger, TLAPS

(* What ChargedExactlyOnce rests on: the unique index keeps keys distinct, *)
(* a call that has not inserted has no row, and answers name rows.         *)
ChargeInv ==
    /\ \A r, s \in ledger : KeyOf(r) # NoKey /\ KeyOf(r) = KeyOf(s) => r = s
    /\ \A c \in Calls : pc[c] \in {"idle", "lookup", "insert", "relookup"} => c \notin ledger
    /\ \A c \in Calls :
        pc[c] \in {"sum", "prior", "upsert"} /\ req[c].kind # "rebuild" => c \in ledger
    /\ \A c \in Calls : answer[c] = "posted" => c \in ledger
    /\ \A c \in Calls : answer[c] = "existing" => KeyOf(c) # NoKey /\ VisibleWithKey(c) # {}
    /\ \A c \in Calls : pc[c] \in {"lookup", "relookup"} => KeyOf(c) # NoKey

Hindered(a) == disturbed[a] \cap {"failure", "overlap"} # {}

(* At most one refresh is between SUM and UPSERT; a row it has not summed  *)
(* (or that is neither in the cache nor about to be written to it) belongs *)
(* to a call that has yet to take its own SUM.                             *)
AccountFresh(a) ==
    /\ \A c, d \in Refreshing(a) : c = d
    /\ \A c \in Refreshing(a) :
        /\ snapshot[c] \subseteq RowsOf(a)
        /\ \A r \in RowsOf(a) : r \in snapshot[c] \/ pc[r] = "sum"
    /\ balances[a].rows \subseteq RowsOf(a)
    /\ \A r \in RowsOf(a) :
        \/ r \in balances[a].rows
        \/ pc[r] = "sum"
        \/ \E c \in Refreshing(a) : r \in snapshot[c]

(* What FreshUnlessDisturbed rests on. *)
FreshInv ==
    /\ \A c \in Calls : pc[c] \in {"idle", "lookup", "insert", "relookup"} => c \notin ledger
    /\ \A a \in Accounts : Hindered(a) \/ AccountFresh(a)

(* The tables and the calls' local state keep their types. *)
THEOREM TypeCorrect == Spec => []TypeOK
<1> USE TenantOfAssumption, NoKeyAssumption, RequestsAssumption
<1>1. Init => TypeOK
  BY SMT DEF Init, TypeOK, PCs, Answers, BalanceRow, NoBalanceRow, Disturbances
<1>2. TypeOK /\ [Next]_vars => TypeOK'
  <2> SUFFICES ASSUME TypeOK, [Next]_vars PROVE TypeOK'
    OBVIOUS
  <2> USE DEF TypeOK, PCs, Answers, Goto, Return, Disturb
  <2>1. CASE UNCHANGED vars
    BY <2>1 DEF vars
  <2> SUFFICES ASSUME NEW c \in Calls, Begin(c) \/ Step(c) \/ Crash(c) PROVE TypeOK'
    BY <2>1 DEF Next
  <2>a. Acct(c) \in Accounts
    BY DEF Acct, Request
  <2>2. CASE Begin(c)
    BY <2>2 DEF Begin
  <2>3. CASE LookupKey(c)
    BY <2>3 DEF LookupKey
  <2>4. CASE InsertRow(c)
    BY <2>4 DEF InsertRow
  <2>5. CASE InsertConflicts(c)
    BY <2>5 DEF InsertConflicts
  <2>6. CASE InsertFails(c)
    BY <2>6, <2>a DEF InsertFails, Disturbances
  <2>7. CASE LookupWinner(c)
    BY <2>7 DEF LookupWinner
  <2>8. CASE SumForUser(c)
    BY <2>8, <2>a DEF SumForUser, RowsOf, Disturbances
  <2>9. CASE ReadPrior(c)
    <3>1. NoBalanceRow \in BalanceRow
      BY DEF BalanceRow, NoBalanceRow
    <3>2. {"unread"} \subseteq Disturbances
      BY DEF Disturbances
    <3> QED
      BY <2>9, <2>a, <3>1, <3>2 DEF ReadPrior
  <2>b. [present |-> TRUE, rows |-> snapshot[c]] \in BalanceRow
    BY DEF BalanceRow
  <2>10. CASE Upsert(c)
    <3>1. lowEvents' \in [Accounts -> Nat]
      BY <2>10, <2>a DEF Upsert
    <3>2. balances' \in [Accounts -> BalanceRow]
      BY <2>10, <2>a, <2>b DEF Upsert
    <3> QED
      BY <2>10, <3>1, <3>2 DEF Upsert, Succeeded
  <2>11. CASE RefreshFails(c)
    <3>1. balances' \in [Accounts -> BalanceRow]
      BY <2>11, <2>a, <2>b DEF RefreshFails
    <3>2. disturbed' \in [Accounts -> SUBSET Disturbances]
      BY <2>11, <2>a DEF RefreshFails, Disturbances
    <3> QED
      BY <2>11, <3>1, <3>2 DEF RefreshFails
  <2>12. CASE Crash(c)
    BY <2>12, <2>a DEF Crash, Disturbances
  <2> QED
    BY <2>2, <2>3, <2>4, <2>5, <2>6, <2>7, <2>8, <2>9, <2>10, <2>11, <2>12 DEF Step
<1> QED
  BY <1>1, <1>2, PTL DEF Spec

-------------------------------------------------------------------------------
(* The case that matters is InsertRow, which the unique index only lets     *)
(* through for a new key.                                                   *)
LEMMA ChargeInvariant == Spec => []ChargeInv
<1> USE NoKeyAssumption, RequestsAssumption
<1>1. Init => ChargeInv
  BY DEF Init, ChargeInv
<1>2. TypeOK /\ ChargeInv /\ [Next]_vars => ChargeInv'
  <2> SUFFICES ASSUME TypeOK, ChargeInv, [Next]_vars PROVE ChargeInv'
    OBVIOUS
  <2> USE DEF ChargeInv, KeyOf
  <2>1. CASE UNCHANGED vars
    BY <2>1 DEF vars, VisibleWithKey, TenantOfCall, Acct
  <2> SUFFICES ASSUME NEW c \in Calls, Begin(c) \/ Step(c) \/ Crash(c) PROVE ChargeInv'
    BY <2>1 DEF Next
  <2>t. /\ pc \in [Calls -> PCs] /\ answer \in [Calls -> Answers]
        /\ ledger \subseteq Calls /\ req \in [Calls -> Requests]
        /\ req[c].kind = "rebuild" => KeyOf(c) = NoKey
    BY DEF TypeOK
  <2>r. req' = req
    BY DEF Begin, Step, Crash, LookupKey, InsertRow, InsertConflicts, InsertFails,
           LookupWinner, SumForUser, ReadPrior, Upsert, RefreshFails
  \* A step that adds no row keeps every row visible.
  <2>v. ASSUME ledger \subseteq ledger', NEW d \in Calls
        PROVE  VisibleWithKey(d) \subseteq VisibleWithKey(d)'
    BY <2>v, <2>r DEF VisibleWithKey, TenantOfCall, Acct
  <2>2. CASE Begin(c)
    BY <2>2, <2>t, <2>r, <2>v DEF Begin, Goto
  <2>3. CASE LookupKey(c)
    BY <2>3, <2>t, <2>r, <2>v DEF LookupKey, Goto, Return
  <2>4. CASE InsertRow(c)
    BY <2>4, <2>t, <2>r, <2>v DEF InsertRow, KeyTaken, Goto
  <2>5. CASE InsertConflicts(c)
    BY <2>5, <2>t, <2>r, <2>v DEF InsertConflicts, KeyTaken, Goto
  <2>6. CASE InsertFails(c)
    BY <2>6, <2>t, <2>r, <2>v DEF InsertFails, KeyTaken, Return
  <2>7. CASE LookupWinner(c)
    BY <2>7, <2>t, <2>r, <2>v DEF LookupWinner, Return
  <2>8. CASE SumForUser(c)
    BY <2>8, <2>t, <2>r, <2>v DEF SumForUser, Goto
  <2>9. CASE ReadPrior(c)
    BY <2>9, <2>t, <2>r, <2>v DEF ReadPrior, Goto
  <2>10. CASE Upsert(c)
    BY <2>10, <2>t, <2>r, <2>v DEF Upsert, Return, Succeeded
  <2>11. CASE RefreshFails(c)
    BY <2>11, <2>t, <2>r, <2>v DEF RefreshFails, Return
  <2>12. CASE Crash(c)
    BY <2>12, <2>t, <2>r, <2>v DEF Crash, Return
  <2> QED
    BY <2>2, <2>3, <2>4, <2>5, <2>6, <2>7, <2>8, <2>9, <2>10, <2>11, <2>12 DEF Step
<1> QED
  BY <1>1, <1>2, TypeCorrect, PTL DEF Spec

(* PostCharge records a keyed charge that it answers exactly once. *)
THEOREM ChargedOnce == Spec => []ChargedExactlyOnce
<1>1. ChargeInv => ChargedExactlyOnce
  <2> SUFFICES ASSUME ChargeInv, NEW c \in Calls, KeyOf(c) # NoKey,
                      answer[c] \in {"posted", "existing"}
               PROVE  \E r \in VisibleWithKey(c) : \A s \in ledger : KeyOf(s) = KeyOf(c) => s = r
    BY DEF ChargedExactlyOnce
  <2>1. PICK r \in VisibleWithKey(c) : TRUE
    BY DEF ChargeInv, VisibleWithKey
  <2> QED
    BY <2>1 DEF ChargeInv, VisibleWithKey
<1> QED
  BY <1>1, ChargeInvariant, PTL

-------------------------------------------------------------------------------
(* Overlapping or failing refreshes are the only causes of a stale balance. *)
THEOREM FreshCache == Spec => []FreshUnlessDisturbed
<1> USE RequestsAssumption
<1>1. Init => FreshInv
  BY DEF Init, FreshInv, AccountFresh, Refreshing, RowsOf, NoBalanceRow
<1>2. TypeOK /\ FreshInv /\ [Next]_vars => FreshInv'
  <2> SUFFICES ASSUME TypeOK, FreshInv, [Next]_vars PROVE FreshInv'
    OBVIOUS
  <2>1. CASE UNCHANGED vars
    BY <2>1 DEF vars, FreshInv, AccountFresh, Hindered, Refreshing, RowsOf, Acct
  <2> SUFFICES ASSUME NEW c \in Calls, Begin(c) \/ Step(c) \/ Crash(c) PROVE FreshInv'
    BY <2>1 DEF Next
  <2>a. PICK a \in Accounts : a = Acct(c)
    BY DEF TypeOK, Acct, Request
  <2>t. /\ pc \in [Calls -> PCs]
        /\ ledger \subseteq Calls
        /\ balances \in [Accounts -> BalanceRow]
        /\ snapshot \in [Calls -> SUBSET Calls]
        /\ disturbed \in [Accounts -> SUBSET Disturbances]
    BY DEF TypeOK
  <2>r. req' = req
    BY DEF Begin, Step, Crash, LookupKey, InsertRow, InsertConflicts, InsertFails,
           LookupWinner, SumForUser, ReadPrior, Upsert, RefreshFails
  \* A step of c touches c's local state, c's row and its account only.
  <2>f. /\ \A d \in Calls \ {c} : pc'[d] = pc[d] /\ snapshot'[d] = snapshot[d]
        /\ ledger' = ledger \/ ledger' = ledger \cup {c}
        /\ \A b \in Accounts \ {a} : balances'[b] = balances[b] /\ disturbed'[b] = disturbed[b]
        /\ disturbed[a] \subseteq disturbed'[a]
    BY <2>a, <2>t DEF Begin, Step, Crash, LookupKey, InsertRow, InsertConflicts, InsertFails,
           LookupWinner, SumForUser, ReadPrior, Upsert, RefreshFails, Goto, Return, Disturb
  <2>o. \A b \in Accounts \ {a} : Hindered(b)' \/ AccountFresh(b)'
    BY <2>a, <2>t, <2>r, <2>f DEF FreshInv, Hindered, AccountFresh, Refreshing, RowsOf, Acct
  <2>n. \A d \in Calls : pc'[d] \in {"idle", "lookup", "insert", "relookup"} => d \notin ledger'
    BY <2>t, <2>f DEF FreshInv, Begin, Step, Crash, LookupKey, InsertRow, InsertConflicts,
           InsertFails, LookupWinner, SumForUser, ReadPrior, Upsert, RefreshFails, Goto, Return
  <2> SUFFICES ASSUME ~Hindered(a)' PROVE AccountFresh(a)'
    BY <2>o, <2>n DEF FreshInv
  <2>h. ~Hindered(a) /\ AccountFresh(a)
    BY <2>t, <2>f DEF FreshInv, Hindered
  <2> USE DEF AccountFresh, Refreshing, RowsOf, Acct
  <2>2. CASE Begin(c)
    BY <2>2, <2>a, <2>t, <2>r, <2>h DEF Begin, Goto
  <2>3. CASE LookupKey(c)
    BY <2>3, <2>a, <2>t, <2>r, <2>h DEF LookupKey, Goto, Return
  <2>4. CASE InsertRow(c)
    BY <2>4, <2>a, <2>t, <2>r, <2>h DEF InsertRow, Goto
  <2>5. CASE InsertConflicts(c)
    BY <2>5, <2>a, <2>t, <2>r, <2>h DEF InsertConflicts, Goto
  <2>6. CASE InsertFails(c)
    <3>1. UNCHANGED ledger
      BY <2>6, <2>a, <2>t DEF InsertFails, Disturb, Hindered
    <3> QED
      BY <3>1, <2>6, <2>a, <2>t, <2>r, <2>h DEF InsertFails, Return
  <2>7. CASE LookupWinner(c)
    BY <2>7, <2>a, <2>t, <2>r, <2>h DEF LookupWinner, Return
  <2>8. CASE SumForUser(c)
    <3>1. Refreshing(a) = {}
      BY <2>8, <2>a, <2>t DEF SumForUser, Disturb, Hindered
    <3>2. Refreshing(a)' = {c}
      BY <3>1, <2>8, <2>a, <2>t, <2>r DEF SumForUser, Goto
    <3>3. snapshot'[c] = RowsOf(a)' /\ balances' = balances /\ RowsOf(a)' = RowsOf(a)
      BY <2>8, <2>a, <2>t, <2>r DEF SumForUser
    <3> QED
      BY <3>2, <3>3, <2>h
  <2>9. CASE ReadPrior(c)
    BY <2>9, <2>a, <2>t, <2>r, <2>h DEF ReadPrior, Goto, Disturb
  <2>10. CASE Upsert(c)
    BY <2>10, <2>a, <2>t, <2>r, <2>h DEF Upsert, Return
  <2>11. CASE RefreshFails(c)
    BY <2>11, <2>a, <2>t, <2>r, <2>h DEF RefreshFails, Return, Disturb, Hindered
  <2>12. CASE Crash(c)
    <3>1. pc[c] \notin {"sum", "prior", "upsert"}
      BY <2>12, <2>a, <2>t DEF Crash, Disturb, Hindered
    <3> QED
      BY <3>1, <2>12, <2>a, <2>t, <2>r, <2>h DEF Crash, Return
  <2> QED
    BY <2>2, <2>3, <2>4, <2>5, <2>6, <2>7, <2>8, <2>9, <2>10, <2>11, <2>12 DEF Step
<1>3. TypeOK /\ FreshInv => FreshUnlessDisturbed
  BY DEF TypeOK, FreshInv, AccountFresh, FreshUnlessDisturbed, Hindered, Refreshing, RowsOf, Acct
<1> QED
  BY <1>1, <1>2, <1>3, TypeCorrect, PTL DEF Spec

-------------------------------------------------------------------------------
(* The ledger with its interleaved statements implements the charge book in *)
(* which a call is recorded and answered atomically.                        *)
THEOREM ImplementsBook == Spec => BookSpec
<1> USE NoKeyAssumption, RequestsAssumption
<1>1. Init => Book!Init
  BY DEF Init, Book!Init
<1>2. TypeOK /\ ChargeInv /\ [Next]_vars => [Book!Next]_(Book!vars)
  <2> SUFFICES ASSUME TypeOK, ChargeInv, [Next]_vars PROVE [Book!Next]_(Book!vars)
    OBVIOUS
  <2>1. CASE UNCHANGED vars
    BY <2>1 DEF vars, Book!vars, KeyOf, TenantOfCall, Acct
  <2> SUFFICES ASSUME NEW c \in Calls, Begin(c) \/ Step(c) \/ Crash(c)
               PROVE  Book!Record(c) \/ Book!Answer(c) \/ UNCHANGED Book!vars
    BY <2>1 DEF Next, Book!Next
  <2>t. /\ pc \in [Calls -> PCs] /\ answer \in [Calls -> Answers] /\ ledger \subseteq Calls
        /\ \A d \in Calls : answer[d] # "none" <=> pc[d] = "done"
    BY DEF TypeOK
  <2>r. req' = req
    BY DEF Begin, Step, Crash, LookupKey, InsertRow, InsertConflicts, InsertFails,
           LookupWinner, SumForUser, ReadPrior, Upsert, RefreshFails
  <2>k. /\ UNCHANGED [d \in Calls |-> KeyOf(d)]
        /\ UNCHANGED [d \in Calls |-> TenantOfCall(d)]
    BY <2>r DEF KeyOf, TenantOfCall, Acct
  <2>n. ASSUME pc[c] # "done" PROVE answer[c] = "none"
    BY <2>n, <2>t
  \* A step that goes on without inserting is a stutter of the book.
  <2>s. ASSUME UNCHANGED <<ledger, answer>> PROVE UNCHANGED Book!vars
    BY <2>s, <2>k DEF Book!vars
  \* A return without insertion is an answer the book allows.
  <2>v. ASSUME UNCHANGED ledger, pc[c] # "done",
               NEW v \in Answers \ {"none"}, Return(c, v),
               v = "posted" => c \in ledger,
               v = "existing" => KeyOf(c) # NoKey /\ VisibleWithKey(c) # {} /\ c \notin ledger,
               v = "duplicate" => c \notin ledger
        PROVE  Book!Answer(c)
    BY <2>v, <2>n, <2>k, <2>t DEF Book!Answer, Book!Answers, Answers, Return, VisibleWithKey
  \* An insertion, answered or not, is a recording.
  <2>i. ASSUME ~KeyTaken(c), c \notin ledger, pc[c] # "done", ledger' = ledger \cup {c},
               UNCHANGED answer \/ answer' = [answer EXCEPT ![c] = "error"]
        PROVE  Book!Record(c)
    BY <2>i, <2>n, <2>k, <2>t DEF Book!Record, Book!KeyFree, KeyTaken
  <2>2. CASE Begin(c)
    BY <2>2, <2>s DEF Begin, Goto
  <2>3. CASE LookupKey(c)
    BY <2>3, <2>s, <2>v DEF LookupKey, Goto, ChargeInv, Answers
  <2>4. CASE InsertRow(c)
    BY <2>4, <2>i DEF InsertRow, Goto, ChargeInv
  <2>5. CASE InsertConflicts(c)
    BY <2>5, <2>s DEF InsertConflicts, Goto
  <2>6. CASE InsertFails(c)
    BY <2>6, <2>i, <2>v DEF InsertFails, Return, ChargeInv, Answers
  <2>7. CASE LookupWinner(c)
    BY <2>7, <2>v DEF LookupWinner, ChargeInv, Answers
  <2>8. CASE SumForUser(c)
    BY <2>8, <2>s DEF SumForUser, Goto
  <2>9. CASE ReadPrior(c)
    BY <2>9, <2>s DEF ReadPrior, Goto
  <2>10. CASE Upsert(c)
    BY <2>10, <2>v DEF Upsert, Succeeded, ChargeInv, Answers
  <2>11. CASE RefreshFails(c)
    BY <2>11, <2>v DEF RefreshFails, ChargeInv, Answers
  <2>12. CASE Crash(c)
    BY <2>12, <2>v DEF Crash, Answers
  <2> QED
    BY <2>2, <2>3, <2>4, <2>5, <2>6, <2>7, <2>8, <2>9, <2>10, <2>11, <2>12 DEF Step
<1> QED
  BY <1>1, <1>2, TypeCorrect, ChargeInvariant, PTL DEF Spec, BookSpec, Book!Spec
================================================================================
