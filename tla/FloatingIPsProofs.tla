--------------------------- MODULE FloatingIPsProofs ---------------------------
(***************************************************************************)
(* Theorems about FloatingIPs, for every set of calls, tenants, instances, *)
(* pools and ranges, and about the walk of IPAllocation, for every range,  *)
(* set of taken addresses and cap, with their proofs.                      *)
(***************************************************************************)
EXTENDS FloatingIPs, IPAllocation, TLAPS

(* The arguments and the row of a call, by the statement it stands at.     *)
CallInv(c) ==
    /\ pc[c] \in {"pick", "insert"} => request[c] \in Allocations
    /\ pc[c] # "done" => rows[c] = NoRow
    /\ pc[c] = "insert" => /\ seen[c].state = "live" /\ seen[c].address \in Addresses
                           /\ seen[c].instance = NoInstance /\ seen[c].status = "pending"
    /\ pc[c] \in {"findinstance", "push"} => request[c] \in Attachments
    /\ pc[c] = "unpush" => request[c] \in Removals
    /\ pc[c] = "set" => \/ request[c] \in Attachments
                        \/ request[c] \in Removals /\ request[c].op = "detach"
    /\ pc[c] = "softdelete" => request[c] \in Removals /\ request[c].op = "release"
    /\ pc[c] \in {"listpool", "droppool"} => request[c] \in Deletions
    /\ OnRow(c) => rows[request[c].ip] # NoRow
    /\ rows[c] # NoRow => /\ rows[c].state # "none" /\ rows[c].address \in Addresses
                          /\ rows[c].status = "pushed" => Attached(c)

TypeInv == TypeOK /\ \A c \in Calls : CallInv(c)

LEMMA AddressesOfRanges ==
    ASSUME NEW p \in Pools, NEW i \in DOMAIN Ranges[p], NEW a \in Ranges[p][i]
    PROVE  a \in Addresses
BY DEF Addresses

LEMMA Rows == /\ NoRow \in Row
              /\ NoRow.state = "none" /\ NoRow.address = NoAddress /\ NoRow.instance = NoInstance
              /\ NoRow.status = "pending"
BY DEF NoRow, Row, PushStatuses

LEMMA TypeInit == Init => TypeInv
<1> SUFFICES ASSUME Init PROVE TypeInv
  OBVIOUS
<1>1. \A p \in Pools : DOMAIN Ranges[p] \subseteq Nat
  BY RangesAssumption
<1>2. TypeOK
  BY <1>1, Rows, NoRequestAssumption DEF Init, TypeOK, PCs, Answers
<1>3. \A c \in Calls : CallInv(c)
  BY DEF Init, CallInv, OnRow
<1> QED
  BY <1>2, <1>3 DEF TypeInv

(* What a step of c does to the rows: it writes to rows that exist, keeps  *)
(* their addresses, and may insert its own.                                *)
RowsMove(c) ==
    /\ rows' \in [Calls -> Row]
    /\ \A x \in Calls : x # c /\ rows[x] = NoRow => rows'[x] = NoRow
    /\ \A x \in Calls : rows[x] # NoRow =>
            /\ rows'[x].state # "none"
            /\ rows'[x].address = rows[x].address
            /\ rows'[x].status = "pushed" => rows'[x].instance # NoInstance

(* The other calls keep their part of the invariant.                       *)
LEMMA OthersKeep ==
    ASSUME TypeInv, NEW c \in Calls, RowsMove(c),
           \A x \in Calls : x # c => /\ pc'[x] = pc[x] /\ request'[x] = request[x]
                                     /\ seen'[x] = seen[x]
    PROVE  \A x \in Calls : x # c => CallInv(x)'
<1> SUFFICES ASSUME NEW x \in Calls, x # c PROVE CallInv(x)'
  OBVIOUS
<1>1. CallInv(x)
  BY DEF TypeInv
<1>2. pc'[x] = pc[x] /\ request'[x] = request[x] /\ seen'[x] = seen[x]
  OBVIOUS
<1>3. OnRow(x) => request[x].ip \in Calls
  BY <1>1 DEF CallInv, OnRow, Attachments, Removals
<1>4. OnRow(x)' => rows'[request'[x].ip] # NoRow
  BY <1>1, <1>2, <1>3, Rows DEF CallInv, OnRow, RowsMove
<1>5. /\ pc'[x] # "done" => rows'[x] = NoRow
      /\ rows'[x] # NoRow => /\ rows'[x].state # "none" /\ rows'[x].address \in Addresses
                             /\ rows'[x].status = "pushed" => rows'[x].instance # NoInstance
  BY <1>1, <1>2 DEF CallInv, RowsMove
<1> QED
  BY <1>1, <1>2, <1>4, <1>5 DEF CallInv, Attached

(* The row a running call works on. *)
LEMMA RowOf ==
    ASSUME TypeInv, NEW c \in Calls, OnRow(c)
    PROVE  /\ request[c] \in Attachments \cup Removals
           /\ request[c].ip \in Calls /\ request[c].tenant \in Tenants
           /\ rows[request[c].ip] \in Row /\ rows[request[c].ip] # NoRow
           /\ request[c].ip # c
           /\ AddressOf(c) \in Addresses
<1>1. CallInv(c) /\ pc[c] \notin {"idle", "done"}
  BY DEF TypeInv, OnRow
<1>2. request[c] \in Attachments \cup Removals
  BY <1>1 DEF CallInv, OnRow
<1>3. request[c].ip \in Calls /\ request[c].tenant \in Tenants
  BY <1>2 DEF Attachments, Removals
<1>4. rows[request[c].ip] # NoRow /\ CallInv(request[c].ip)
  BY <1>1, <1>3 DEF CallInv, TypeInv
<1>5. rows[c] = NoRow
  BY <1>1 DEF CallInv
<1> QED
  BY <1>2, <1>3, <1>4, <1>5 DEF CallInv, AddressOf, TypeInv, TypeOK

(* The two writes to a row, seen from the types.                           *)
LEMMA WritesMove ==
    ASSUME TypeInv, NEW c \in Calls, pc[c] \in {"set", "softdelete"},
           rows' \in {rows, IF pc[c] = "set" THEN WithInstance(c) ELSE Released(c)}
    PROVE  RowsMove(c)
<1> DEFINE r == request[c].ip
<1>1. OnRow(c)
  BY DEF OnRow
<1>2. r \in Calls /\ rows[r] \in Row /\ rows[r] # NoRow /\ r # c
  BY <1>1, RowOf
<1>3. rows \in [Calls -> Row] /\ \A x \in Calls : CallInv(x)
  BY DEF TypeInv, TypeOK
<1>4. CASE rows' = rows
  BY <1>3, <1>4 DEF RowsMove, CallInv, Attached
<1>5. CASE pc[c] = "set" /\ rows' = WithInstance(c)
  <2>1. CASE ~Visible(request[c])
    BY <2>1, <1>4, <1>5 DEF WithInstance
  <2>2. CASE Visible(request[c]) /\ request[c].op = "attach"
    <3>1. request[c].instance \in Instances
      BY <1>3, <1>5, <2>2 DEF CallInv, Attachments
    <3>2. rows' = [rows EXCEPT ![r].instance = request[c].instance, ![r].status = seen[c].status]
      BY <1>5, <2>2 DEF WithInstance
    <3>3. seen[c].status \in PushStatuses
      BY DEF TypeInv, TypeOK, Row
    <3>4. /\ rows'[r] \in Row /\ rows'[r].state = rows[r].state
          /\ rows'[r].address = rows[r].address /\ rows'[r].instance = request[c].instance
      BY <1>2, <1>3, <3>1, <3>2, <3>3 DEF Row
    <3>5. \A x \in Calls : x # r => rows'[x] = rows[x]
      BY <1>3, <3>2
    <3>6. rows' \in [Calls -> Row]
      BY <1>2, <1>3, <3>2, <3>4, <3>5
    <3> QED
      BY <1>2, <1>3, <3>1, <3>4, <3>5, <3>6, NoInstanceAssumption DEF RowsMove, CallInv, Attached
  <2>3. CASE Visible(request[c]) /\ request[c].op # "attach"
    <3>2. rows' = [rows EXCEPT ![r].instance = NoInstance, ![r].status = "pending"]
      BY <1>5, <2>3 DEF WithInstance
    <3>4. /\ rows'[r] \in Row /\ rows'[r].state = rows[r].state
          /\ rows'[r].address = rows[r].address /\ rows'[r].status = "pending"
      BY <1>2, <1>3, <3>2 DEF Row, PushStatuses
    <3>5. \A x \in Calls : x # r => rows'[x] = rows[x]
      BY <1>3, <3>2
    <3>6. rows' \in [Calls -> Row]
      BY <1>2, <1>3, <3>2, <3>4, <3>5
    <3> QED
      BY <1>2, <1>3, <3>4, <3>5, <3>6 DEF RowsMove, CallInv, Attached
  <2> QED
    BY <2>1, <2>2, <2>3
<1>6. CASE pc[c] = "softdelete" /\ rows' = Released(c)
  <2>1. CASE ~Visible(request[c])
    BY <2>1, <1>4, <1>6 DEF Released
  <2>2. CASE Visible(request[c])
    <3>2. rows' = [rows EXCEPT ![r].state = "released", ![r].instance = NoInstance,
                               ![r].status = "pending"]
      BY <1>6, <2>2 DEF Released
    <3>4. /\ rows'[r] \in Row /\ rows'[r].state = "released"
          /\ rows'[r].address = rows[r].address /\ rows'[r].status = "pending"
      BY <1>2, <1>3, <3>2 DEF Row, PushStatuses
    <3>5. \A x \in Calls : x # r => rows'[x] = rows[x]
      BY <1>3, <3>2
    <3>6. rows' \in [Calls -> Row]
      BY <1>2, <1>3, <3>2, <3>4, <3>5
    <3> QED
      BY <1>2, <1>3, <3>4, <3>5, <3>6 DEF RowsMove, CallInv, Attached
  <2> QED
    BY <2>1, <2>2
<1> QED
  BY <1>4, <1>5, <1>6

(* The first read of an operation on a row. *)
LEMMA ProceedType ==
    ASSUME TypeInv, NEW c \in Calls, NEW q \in Attachments \cup Removals, rows[q.ip] # NoRow,
           pc[c] = "idle", request' = [request EXCEPT ![c] = q], UNCHANGED <<tables, forwards>>,
           NEW label \in {"findinstance", "unpush", "set", "softdelete"},
           label = "findinstance" => q \in Attachments,
           label # "findinstance" => q \in Removals,
           label = "set" => q.op = "detach",
           label = "softdelete" => q.op = "release",
           Proceed(c, q, label)
    PROVE  TypeOK' /\ CallInv(c)'
<1>1. /\ q.ip \in Calls /\ rows[q.ip] \in Row /\ rows[q.ip].address \in Addresses
      /\ q \in Requests /\ q # NoRequest
  BY NoRequestAssumption
  DEF Attachments, Removals, Requests, TypeInv, TypeOK, CallInv
<1>2. hindered' \in [Addresses -> SUBSET {"overlap", "failure"}]
  BY <1>1 DEF Proceed, NoteOverlap, Mark, TypeInv, TypeOK
<1>3. seen' = [seen EXCEPT ![c] = rows[q.ip]] /\ pc' = [pc EXCEPT ![c] = label] /\ answer' = answer
  BY DEF Proceed, Goto
<1>4. rows[c] = NoRow
  BY DEF TypeInv, CallInv
<1>5. TypeOK'
  BY <1>1, <1>2, <1>3, <1>4 DEF TypeInv, TypeOK, tables, PCs
<1>6. pc'[c] = label /\ request'[c] = q /\ rows' = rows
  BY <1>3 DEF TypeInv, TypeOK, tables
<1> QED
  BY <1>1, <1>4, <1>5, <1>6 DEF CallInv, OnRow

(* An operation that is refused, or that ends. *)
LEMMA ReturnType ==
    ASSUME TypeInv, NEW c \in Calls, NEW v \in Answers \ {"none"}, Return(c, v),
           NEW q \in Requests, q # NoRequest, request' = [request EXCEPT ![c] = q],
           RowsMove(c), rows'[c] # NoRow => q \in Allocations,
           rows'[c] # NoRow => /\ rows'[c].state # "none" /\ rows'[c].address \in Addresses
                               /\ rows'[c].status = "pushed" => rows'[c].instance # NoInstance,
           registered' \in [Pools -> SUBSET Nat],
           \A p \in Pools : registered'[p] \subseteq DOMAIN Ranges[p],
           pools' \in [Pools -> {"active", "inactive", "deleted"}],
           instances' \subseteq Instances, forwards' \subseteq Tenants \X Addresses,
           seen' \in [Calls -> Row], hindered' \in [Addresses -> SUBSET {"overlap", "failure"}]
    PROVE  TypeOK' /\ CallInv(c)'
<1>1. pc' = [pc EXCEPT ![c] = "done"] /\ answer' = [answer EXCEPT ![c] = v]
  BY DEF Return
<1>2. \A x \in Calls : rows'[x] # NoRow => request'[x] \in Allocations
  <2> TAKE x \in Calls
  <2>1. x # c => (rows'[x] # NoRow => rows[x] # NoRow)
    BY DEF RowsMove
  <2> QED
    BY <2>1 DEF TypeInv, TypeOK
<1>3. rows' \in [Calls -> Row]
  BY DEF RowsMove
<1>4. TypeOK'
  BY <1>1, <1>2, <1>3 DEF TypeInv, TypeOK, PCs, Answers
<1>5. pc'[c] = "done"
  BY <1>1 DEF TypeInv, TypeOK
<1> QED
  BY <1>4, <1>5 DEF CallInv, OnRow, Attached

(* Noting the outcome of a push. *)
LEMMA SeenStatus ==
    ASSUME seen \in [Calls -> Row], NEW c \in Calls, NEW s \in PushStatuses,
           seen' = [seen EXCEPT ![c].status = s]
    PROVE  seen' \in [Calls -> Row] /\ seen'[c].status = s /\ \A x \in Calls : x # c => seen'[x] = seen[x]
<1>1. seen[c] \in Row
  OBVIOUS
<1>2. seen'[c] = [seen[c] EXCEPT !.status = s]
  OBVIOUS
<1>3. seen'[c] \in Row /\ seen'[c].status = s
  BY <1>1, <1>2 DEF Row
<1>4. \A x \in Calls : x # c => seen'[x] = seen[x]
  OBVIOUS
<1> QED
  BY <1>3, <1>4

LEMMA Unmoved == ASSUME TypeInv, NEW c \in Calls, UNCHANGED rows PROVE RowsMove(c)
BY DEF TypeInv, TypeOK, CallInv, RowsMove, Attached

(* A step that leaves the rows alone and moves c on.                       *)
LEMMA GotoType ==
    ASSUME TypeInv, NEW c \in Calls, NEW label \in PCs \ {"idle", "done"}, Running(c),
           Goto(c, label), UNCHANGED <<tables, request>>,
           forwards' \subseteq Tenants \X Addresses,
           seen' \in [Calls -> Row], hindered' \in [Addresses -> SUBSET {"overlap", "failure"}],
           pc'[c] = label => CallInv(c)'
    PROVE  TypeOK' /\ CallInv(c)'
<1>1. pc' = [pc EXCEPT ![c] = label] /\ answer' = answer
  BY DEF Goto
<1>2. pc[c] \notin {"idle", "done"}
  BY DEF Running
<1>3. TypeOK'
  BY <1>1, <1>2 DEF TypeInv, TypeOK, tables
<1>4. pc'[c] = label
  BY <1>1 DEF TypeInv, TypeOK
<1> QED
  BY <1>3, <1>4

-------------------------------------------------------------------------------
LEMMA TypeStep == TypeInv /\ [Next]_vars => TypeInv'
<1> SUFFICES ASSUME TypeInv, [Next]_vars PROVE TypeInv'
  OBVIOUS
<1> USE NoRequestAssumption
<1>u. CASE UNCHANGED vars
  BY <1>u DEF vars, TypeInv, TypeOK, CallInv, OnRow, Attached
<1>o. ASSUME UNCHANGED <<rows, forwards, request, pc, answer, seen, hindered>>,
             registered' \in [Pools -> SUBSET Nat],
             \A p \in Pools : registered'[p] \subseteq DOMAIN Ranges[p],
             pools' \in [Pools -> {"active", "inactive", "deleted"}],
             instances' \subseteq Instances
      PROVE  TypeInv'
  BY <1>o DEF TypeInv, TypeOK, CallInv, OnRow, Attached
<1>p. ASSUME NEW p \in Pools, Operator(p) PROVE TypeInv'
  <2>1. CASE UpdateIPPool(p)
    BY <2>1, <1>o DEF UpdateIPPool, TypeInv, TypeOK
  <2>2. ASSUME NEW i \in DOMAIN Ranges[p], AddIPPoolRange(p, i) \/ DeleteIPPoolRange(p, i)
        PROVE  TypeInv'
    <3>1. i \in Nat
      BY RangesAssumption
    <3>2. /\ registered' \in [Pools -> SUBSET Nat]
          /\ \A s \in Pools : registered'[s] \subseteq DOMAIN Ranges[s]
      BY <2>2, <3>1 DEF AddIPPoolRange, DeleteIPPoolRange, TypeInv, TypeOK
    <3> QED
      BY <2>2, <3>2, <1>o DEF AddIPPoolRange, DeleteIPPoolRange, TypeInv, TypeOK
  <2> QED
    BY <1>p, <2>1, <2>2 DEF Operator
<1>i. ASSUME NEW i \in Instances, DeleteInstance(i) PROVE TypeInv'
  BY <1>i, <1>o DEF DeleteInstance, TypeInv, TypeOK
<1>c. ASSUME NEW c \in Calls, Begin(c) \/ Step(c) \/ Crash(c) PROVE TypeInv'
  <2> SUFFICES RowsMove(c) /\ TypeOK' /\ CallInv(c)'
    <3>1. \A x \in Calls : x # c => /\ pc'[x] = pc[x] /\ request'[x] = request[x]
                                    /\ seen'[x] = seen[x]
      <4> USE DEF TypeInv, TypeOK, Goto, Return
      <4>1. CASE Begin(c)
        <5>1. ASSUME NEW q, BeginAllocate(c, q) \/ BeginDeletePool(c, q)
              PROVE  \A x \in Calls : x # c => /\ pc'[x] = pc[x] /\ request'[x] = request[x]
                                              /\ seen'[x] = seen[x]
          BY <5>1 DEF BeginAllocate, BeginDeletePool
        <5>2. ASSUME NEW q, BeginAttach(c, q) \/ BeginDetach(c, q) \/ BeginRelease(c, q)
              PROVE  \A x \in Calls : x # c => /\ pc'[x] = pc[x] /\ request'[x] = request[x]
                                              /\ seen'[x] = seen[x]
          BY <5>2 DEF BeginAttach, BeginDetach, BeginRelease, Proceed, Refuse
        <5> QED
          BY <4>1, <5>1, <5>2 DEF Begin
      <4>2. CASE Pick(c) \/ Insert(c) \/ InsertFails(c) \/ ListPool(c) \/ DropPool(c) \/ Crash(c)
        <5>1. CASE Pick(c) \/ Insert(c) \/ InsertFails(c)
          BY <5>1 DEF Pick, Insert, InsertFails
        <5>2. CASE ListPool(c) \/ DropPool(c)
          BY <5>2 DEF ListPool, DropPool
        <5>3. CASE Crash(c)
          BY <5>3 DEF Crash
        <5> QED
          BY <4>2, <5>1, <5>2, <5>3
      <4>3. CASE FindInstance(c) \/ Push(c) \/ PushFails(c)
        <5>1. seen' = seen \/ \E s \in PushStatuses : seen' = [seen EXCEPT ![c].status = s]
          BY <4>3 DEF FindInstance, Push, PushFails, PushStatuses
        <5>2. \A x \in Calls : x # c => seen'[x] = seen[x]
          BY <5>1, SeenStatus
        <5> QED
          BY <4>3, <5>2 DEF FindInstance, Push, PushFails
      <4>4. CASE Unpush(c) \/ UnpushFails(c) \/ SetInstance(c) \/ SoftDelete(c) \/ WriteFails(c)
        BY <4>4 DEF Unpush, UnpushFails, SetInstance, SoftDelete, WriteFails
      <4> QED
        BY <1>c, <4>1, <4>2, <4>3, <4>4 DEF Step
    <3> QED
      BY <3>1, OthersKeep DEF TypeInv
  <2>t. TypeOK /\ CallInv(c)
    BY DEF TypeInv
  <2>r. Running(c) => /\ request[c] \in Requests /\ request[c] # NoRequest
                      /\ (request' = request => request' = [request EXCEPT ![c] = request[c]])
    BY <2>t DEF TypeOK, Running
  <2>w. Running(c) => rows[c] = NoRow
    BY <2>t DEF CallInv, Running
  <2>a. OnRow(c) => Running(c) /\ AddressOf(c) \in Addresses /\ ForwardOf(c) \in Tenants \X Addresses
    BY RowOf DEF OnRow, Running, ForwardOf
  <2>h. ASSUME NEW a \in Addresses, NEW why \in {"overlap", "failure"}, Mark(a, why)
        PROVE  hindered' \in [Addresses -> SUBSET {"overlap", "failure"}]
    BY <2>h, <2>t DEF Mark, TypeOK
  \* A step of c that returns and leaves the rows alone.
  <2>e. ASSUME NEW v \in Answers \ {"none"}, Return(c, v), Running(c), UNCHANGED <<rows, request>>,
               UNCHANGED <<registered, instances>>,
               pools' \in [Pools -> {"active", "inactive", "deleted"}],
               forwards' = forwards, seen' \in [Calls -> Row],
               hindered' \in [Addresses -> SUBSET {"overlap", "failure"}]
        PROVE  RowsMove(c) /\ TypeOK' /\ CallInv(c)'
    BY <2>e, <2>r, <2>w, <2>t, Unmoved, ReturnType DEF TypeOK
  \* The same for the first step.
  <2>b. ASSUME NEW q \in Requests, request' = [request EXCEPT ![c] = q], pc[c] = "idle",
               NEW v \in Answers \ {"none"}, Return(c, v),
               UNCHANGED <<tables, forwards, seen, hindered>>
        PROVE  RowsMove(c) /\ TypeOK' /\ CallInv(c)'
    BY <2>b, <2>t, Unmoved, ReturnType DEF TypeOK, CallInv, tables
  <2>1. ASSUME NEW q \in Allocations \cup Deletions, pc[c] = "idle",
               request' = [request EXCEPT ![c] = q], NEW label \in {"pick", "listpool"},
               Goto(c, label), label = "pick" <=> q \in Allocations,
               UNCHANGED <<tables, forwards, seen, hindered>>
        PROVE  RowsMove(c) /\ TypeOK' /\ CallInv(c)'
    <3>1. pc'[c] = label /\ request'[c] = q /\ rows'[c] = NoRow
      BY <2>1, <2>t DEF TypeOK, Goto, tables, CallInv
    <3>2. CallInv(c)'
      BY <2>1, <3>1 DEF CallInv, OnRow
    <3> QED
      BY <2>1, <2>t, <3>1, <3>2, Unmoved DEF TypeOK, Goto, tables, PCs, Requests
  <2>2. ASSUME NEW q \in Allocations, BeginAllocate(c, q)
        PROVE  RowsMove(c) /\ TypeOK' /\ CallInv(c)'
    <3>1. q \in Requests /\ "inactive" \in Answers \ {"none"} /\ "error" \in Answers \ {"none"}
          /\ "notfound" \in Answers \ {"none"}
      BY DEF Requests, Answers
    <3> QED
      BY <2>2, <2>b, <2>1, <3>1 DEF BeginAllocate
  <2>3. ASSUME NEW q \in Deletions, BeginDeletePool(c, q)
        PROVE  RowsMove(c) /\ TypeOK' /\ CallInv(c)'
    <3>1. q \in Requests /\ "error" \in Answers \ {"none"} /\ "notfound" \in Answers \ {"none"}
          /\ q \notin Allocations
      BY DEF Requests, Answers, Deletions, Allocations
    <3> QED
      BY <2>3, <2>b, <2>1, <3>1 DEF BeginDeletePool
  <2>v. \A v \in {"ok", "notfound", "exhausted", "taken", "conflict", "error", "crashed"} :
            v \in Answers \ {"none"}
    BY DEF Answers
  <2>4. ASSUME NEW q \in Attachments \cup Removals, rows[q.ip] # NoRow,
               \/ q \in Attachments /\ BeginAttach(c, q)
               \/ q \in Removals /\ q.op = "detach" /\ BeginDetach(c, q)
               \/ q \in Removals /\ q.op = "release" /\ BeginRelease(c, q)
        PROVE  RowsMove(c) /\ TypeOK' /\ CallInv(c)'
    <3>1. q \in Requests
      BY DEF Requests
    <3>2. rows' = rows /\ RowsMove(c)
      BY <2>4, Unmoved DEF BeginAttach, BeginDetach, BeginRelease, tables
    <3>3. CASE \E v \in {"notfound", "conflict", "error"} : Refuse(c, v)
      BY <2>4, <3>1, <3>3, <2>b, <2>v DEF BeginAttach, BeginDetach, BeginRelease, Refuse
    <3>4. CASE BeginAttach(c, q) /\ q \in Attachments /\ Proceed(c, q, "findinstance")
      BY <2>4, <3>2, <3>4, ProceedType DEF BeginAttach
    <3>5. CASE /\ BeginDetach(c, q) /\ q \in Removals /\ q.op = "detach"
               /\ \E label \in {"unpush", "set"} : Proceed(c, q, label)
      BY <2>4, <3>2, <3>5, ProceedType DEF BeginDetach
    <3>6. CASE /\ BeginRelease(c, q) /\ q \in Removals /\ q.op = "release"
               /\ \E label \in {"unpush", "softdelete"} : Proceed(c, q, label)
      BY <2>4, <3>2, <3>6, ProceedType DEF BeginRelease
    <3> QED
      BY <2>4, <3>3, <3>4, <3>5, <3>6 DEF BeginAttach, BeginDetach, BeginRelease
  <2>5. CASE Pick(c)
    <3>1. request[c] \in Allocations /\ request[c].pool \in Pools /\ Running(c)
      BY <2>5, <2>t DEF Pick, CallInv, Allocations, Running
    <3>2. CASE \E v \in {"exhausted", "error"} : Return(c, v) /\ UNCHANGED seen
      BY <2>5, <3>1, <3>2, <2>e, <2>t, <2>v DEF Pick, tables, TypeOK
    <3>3. CASE Goto(c, "insert")
      <4>p. PICK i \in registered[request[c].pool] : \E a \in Ranges[request[c].pool][i] :
                seen' = [seen EXCEPT ![c] = [NoRow EXCEPT !.state = "live", !.address = a]]
        BY <2>5, <3>3 DEF Pick, Goto, Return, TypeOK, TypeInv
      <4>1. PICK a \in Ranges[request[c].pool][i] :
                seen' = [seen EXCEPT ![c] = [NoRow EXCEPT !.state = "live", !.address = a]]
        BY <4>p
      <4>2. a \in Addresses
        BY <3>1, <2>t, AddressesOfRanges DEF TypeOK
      <4>3. [NoRow EXCEPT !.state = "live", !.address = a] \in Row
        BY <4>2 DEF NoRow, Row, PushStatuses
      <4>4. /\ seen'[c].state = "live" /\ seen'[c].address = a /\ seen'[c].instance = NoInstance
            /\ seen'[c].status = "pending"
        BY <4>1, <2>t DEF NoRow, TypeOK
      <4>5. seen' \in [Calls -> Row]
        BY <4>1, <4>3, <2>t DEF TypeOK
      <4>6. rows' = rows /\ request' = request /\ rows[c] = NoRow
        BY <2>5, <2>w, <3>1 DEF Pick, tables
      <4>7. pc'[c] = "insert" => CallInv(c)'
        BY <4>2, <4>4, <4>6, <3>1 DEF CallInv, OnRow
      <4> QED
        BY <2>5, <2>t, <3>1, <3>3, <4>5, <4>6, <4>7, GotoType, Unmoved DEF Pick, PCs, tables, TypeOK
    <3> QED
      BY <2>5, <3>2, <3>3 DEF Pick
  <2>6. CASE Insert(c) \/ InsertFails(c)
    <3>1. /\ request[c] \in Allocations /\ Running(c) /\ rows[c] = NoRow
          /\ seen[c].state = "live" /\ seen[c].address \in Addresses
          /\ seen[c].instance = NoInstance /\ seen[c].status = "pending" /\ seen[c] \in Row
      BY <2>6, <2>t DEF Insert, InsertFails, CallInv, Running, TypeOK
    <3>2. CASE rows' = rows
      BY <2>6, <3>1, <3>2, <2>e, <2>t, <2>v DEF Insert, InsertFails, TypeOK
    <3>3. CASE rows' = [rows EXCEPT ![c] = seen[c]]
      <4>1. RowsMove(c)
        BY <3>1, <3>3, <2>t DEF RowsMove, TypeOK, TypeInv, CallInv, Attached
      <4>2. rows'[c] = seen[c]
        BY <3>3, <2>t DEF TypeOK
      <4>3. \E v \in {"ok", "taken", "error"} : Return(c, v)
        BY <2>6 DEF Insert, InsertFails
      <4> QED
        BY <2>6, <4>1, <4>2, <4>3, <3>1, <2>r, <2>t, <2>v, ReturnType DEF Insert, InsertFails, TypeOK
    <3> QED
      BY <2>6, <3>2, <3>3 DEF Insert, InsertFails
  <2>7. CASE FindInstance(c)
    <3>1. request[c] \in Attachments /\ Running(c) /\ OnRow(c) /\ rows[c] = NoRow
          /\ rows[request[c].ip] # NoRow
      BY <2>7, <2>t DEF FindInstance, CallInv, Running, OnRow
    <3>2. CASE \E v \in {"notfound", "error"} : Return(c, v)
      <4>1. \A label \in {"push", "set"} : ~Goto(c, label)
        BY <3>2, <2>t DEF Goto, Return, TypeOK
      <4>2. UNCHANGED <<tables, forwards, request, hindered, seen>>
        BY <2>7, <4>1 DEF FindInstance
      <4> QED
        BY <3>1, <3>2, <4>2, <2>e, <2>t, <2>v DEF tables, TypeOK
    <3>3. ASSUME NEW label \in {"push", "set"}, Goto(c, label) PROVE RowsMove(c) /\ TypeOK' /\ CallInv(c)'
      <4>1. seen' \in [Calls -> Row] /\ UNCHANGED <<tables, forwards, request, hindered>>
        <5>1. \A v : ~Return(c, v)
          BY <3>3, <2>t DEF Goto, Return, TypeOK
        <5>2. "unsupported" \in PushStatuses
          BY DEF PushStatuses
        <5> QED
          BY <2>7, <2>t, <5>1, <5>2, SeenStatus DEF FindInstance, TypeOK
      <4>2. pc'[c] = label => CallInv(c)'
        BY <3>1, <4>1 DEF CallInv, OnRow, tables
      <4> QED
        BY <2>t, <3>1, <3>3, <4>1, <4>2, GotoType, Unmoved DEF PCs, TypeOK, tables
    <3> QED
      BY <2>7, <3>2, <3>3 DEF FindInstance
  <2>8. CASE Push(c) \/ PushFails(c)
    <3>1. request[c] \in Attachments /\ Running(c) /\ OnRow(c) /\ rows[c] = NoRow
          /\ rows[request[c].ip] # NoRow
      BY <2>8, <2>t DEF Push, PushFails, CallInv, Running, OnRow
    <3>2. Goto(c, "set") /\ UNCHANGED <<tables, request>>
      BY <2>8 DEF Push, PushFails
    <3>3. seen' \in [Calls -> Row] /\ forwards' \subseteq Tenants \X Addresses
      BY <2>8, <2>t, <2>a, <3>1, SeenStatus DEF Push, PushFails, TypeOK, PushStatuses
    <3>4. hindered' \in [Addresses -> SUBSET {"overlap", "failure"}]
      BY <2>8, <2>t, <2>a, <2>h, <3>1 DEF Push, PushFails, TypeOK
    <3>5. pc'[c] = "set" => CallInv(c)'
      BY <3>1, <3>2 DEF CallInv, OnRow, tables
    <3> QED
      BY <3>1, <3>2, <3>3, <3>4, <3>5, GotoType, Unmoved DEF PCs, tables
  <2>9. CASE Unpush(c) \/ UnpushFails(c)
    <3>1. request[c] \in Removals /\ Running(c) /\ OnRow(c) /\ rows[c] = NoRow
          /\ rows[request[c].ip] # NoRow
      BY <2>9, <2>t DEF Unpush, UnpushFails, CallInv, Running, OnRow
    <3>2. /\ AfterUnpush(c) \in {"set", "softdelete"} /\ Goto(c, AfterUnpush(c))
          /\ UNCHANGED <<tables, request, seen>>
      BY <2>9 DEF Unpush, UnpushFails, AfterUnpush
    <3>3. forwards' \subseteq Tenants \X Addresses
      BY <2>9, <2>t DEF Unpush, UnpushFails, TypeOK
    <3>4. hindered' \in [Addresses -> SUBSET {"overlap", "failure"}]
      BY <2>9, <2>t, <2>a, <2>h, <3>1 DEF Unpush, UnpushFails, TypeOK
    <3>5. /\ AfterUnpush(c) = "set" => request[c].op = "detach"
          /\ AfterUnpush(c) = "softdelete" => request[c].op = "release"
      BY <3>1 DEF AfterUnpush, Removals
    <3>6. pc'[c] = AfterUnpush(c) => CallInv(c)'
      BY <3>1, <3>2, <3>5 DEF CallInv, OnRow, tables
    <3> QED
      BY <2>t, <3>1, <3>2, <3>3, <3>4, <3>6, GotoType, Unmoved DEF PCs, TypeOK, tables
  <2>10. CASE SetInstance(c) \/ SoftDelete(c) \/ WriteFails(c)
    <3>1. OnRow(c) /\ Running(c) /\ rows[c] = NoRow /\ pc[c] \in {"set", "softdelete"}
      BY <2>10, <2>w, <2>a DEF SetInstance, SoftDelete, WriteFails, OnRow
    <3>2. RowsMove(c)
      BY <2>10, <3>1, WritesMove DEF SetInstance, SoftDelete, WriteFails
    <3>3. rows'[c] = NoRow
      <4>1. request[c].ip # c /\ request[c].ip \in Calls
        BY <3>1, RowOf
      <4> QED
        BY <2>10, <2>t, <3>1, <4>1
        DEF SetInstance, SoftDelete, WriteFails, WithInstance, Released, TypeOK
    <3>4. hindered' \in [Addresses -> SUBSET {"overlap", "failure"}]
      BY <2>10, <2>t, <2>a, <2>h, <3>1 DEF SetInstance, SoftDelete, WriteFails, TypeOK
    <3>5. \E v \in {"ok", "error"} : Return(c, v)
      BY <2>10 DEF SetInstance, SoftDelete, WriteFails
    <3> QED
      BY <2>10, <2>r, <2>t, <2>v, <3>1, <3>2, <3>3, <3>4, <3>5, ReturnType
      DEF SetInstance, SoftDelete, WriteFails, TypeOK
  <2>11. CASE ListPool(c) \/ DropPool(c)
    <3>1. request[c] \in Deletions /\ Running(c) /\ request[c].pool \in Pools
      BY <2>11, <2>t DEF ListPool, DropPool, CallInv, Running, Deletions
    <3>2. CASE Goto(c, "droppool") /\ ListPool(c)
      <4>1. pc'[c] = "droppool" => CallInv(c)'
        BY <3>1, <3>2, <2>w DEF ListPool, CallInv, OnRow, tables
      <4> QED
        BY <2>t, <3>1, <3>2, <4>1, GotoType, Unmoved DEF ListPool, PCs, TypeOK, tables
    <3>3. CASE \E v \in {"ok", "conflict", "error"} : Return(c, v)
      <4>1. pools' \in [Pools -> {"active", "inactive", "deleted"}]
        BY <2>11, <3>1, <2>t DEF ListPool, DropPool, tables, TypeOK
      <4> QED
        BY <2>11, <3>1, <3>3, <4>1, <2>e, <2>t, <2>v DEF ListPool, DropPool, tables, TypeOK
    <3> QED
      BY <2>11, <3>2, <3>3 DEF ListPool, DropPool
  <2>12. CASE Crash(c)
    <3>1. hindered' \in [Addresses -> SUBSET {"overlap", "failure"}]
      BY <2>12, <2>t, <2>a, <2>h DEF Crash, TypeOK
    <3> QED
      BY <2>12, <3>1, <2>e, <2>t, <2>v DEF Crash, tables, TypeOK
  <2>13. CASE Begin(c)
    BY <2>13, <2>2, <2>3, <2>4 DEF Begin
  <2> QED
    BY <1>c, <2>13, <2>5, <2>6, <2>7, <2>8, <2>9, <2>10, <2>11, <2>12 DEF Step
<1> QED
  BY <1>u, <1>p, <1>i, <1>c DEF Next

(* The tables, Incus and the calls' local state keep their types.          *)
THEOREM TypeCorrect == Spec => []TypeOK
<1>1. TypeInv => TypeOK
  BY DEF TypeInv
<1> QED
  BY <1>1, TypeInit, TypeStep, PTL DEF Spec

-------------------------------------------------------------------------------
(* What a step does to the rows. *)
Inserts(c) ==
    /\ pc[c] = "insert" /\ ~Taken(c)
    /\ rows' = [rows EXCEPT ![c] = seen[c]]
    /\ UNCHANGED <<forwards, request, seen, hindered>>
    /\ \E v \in Answers : Return(c, v)

Writes(c) ==
    /\ pc[c] \in {"set", "softdelete"}
    /\ rows' \in {rows, IF pc[c] = "set" THEN WithInstance(c) ELSE Released(c)}
    /\ UNCHANGED request

LEMMA RowsStep ==
    ASSUME TypeInv, [Next]_vars
    PROVE  UNCHANGED rows \/ \E c \in Calls : Inserts(c) \/ Writes(c)
<1> SUFFICES ASSUME ~UNCHANGED rows PROVE \E c \in Calls : Inserts(c) \/ Writes(c)
  OBVIOUS
<1>1. PICK c \in Calls : Step(c)
  BY DEF vars, tables, Next, Operator, UpdateIPPool, AddIPPoolRange, DeleteIPPoolRange, DeleteInstance,
         Begin, BeginAllocate, BeginAttach, BeginDetach, BeginRelease, BeginDeletePool, Crash
<1>2. CASE Insert(c) \/ InsertFails(c)
  BY <1>2 DEF Insert, InsertFails, Inserts, Answers
<1>3. CASE SetInstance(c) \/ SoftDelete(c) \/ WriteFails(c)
  BY <1>3 DEF SetInstance, SoftDelete, WriteFails, Writes
<1> QED
  BY <1>1, <1>2, <1>3 DEF Step, Pick, FindInstance, Push, PushFails, Unpush, UnpushFails, ListPool,
     DropPool, tables

(* A write changes one visible row, and neither its address nor its being  *)
(* live, unless it releases the row.                                       *)
LEMMA WriteOne ==
    ASSUME TypeInv, NEW c \in Calls, Writes(c)
    PROVE  \A x \in Calls :
              /\ rows'[x].address = rows[x].address
              /\ rows'[x].state = "live" => rows[x].state = "live"
              /\ rows'[x] = rows[x] \/ (x = request[c].ip /\ Visible(request[c]))
<1>1. request[c].ip \in Calls /\ rows \in [Calls -> Row]
  BY RowOf DEF Writes, OnRow, TypeInv, TypeOK
<1>2. CASE rows' = rows
  BY <1>2
<1>3. CASE rows' = WithInstance(c)
  <2> SUFFICES ASSUME Visible(request[c])
               PROVE  \A x \in Calls :
                         /\ rows'[x].address = rows[x].address /\ rows'[x].state = rows[x].state
                         /\ rows'[x] = rows[x] \/ x = request[c].ip
    BY <1>2, <1>3 DEF WithInstance
  <2>1. CASE request[c].op = "attach"
    <3>1. rows' = [rows EXCEPT ![request[c].ip].instance = request[c].instance,
                               ![request[c].ip].status = seen[c].status]
      BY <1>3, <2>1 DEF WithInstance
    <3> QED
      BY <1>1, <3>1 DEF Row
  <2>2. CASE request[c].op # "attach"
    <3>1. rows' = [rows EXCEPT ![request[c].ip].instance = NoInstance,
                               ![request[c].ip].status = "pending"]
      BY <1>3, <2>2 DEF WithInstance
    <3> QED
      BY <1>1, <3>1 DEF Row
  <2> QED
    BY <2>1, <2>2
<1>4. CASE rows' = Released(c)
  <2> SUFFICES ASSUME Visible(request[c])
               PROVE  \A x \in Calls :
                         /\ rows'[x].address = rows[x].address
                         /\ rows'[x].state = "live" => rows[x].state = "live"
                         /\ rows'[x] = rows[x] \/ x = request[c].ip
    BY <1>2, <1>4 DEF Released
  <2>1. rows' = [rows EXCEPT ![request[c].ip].state = "released",
                             ![request[c].ip].instance = NoInstance,
                             ![request[c].ip].status = "pending"]
    BY <1>4 DEF Released
  <2> QED
    BY <1>1, <2>1 DEF Row
<1> QED
  BY <1>2, <1>3, <1>4 DEF Writes

(* The unique index keeps an address from being allocated twice.           *)
LEMMA UniqueStep == TypeInv /\ AddressUnique /\ [Next]_vars => AddressUnique'
<1> SUFFICES ASSUME TypeInv, AddressUnique, [Next]_vars PROVE AddressUnique'
  OBVIOUS
<1>1. CASE UNCHANGED rows
  BY <1>1 DEF AddressUnique, Live
<1>2. ASSUME NEW c \in Calls, Inserts(c) PROVE AddressUnique'
  BY <1>2 DEF Inserts, Taken, AddressUnique, Live, TypeInv, TypeOK
<1>3. ASSUME NEW c \in Calls, Writes(c) PROVE AddressUnique'
  BY <1>3, WriteOne DEF AddressUnique, Live
<1> QED
  BY <1>1, <1>2, <1>3, RowsStep

(* One live allocation per address, whoever raced. *)
THEOREM UniqueAddresses == Spec => []AddressUnique
<1>1. Init => AddressUnique
  BY Rows DEF Init, AddressUnique, Live
<1> QED
  BY <1>1, TypeInit, TypeStep, UniqueStep, PTL DEF Spec

-------------------------------------------------------------------------------
(* An attach past its checks is for an instance of the caller's tenant.    *)
TenantInv ==
    /\ AttachedWithinTenant
    /\ \A c \in Calls : pc[c] \in {"push", "set"} /\ request[c].op = "attach" =>
            Owner[request[c].instance] = request[c].tenant

(* A call keeps its arguments, and only its own steps move it.             *)
LEMMA OwnSteps ==
    ASSUME TypeInv, [Next]_vars
    PROVE  \A x \in Calls :
              /\ pc[x] # "idle" => request'[x] = request[x]
              /\ \/ pc'[x] = pc[x] /\ request'[x] = request[x]
                 \/ Begin(x) \/ Step(x) \/ Crash(x)
<1> SUFFICES ASSUME NEW c \in Calls, Begin(c) \/ Step(c) \/ Crash(c)
             PROVE  \A x \in Calls :
                       /\ pc[x] # "idle" => request'[x] = request[x]
                       /\ \/ pc'[x] = pc[x] /\ request'[x] = request[x]
                          \/ x = c
  BY DEF Next, vars, Operator, UpdateIPPool, AddIPPoolRange, DeleteIPPoolRange, DeleteInstance
<1> USE DEF TypeInv, TypeOK, Goto, Return
<1>1. CASE Begin(c)
  BY <1>1 DEF Begin, BeginAllocate, BeginAttach, BeginDetach, BeginRelease, BeginDeletePool,
         Proceed, Refuse
<1>2. CASE Pick(c) \/ Insert(c) \/ InsertFails(c) \/ ListPool(c) \/ DropPool(c) \/ Crash(c)
  BY <1>2 DEF Pick, Insert, InsertFails, ListPool, DropPool, Crash
<1>3. CASE FindInstance(c) \/ Push(c) \/ PushFails(c) \/ Unpush(c) \/ UnpushFails(c)
  BY <1>3 DEF FindInstance, Push, PushFails, Unpush, UnpushFails
<1>4. CASE SetInstance(c) \/ SoftDelete(c) \/ WriteFails(c)
  BY <1>4 DEF SetInstance, SoftDelete, WriteFails
<1> QED
  BY <1>1, <1>2, <1>3, <1>4 DEF Step

LEMMA TenantStep == TypeInv /\ TenantInv /\ [Next]_vars => TenantInv'
<1> SUFFICES ASSUME TypeInv, TenantInv, [Next]_vars PROVE TenantInv'
  OBVIOUS
<1>1. ASSUME NEW c \in Calls, pc'[c] \in {"push", "set"}, request'[c].op = "attach"
      PROVE  Owner[request'[c].instance] = request'[c].tenant
  <2>1. CASE pc'[c] = pc[c] /\ request'[c] = request[c]
    BY <1>1, <2>1 DEF TenantInv
  <2>t. pc \in [Calls -> PCs] /\ request \in [Calls -> Requests \cup {NoRequest}]
    BY DEF TypeInv, TypeOK
  <2>2. CASE Begin(c)
    <3>1. PICK q \in Removals : BeginDetach(c, q) /\ q.op = "detach"
      BY <1>1, <2>2, <2>t
      DEF Begin, BeginAllocate, BeginAttach, BeginDetach, BeginRelease, BeginDeletePool, Proceed,
          Refuse, Goto, Return
    <3> QED
      BY <1>1, <3>1, <2>t DEF BeginDetach
  <2>3. CASE FindInstance(c)
    BY <1>1, <2>3, <2>t DEF FindInstance, Goto, Return
  <2>4. CASE Push(c) \/ PushFails(c)
    BY <1>1, <2>4 DEF Push, PushFails, TenantInv
  <2>5. CASE Unpush(c) \/ UnpushFails(c)
    <3>1. request[c] \in Removals
      BY <2>5 DEF Unpush, UnpushFails, TypeInv, CallInv
    <3> QED
      BY <1>1, <2>5, <3>1 DEF Unpush, UnpushFails, Removals
  <2>6. CASE Crash(c) \/ Pick(c) \/ Insert(c) \/ InsertFails(c) \/ ListPool(c) \/ DropPool(c)
             \/ SetInstance(c) \/ SoftDelete(c) \/ WriteFails(c)
    BY <1>1, <2>6, <2>t DEF Crash, Pick, Insert, InsertFails, ListPool, DropPool, SetInstance,
           SoftDelete, WriteFails, Goto, Return
  <2> QED
    BY <2>1, <2>2, <2>3, <2>4, <2>5, <2>6, OwnSteps DEF Step
<1>2. ASSUME NEW x \in Calls, rows'[x].state = "live", rows'[x].instance # NoInstance
      PROVE  Owner[rows'[x].instance] = request'[x].tenant
  <2>1. rows[x] # NoRow => request'[x] = request[x]
    BY OwnSteps DEF TypeInv, CallInv
  <2>2. CASE rows'[x] = rows[x]
    BY <1>2, <2>1, <2>2, Rows DEF TenantInv, AttachedWithinTenant, Live, Attached, TenantOf
  <2>3. ASSUME NEW c \in Calls, Inserts(c), rows'[x] # rows[x] PROVE FALSE
    BY <1>2, <2>3 DEF Inserts, TypeInv, TypeOK, CallInv
  <2>4. ASSUME NEW c \in Calls, Writes(c), rows'[x] # rows[x]
        PROVE  Owner[rows'[x].instance] = request'[x].tenant
    <3>1. x = request[c].ip /\ Visible(request[c])
      BY <2>4, WriteOne
    <3>2. rows' = WithInstance(c) /\ pc[c] = "set" /\ request[c].op = "attach"
      BY <1>2, <2>4, <3>1 DEF Writes, WithInstance, Released, TypeInv, TypeOK, Live, Row
    <3>3. rows' = [rows EXCEPT ![x].instance = request[c].instance, ![x].status = seen[c].status]
      BY <3>1, <3>2 DEF WithInstance
    <3>4. rows[x] \in Row
      BY DEF TypeInv, TypeOK
    <3>5. rows'[x].instance = request[c].instance
      BY <3>3, <3>4 DEF TypeInv, TypeOK, Row
    <3> QED
      BY <2>4, <3>1, <3>2, <3>5 DEF TenantInv, Visible, TenantOf, Writes
  <2> QED
    BY <2>2, <2>3, <2>4, RowsStep
<1> QED
  BY <1>1, <1>2 DEF TenantInv, AttachedWithinTenant, Live, Attached, TenantOf

(* A floating IP is only attached to an instance of its own tenant. *)
THEOREM WithinTenant == Spec => []AttachedWithinTenant
<1>1. Init => TenantInv
  BY Rows DEF Init, TenantInv, AttachedWithinTenant, Live
<1>2. TenantInv => AttachedWithinTenant
  BY DEF TenantInv
<1> QED
  BY <1>1, <1>2, TypeInit, TypeStep, TenantStep, PTL DEF Spec

-------------------------------------------------------------------------------
(* Forwards. While nothing befell an address, at most one call works on    *)
(* it, that call knows where it stands, and between calls the forward and  *)
(* the row agree.                                                          *)
Quiet(a) == hindered[a] = {}

Free(a) == \A c \in Calls : ~(OnRow(c) /\ AddressOf(c) = a)

(* What a call knows of the forward of its row, when it is undisturbed. *)
Working(c) ==
    /\ Visible(request[c])
    /\ pc[c] \in {"findinstance", "push"} =>
            rows[request[c].ip].status # "pushed" /\ ForwardOf(c) \notin forwards
    /\ pc[c] = "set" /\ request[c].op = "attach" =>
            (ForwardOf(c) \in forwards <=> seen[c].status = "pushed")
    /\ pc[c] = "set" /\ request[c].op # "attach" => ForwardOf(c) \notin forwards
    /\ pc[c] = "softdelete" => ForwardOf(c) \notin forwards

OneWorker ==
    \A c, x \in Calls : OnRow(c) /\ OnRow(x) /\ AddressOf(c) = AddressOf(x) /\ Quiet(AddressOf(c))
                            => c = x

Workers == \A c \in Calls : OnRow(c) /\ Quiet(AddressOf(c)) => Working(c)

ForwardHasRow ==
    \A t \in Tenants, a \in Addresses : Quiet(a) /\ <<t, a>> \in forwards =>
        \E r \in Calls : Live(r) /\ rows[r].address = a /\ TenantOf(r) = t

RowHasForward ==
    \A r \in Calls : Live(r) /\ Quiet(rows[r].address) /\ Free(rows[r].address) =>
        (<<TenantOf(r), rows[r].address>> \in forwards <=> rows[r].status = "pushed")

ForwardInv == OneWorker /\ Workers /\ ForwardHasRow /\ RowHasForward

(* A live row has a tenant and an address. *)
LEMMA LiveRow ==
    ASSUME TypeInv, NEW r \in Calls, Live(r)
    PROVE  rows[r] # NoRow /\ rows[r].address \in Addresses /\ TenantOf(r) \in Tenants
<1>1. rows[r] # NoRow
  BY Rows DEF Live
<1>2. CallInv(r) /\ request[r] \in Allocations
  BY <1>1 DEF TypeInv, TypeOK
<1> QED
  BY <1>1, <1>2 DEF CallInv, TenantOf, Allocations

LEMMA ForwardInvSuffices == TypeInv /\ ForwardInv => ForwardsFollowRows
<1> SUFFICES ASSUME TypeInv, ForwardInv, NEW t \in Tenants, NEW a \in Addresses,
                    hindered[a] = {}, ~ \E c \in Calls : OnRow(c) /\ AddressOf(c) = a
             PROVE  <<t, a>> \in forwards <=>
                      \E r \in Calls : /\ Live(r) /\ rows[r].status = "pushed"
                                       /\ rows[r].address = a /\ TenantOf(r) = t
  BY DEF ForwardsFollowRows
<1>1. Quiet(a) /\ Free(a)
  BY DEF Quiet, Free
<1> QED
  BY <1>1 DEF ForwardInv, ForwardHasRow, RowHasForward

(* A step of a call that works on no row. *)
LEMMA Bystander ==
    ASSUME TypeInv, ForwardInv, NEW c \in Calls, rows[c] = NoRow, ~OnRow(c), ~OnRow(c)',
           \A x \in Calls : x # c => pc'[x] = pc[x] /\ request'[x] = request[x] /\ seen'[x] = seen[x],
           UNCHANGED <<rows, forwards, hindered>>
    PROVE  ForwardInv'
<1>1. \A r \in Calls : Live(r) => r # c /\ TenantOf(r)' = TenantOf(r)
  BY Rows DEF Live, TenantOf
<1>2. \A x \in Calls : /\ OnRow(x)' <=> OnRow(x)
                       /\ OnRow(x) => /\ x # c /\ AddressOf(x)' = AddressOf(x)
                                      /\ ForwardOf(x)' = ForwardOf(x)
  BY DEF OnRow, AddressOf, ForwardOf
<1>3. \A r \in Calls : Live(r)' <=> Live(r)
  BY DEF Live
<1>4. \A a : Quiet(a)' <=> Quiet(a)
  BY DEF Quiet
<1>5. \A a : Free(a)' <=> Free(a)
  BY <1>2 DEF Free
<1>6. OneWorker'
  BY <1>2, <1>4 DEF ForwardInv, OneWorker
<1>7. Workers'
  <2> SUFFICES ASSUME NEW x \in Calls, OnRow(x), Quiet(AddressOf(x)) PROVE Working(x)'
    BY <1>2, <1>4 DEF Workers
  <2>1. Working(x) /\ x # c /\ request[x].ip \in Calls
    BY <1>2, RowOf DEF ForwardInv, Workers
  <2>2. Visible(request[x])'
    BY <2>1, <1>1, <1>3 DEF Working, Visible
  <2> QED
    BY <1>2, <2>1, <2>2 DEF Working
<1>8. ForwardHasRow'
  BY <1>1, <1>3, <1>4 DEF ForwardInv, ForwardHasRow
<1>9. RowHasForward'
  BY <1>1, <1>3, <1>4, <1>5 DEF ForwardInv, RowHasForward
<1> QED
  BY <1>6, <1>7, <1>8, <1>9 DEF ForwardInv

(* A new row: the unique index says that no live row held the address, so  *)
(* no forward is left over.                                                *)
LEMMA InsertForward ==
    ASSUME TypeInv, ForwardInv, NEW c \in Calls, Inserts(c)
    PROVE  ForwardInv'
<1>1. /\ rows[c] = NoRow /\ seen[c].state = "live" /\ seen[c].address \in Addresses
      /\ seen[c].status = "pending" /\ request[c] \in Allocations /\ request[c].tenant \in Tenants
  BY DEF Inserts, TypeInv, CallInv, Allocations
<1>2. rows'[c] = seen[c] /\ \A x \in Calls : x # c => rows'[x] = rows[x] /\ pc'[x] = pc[x]
  BY DEF Inserts, Return, TypeInv, TypeOK
<1>3. UNCHANGED <<forwards, request, seen, hindered>> /\ ~OnRow(c) /\ ~OnRow(c)'
  BY DEF Inserts, Return, OnRow, TypeInv, TypeOK
<1>4. \A x \in Calls : /\ OnRow(x)' <=> OnRow(x)
                       /\ OnRow(x) => /\ request[x].ip # c /\ request[x].ip \in Calls /\ x # c
                                      /\ AddressOf(x)' = AddressOf(x) /\ ForwardOf(x)' = ForwardOf(x)
  <2> TAKE x \in Calls
  <2>1. OnRow(x)' <=> OnRow(x)
    BY <1>2, <1>3 DEF OnRow
  <2>2. ASSUME OnRow(x)
        PROVE  /\ request[x].ip # c /\ request[x].ip \in Calls /\ x # c
               /\ AddressOf(x)' = AddressOf(x) /\ ForwardOf(x)' = ForwardOf(x)
    BY <1>1, <1>2, <1>3, <2>2, RowOf DEF AddressOf, ForwardOf
  <2> QED
    BY <2>1, <2>2
<1>5. \A a : (Quiet(a)' <=> Quiet(a)) /\ (Free(a)' <=> Free(a))
  BY <1>3, <1>4 DEF Quiet, Free
<1>6. \A r \in Calls : Live(r) => r # c /\ Live(r)'
  BY <1>1, <1>2, Rows DEF Live
<1>7. OneWorker'
  BY <1>4, <1>5 DEF ForwardInv, OneWorker
<1>8. Workers'
  <2> SUFFICES ASSUME NEW x \in Calls, OnRow(x), Quiet(AddressOf(x)) PROVE Working(x)'
    BY <1>4, <1>5 DEF Workers
  <2>1. Working(x)
    BY DEF ForwardInv, Workers
  <2>2. Visible(request[x])'
    BY <1>3, <1>4, <1>6, <2>1 DEF Working, Visible, TenantOf
  <2> QED
    BY <1>2, <1>3, <1>4, <2>1, <2>2 DEF Working
<1>9. ForwardHasRow'
  BY <1>2, <1>3, <1>5, <1>6 DEF ForwardInv, ForwardHasRow, TenantOf
<1>10. RowHasForward'
  <2> SUFFICES ASSUME NEW r \in Calls, Live(r)', Quiet(rows'[r].address), Free(rows'[r].address)
               PROVE  <<TenantOf(r), rows'[r].address>> \in forwards <=> rows'[r].status = "pushed"
    BY <1>3, <1>5 DEF RowHasForward, TenantOf
  <2>1. CASE r # c
    BY <1>2, <2>1 DEF ForwardInv, RowHasForward, Live
  <2>2. CASE r = c
    BY <1>1, <1>2, <2>2 DEF ForwardInv, ForwardHasRow, TenantOf, Inserts, Taken
  <2> QED
    BY <2>1, <2>2
<1> QED
  BY <1>7, <1>8, <1>9, <1>10 DEF ForwardInv

(* What befell an address is never forgotten. *)
LEMMA Marks ==
    ASSUME TypeInv, NEW a \in Addresses, NEW why \in {"overlap", "failure"}, Mark(a, why)
    PROVE  ~Quiet(a)' /\ \A b \in Addresses : b # a => hindered'[b] = hindered[b]
<1>1. why \in hindered'[a]
  BY DEF Mark, TypeInv, TypeOK
<1> QED
  BY <1>1 DEF Mark, Quiet, TypeInv, TypeOK

(* An operation starts to work on a row that no other call works on, or    *)
(* the overlap is noted.                                                   *)
LEMMA ProceedForward ==
    ASSUME TypeInv, ForwardInv, NEW c \in Calls, NEW q \in Attachments \cup Removals, Visible(q),
           pc[c] = "idle", request' = [request EXCEPT ![c] = q], UNCHANGED <<rows, forwards>>,
           NEW label \in {"findinstance", "unpush", "set", "softdelete"}, Proceed(c, q, label),
           label \in {"findinstance", "softdelete"} => rows[q.ip].status # "pushed",
           label = "set" => q.op # "attach" /\ rows[q.ip].status # "pushed"
    PROVE  ForwardInv'
<1> DEFINE a == rows[q.ip].address
<1>1. q.ip \in Calls /\ Live(q.ip) /\ TenantOf(q.ip) = q.tenant /\ a \in Addresses
  BY LiveRow DEF Visible, Attachments, Removals
<1>2. /\ pc'[c] = label /\ request'[c] = q /\ rows[c] = NoRow
      /\ \A x \in Calls : x # c => pc'[x] = pc[x] /\ request'[x] = request[x] /\ seen'[x] = seen[x]
  BY DEF Proceed, Goto, TypeInv, TypeOK, CallInv
<1>3. /\ \A b \in Addresses : b # a => hindered'[b] = hindered[b]
      /\ Quiet(a)' => Quiet(a) /\ Free(a)
  <2>1. CASE Free(a)
    BY <2>1 DEF Proceed, NoteOverlap, Free, Quiet
  <2>2. CASE ~Free(a)
    <3>1. Mark(a, "overlap")
      BY <2>2 DEF Proceed, NoteOverlap, Free
    <3> QED
      BY <1>1, <3>1, Marks
  <2> QED
    BY <2>1, <2>2
<1>4. OnRow(c)' /\ AddressOf(c)' = a /\ ForwardOf(c)' = <<q.tenant, a>> /\ ~OnRow(c)
  BY <1>2 DEF OnRow, AddressOf, ForwardOf
<1>5. \A x \in Calls : x # c =>
          /\ OnRow(x)' <=> OnRow(x)
          /\ OnRow(x) => /\ AddressOf(x)' = AddressOf(x) /\ ForwardOf(x)' = ForwardOf(x)
                         /\ AddressOf(x) \in Addresses /\ request[x].ip \in Calls
  BY <1>2, RowOf DEF OnRow, AddressOf, ForwardOf
<1>6. \A r \in Calls : Live(r) => r # c /\ TenantOf(r)' = TenantOf(r) /\ rows[r].address \in Addresses
  BY <1>2, LiveRow, Rows DEF Live, TenantOf
<1>7. \A b \in Addresses : Quiet(b)' => Quiet(b)
  BY <1>3 DEF Quiet
<1>8. OneWorker'
  BY <1>3, <1>4, <1>5, <1>7 DEF ForwardInv, OneWorker, Free
<1>9. Workers'
  <2>1. ASSUME NEW x \in Calls, x # c, OnRow(x), Quiet(AddressOf(x))' PROVE Working(x)'
    <3>1. Working(x)
      BY <1>5, <1>7, <2>1 DEF ForwardInv, Workers
    <3>2. Visible(request[x])'
      BY <1>2, <1>5, <1>6, <2>1, <3>1 DEF Working, Visible, Live
    <3> QED
      BY <1>2, <1>5, <2>1, <3>1, <3>2 DEF Working
  <2>2. ASSUME Quiet(a)' PROVE Working(c)'
    <3>1. <<q.tenant, a>> \in forwards <=> rows[q.ip].status = "pushed"
      BY <1>1, <1>3, <2>2 DEF ForwardInv, RowHasForward
    <3>2. Visible(request[c])'
      BY <1>1, <1>2, <1>6 DEF Visible, Live
    <3> QED
      BY <1>2, <1>4, <3>1, <3>2 DEF Working
  <2> QED
    BY <1>4, <1>5, <2>1, <2>2 DEF Workers
<1>10. ForwardHasRow'
  BY <1>6, <1>7 DEF ForwardInv, ForwardHasRow, Live
<1>11. RowHasForward'
  <2> SUFFICES ASSUME NEW r \in Calls, Live(r), Quiet(rows[r].address)', Free(rows[r].address)'
               PROVE  <<TenantOf(r), rows[r].address>> \in forwards <=> rows[r].status = "pushed"
    BY <1>6 DEF RowHasForward, Live
  <2>1. Free(rows[r].address)
    BY <1>4, <1>5 DEF Free
  <2> QED
    BY <1>6, <1>7, <2>1 DEF ForwardInv, RowHasForward
<1> QED
  BY <1>8, <1>9, <1>10, <1>11 DEF ForwardInv

(* A step of a call at work on a row touches that row, its forward and the *)
(* history of its address; what remains to show is said about them alone.  *)
LEMMA WorkerStep ==
    ASSUME TypeInv, AddressUnique, ForwardInv, NEW c \in Calls, OnRow(c), UNCHANGED request,
           \A x \in Calls : x # c => pc'[x] = pc[x] /\ seen'[x] = seen[x],
           \A x \in Calls : x # request[c].ip => rows'[x] = rows[x],
           \A x \in Calls : rows'[x].address = rows[x].address,
           \A f : f # ForwardOf(c) => (f \in forwards' <=> f \in forwards),
           NEW a \in Addresses, a = AddressOf(c),
           \A b \in Addresses : b # a => hindered'[b] = hindered[b],
           hindered'[a] = {} => hindered[a] = {},
           \* Undisturbed, the call still knows where it stands, or the row and
           \* the forward agree when it ends.
           hindered'[a] = {} /\ Working(c) =>
              /\ OnRow(c)' => Working(c)'
              /\ ForwardOf(c) \in forwards' => rows'[request[c].ip].state = "live"
              /\ ~OnRow(c)' /\ rows'[request[c].ip].state = "live" =>
                    (ForwardOf(c) \in forwards' <=> rows'[request[c].ip].status = "pushed")
    PROVE  ForwardInv'
<1> DEFINE ip == request[c].ip
           t == request[c].tenant
<1>1. ip \in Calls /\ t \in Tenants /\ a = rows[ip].address /\ ForwardOf(c) = <<t, a>>
  BY RowOf DEF AddressOf, ForwardOf
<1>2. \A x \in Calls : /\ OnRow(x)' => OnRow(x)
                       /\ x # c => (OnRow(x)' <=> OnRow(x))
                       /\ OnRow(x) => /\ AddressOf(x) \in Addresses /\ request[x].ip \in Calls
                                      /\ AddressOf(x)' = AddressOf(x) /\ ForwardOf(x)' = ForwardOf(x)
                                      /\ AddressOf(x) = rows[request[x].ip].address
                                      /\ ForwardOf(x) = <<request[x].tenant, AddressOf(x)>>
  BY RowOf DEF OnRow, AddressOf, ForwardOf
<1>3. \A b \in Addresses : hindered'[b] = {} => Quiet(b)
  BY DEF Quiet
<1>4. hindered'[a] = {} => Working(c)
  BY <1>3 DEF ForwardInv, Workers
<1>5. Working(c) => Live(ip) /\ TenantOf(ip) = t
  BY DEF Working, Visible
\* Who holds the address while the call works undisturbed.
<1>6. ASSUME hindered'[a] = {}, NEW r \in Calls, Live(r) \/ Live(r)', rows[r].address = a PROVE r = ip
  BY <1>1, <1>4, <1>5, <1>6 DEF AddressUnique, Live
<1>7. OneWorker'
  BY <1>2, <1>3 DEF ForwardInv, OneWorker, Quiet
<1>8. Workers'
  <2> SUFFICES ASSUME NEW x \in Calls, OnRow(x)', hindered'[AddressOf(x)] = {} PROVE Working(x)'
    BY <1>2 DEF Workers, Quiet
  <2>1. CASE x = c
    BY <1>2, <1>4, <2>1
  <2>2. CASE x # c
    <3>1. OnRow(x) /\ Quiet(AddressOf(x)) /\ Working(x)
      BY <1>2, <1>3 DEF ForwardInv, Workers
    <3>2. AddressOf(x) # a
      BY <2>2, <3>1 DEF ForwardInv, OneWorker
    <3>3. rows'[request[x].ip] = rows[request[x].ip] /\ (ForwardOf(x) \in forwards' <=> ForwardOf(x) \in forwards)
      BY <1>1, <1>2, <3>1, <3>2
    <3>4. Visible(request[x])'
      BY <3>1, <3>3 DEF Working, Visible, Live, TenantOf
    <3> QED
      BY <1>2, <2>2, <3>1, <3>3, <3>4 DEF Working
  <2> QED
    BY <2>1, <2>2
<1>9. ForwardHasRow'
  <2> SUFFICES ASSUME NEW u \in Tenants, NEW b \in Addresses, hindered'[b] = {}, <<u, b>> \in forwards'
               PROVE  \E r \in Calls : Live(r)' /\ rows'[r].address = b /\ TenantOf(r) = u
    BY DEF ForwardHasRow, TenantOf, Quiet
  <2>1. CASE b # a
    <3>1. PICK r \in Calls : Live(r) /\ rows[r].address = b /\ TenantOf(r) = u
      BY <1>1, <1>3, <2>1 DEF ForwardInv, ForwardHasRow
    <3> QED
      BY <1>1, <2>1, <3>1 DEF Live
  <2>2. CASE b = a /\ u = t
    BY <1>1, <1>4, <1>5, <2>2 DEF Live
  <2>3. CASE b = a /\ u # t
    <3>1. PICK r \in Calls : Live(r) /\ rows[r].address = a /\ TenantOf(r) = u
      BY <1>1, <1>3, <2>3 DEF ForwardInv, ForwardHasRow
    <3> QED
      BY <1>4, <1>5, <1>6, <2>3, <3>1
  <2> QED
    BY <2>1, <2>2, <2>3
<1>10. RowHasForward'
  <2> SUFFICES ASSUME NEW r \in Calls, Live(r)', hindered'[rows[r].address] = {},
                      \A x \in Calls : ~(OnRow(x)' /\ AddressOf(x) = rows[r].address)
               PROVE  <<TenantOf(r), rows[r].address>> \in forwards' <=> rows'[r].status = "pushed"
    BY <1>2 DEF RowHasForward, TenantOf, Quiet, Free
  <2>1. CASE rows[r].address # a
    <3>1. rows'[r] = rows[r] /\ Live(r)
      BY <1>1, <2>1 DEF Live
    <3>2. Free(rows[r].address)
      BY <1>2, <2>1 DEF Free
    <3>3. Quiet(rows[r].address)
      BY <1>3, <3>1, LiveRow
    <3> QED
      BY <1>1, <2>1, <3>1, <3>2, <3>3 DEF ForwardInv, RowHasForward
  <2>2. CASE rows[r].address = a
    <3>1. r = ip /\ TenantOf(r) = t /\ Working(c)
      BY <1>4, <1>5, <1>6, <2>2
    <3>2. ~OnRow(c)'
      BY <2>2
    <3> QED
      BY <1>1, <2>2, <3>1, <3>2 DEF Live
  <2> QED
    BY <2>1, <2>2
<1> QED
  BY <1>7, <1>8, <1>9, <1>10 DEF ForwardInv

LEMMA WorkerForward ==
    ASSUME TypeInv, AddressUnique, ForwardInv, NEW c \in Calls, OnRow(c), Step(c) \/ Crash(c)
    PROVE  ForwardInv'
<1> DEFINE ip == request[c].ip
<1>a. PICK a \in Addresses : a = AddressOf(c)
  BY RowOf
<1>1. /\ ip \in Calls /\ rows[ip] \in Row /\ ip # c /\ rows \in [Calls -> Row] /\ pc \in [Calls -> PCs]
      /\ CallInv(c) /\ seen \in [Calls -> Row] /\ ForwardOf(c) = <<request[c].tenant, a>>
  BY <1>a, RowOf DEF TypeInv, TypeOK, ForwardOf
\* What every such step leaves alone.
<1>2. /\ UNCHANGED request
      /\ \A x \in Calls : x # c => pc'[x] = pc[x]
      /\ \A f : f # ForwardOf(c) => (f \in forwards' <=> f \in forwards)
  <2> USE DEF Goto, Return, OnRow
  <2>1. CASE FindInstance(c) \/ Push(c) \/ PushFails(c) \/ Unpush(c) \/ UnpushFails(c)
    BY <2>1, <1>1 DEF FindInstance, Push, PushFails, Unpush, UnpushFails
  <2>2. CASE SetInstance(c) \/ SoftDelete(c) \/ WriteFails(c) \/ Crash(c)
    BY <2>2, <1>1 DEF SetInstance, SoftDelete, WriteFails, Crash
  <2> QED
    BY <2>1, <2>2 DEF Step, Pick, Insert, InsertFails, ListPool, DropPool
\* A step that marks the address owes nothing more.
<1>3. ASSUME Mark(a, "failure") \/ UNCHANGED hindered
      PROVE  /\ \A b \in Addresses : b # a => hindered'[b] = hindered[b]
             /\ hindered'[a] = {} => hindered[a] = {} /\ UNCHANGED hindered
  BY <1>3, Marks DEF Quiet
<1>4. ASSUME UNCHANGED rows, \A x \in Calls : x # c => seen'[x] = seen[x],
             Mark(a, "failure") \/ UNCHANGED hindered,
             hindered'[a] = {} /\ Working(c) =>
                /\ OnRow(c)' => Working(c)'
                /\ ForwardOf(c) \in forwards' => Live(ip)
                /\ ~OnRow(c)' /\ Live(ip) => (ForwardOf(c) \in forwards' <=> rows[ip].status = "pushed")
      PROVE  ForwardInv'
  BY <1>a, <1>2, <1>3, <1>4, WorkerStep DEF Live
<1>5. Working(c) => Visible(request[c]) /\ Live(ip) /\ TenantOf(ip) = request[c].tenant
  BY DEF Working, Visible
<1>6. ASSUME UNCHANGED rows PROVE (Visible(request[c]) => Visible(request[c])') /\ ForwardOf(c)' = ForwardOf(c)
  BY <1>2, <1>6 DEF Visible, Live, TenantOf, ForwardOf, AddressOf
<1>7. CASE FindInstance(c)
  <2>1. UNCHANGED <<rows, forwards, hindered>> /\ \A x \in Calls : x # c => seen'[x] = seen[x]
    <3>1. seen' = seen \/ seen' = [seen EXCEPT ![c].status = "unsupported"]
      BY <1>7 DEF FindInstance
    <3> QED
      BY <1>1, <1>7, <3>1, SeenStatus DEF FindInstance, tables, PushStatuses
  <2>2. pc[c] = "findinstance" /\ request[c].op = "attach"
    BY <1>1, <1>7 DEF FindInstance, CallInv, Attachments
  <2>3. /\ pc'[c] \in {"push", "set", "done"}
        /\ pc'[c] = "set" => seen'[c].status = "unsupported"
    <3>1. "unsupported" \in PushStatuses
      BY DEF PushStatuses
    <3> QED
      BY <1>1, <1>7, <3>1, SeenStatus DEF FindInstance, Goto, Return
  <2>4. ASSUME Working(c), OnRow(c)' PROVE Working(c)'
    BY <1>2, <1>5, <1>6, <2>1, <2>2, <2>3, <2>4 DEF Working
  <2> QED
    BY <1>4, <1>5, <2>1, <2>2, <2>3, <2>4 DEF Working, OnRow
<1>8. CASE Push(c) \/ PushFails(c)
  <2>1. UNCHANGED rows /\ pc[c] = "push" /\ pc'[c] = "set" /\ request[c].op = "attach"
    BY <1>1, <1>8 DEF Push, PushFails, Goto, tables, CallInv, Attachments
  <2>2. /\ \A x \in Calls : x # c => seen'[x] = seen[x]
        /\ Push(c) => seen'[c].status = "pushed"
        /\ PushFails(c) => seen'[c].status = "failed"
    BY <1>1, <1>8, SeenStatus DEF Push, PushFails, PushStatuses
  <2>3. Mark(a, "failure") \/ UNCHANGED hindered
    BY <1>a, <1>8 DEF Push, PushFails
  <2>4. ASSUME Working(c), hindered'[a] = {}
        PROVE  ForwardOf(c) \in forwards' <=> seen'[c].status = "pushed"
    <3>1. CASE Push(c)
      BY <2>2, <3>1 DEF Push
    <3>2. CASE PushFails(c)
      <4>1. UNCHANGED forwards
        BY <1>a, <1>3, <2>4, <3>2, Marks DEF PushFails, Quiet
      <4> QED
        BY <2>1, <2>2, <2>4, <3>2, <4>1 DEF Working
    <3> QED
      BY <1>8, <3>1, <3>2
  <2>5. ASSUME Working(c), hindered'[a] = {} PROVE Working(c)'
    BY <1>2, <1>5, <1>6, <2>1, <2>4, <2>5 DEF Working
  <2> QED
    BY <1>4, <1>5, <2>1, <2>2, <2>3, <2>5 DEF OnRow
<1>9. CASE Unpush(c) \/ UnpushFails(c)
  <2>1. /\ UNCHANGED <<rows, seen>> /\ pc[c] = "unpush" /\ pc'[c] \in {"set", "softdelete"}
        /\ pc'[c] = "set" => request[c].op = "detach"
    BY <1>1, <1>9 DEF Unpush, UnpushFails, Goto, tables, AfterUnpush
  <2>2. Mark(a, "failure") \/ (UNCHANGED hindered /\ ForwardOf(c) \notin forwards')
    BY <1>a, <1>9 DEF Unpush, UnpushFails
  <2>3. UNCHANGED hindered => ~Quiet(a) \/ ForwardOf(c) \notin forwards'
    BY <2>2, Marks DEF Quiet
  <2>4. ASSUME Working(c), ForwardOf(c) \notin forwards' PROVE Working(c)'
    BY <1>2, <1>5, <1>6, <2>1, <2>4 DEF Working
  <2>5. CASE Mark(a, "failure")
    BY <1>a, <1>2, <1>3, <2>1, <2>5, Marks, WorkerStep DEF Quiet
  <2>6. CASE UNCHANGED hindered /\ ForwardOf(c) \notin forwards'
    BY <1>4, <1>5, <2>1, <2>4, <2>6 DEF OnRow
  <2> QED
    BY <2>2, <2>5, <2>6
<1>10. CASE SetInstance(c) \/ SoftDelete(c) \/ WriteFails(c)
  <2>1. Writes(c) /\ UNCHANGED <<forwards, seen>> /\ pc'[c] = "done"
    BY <1>1, <1>10 DEF SetInstance, SoftDelete, WriteFails, Writes, Return
  <2>2. \A x \in Calls : rows'[x].address = rows[x].address /\ (x # ip => rows'[x] = rows[x])
    BY <2>1, WriteOne
  <2>3. Mark(a, "failure") \/ UNCHANGED hindered
    BY <1>a, <1>10 DEF SetInstance, SoftDelete, WriteFails
  <2>4. CASE Mark(a, "failure")
    BY <1>a, <1>2, <1>3, <2>1, <2>2, <2>4, Marks, WorkerStep DEF Quiet
  <2>5. CASE SetInstance(c)
    <3>1. ASSUME Working(c)
          PROVE  rows'[ip].state = "live" /\ (ForwardOf(c) \in forwards' <=> rows'[ip].status = "pushed")
      <4>1. CASE request[c].op = "attach"
        <5>1. rows' = [rows EXCEPT ![ip].instance = request[c].instance, ![ip].status = seen[c].status]
          BY <1>5, <2>5, <3>1, <4>1 DEF SetInstance, WithInstance
        <5>2. rows'[ip].state = rows[ip].state /\ rows'[ip].status = seen[c].status
          BY <1>1, <5>1 DEF Row
        <5> QED
          BY <1>5, <2>1, <2>5, <3>1, <4>1, <5>2 DEF Working, SetInstance, Live
      <4>2. CASE request[c].op # "attach"
        <5>1. rows' = [rows EXCEPT ![ip].instance = NoInstance, ![ip].status = "pending"]
          BY <1>5, <2>5, <3>1, <4>2 DEF SetInstance, WithInstance
        <5>2. rows'[ip].state = rows[ip].state /\ rows'[ip].status = "pending"
          BY <1>1, <5>1 DEF Row
        <5> QED
          BY <1>5, <2>1, <2>5, <3>1, <4>2, <5>2 DEF Working, SetInstance, Live
      <4> QED
        BY <4>1, <4>2
    <3> QED
      BY <1>a, <1>2, <1>3, <2>1, <2>2, <2>3, <3>1, WorkerStep DEF OnRow
  <2>6. CASE SoftDelete(c)
    <3>1. ASSUME Working(c) PROVE rows'[ip].state = "released" /\ ForwardOf(c) \notin forwards'
      <4>1. rows' = [rows EXCEPT ![ip].state = "released", ![ip].instance = NoInstance,
                                 ![ip].status = "pending"]
        BY <1>5, <2>6, <3>1 DEF SoftDelete, Released
      <4>2. rows'[ip].state = "released"
        BY <1>1, <4>1 DEF Row
      <4> QED
        BY <2>1, <2>6, <3>1, <4>2 DEF Working, SoftDelete
    <3> QED
      BY <1>a, <1>2, <1>3, <2>1, <2>2, <2>3, <3>1, WorkerStep DEF OnRow
  <2> QED
    BY <1>a, <1>10, <2>4, <2>5, <2>6 DEF WriteFails
<1>11. CASE Crash(c)
  <2>1. Mark(a, "failure") /\ UNCHANGED <<rows, forwards, seen>>
    BY <1>a, <1>11 DEF Crash, tables
  <2> QED
    BY <1>a, <1>2, <1>3, <2>1, Marks, WorkerStep DEF Quiet
<1> QED
  BY <1>7, <1>8, <1>9, <1>10, <1>11
  DEF Step, OnRow, Pick, Insert, InsertFails, ListPool, DropPool

(* A first step of a call. *)
LEMMA BeginForward ==
    ASSUME TypeInv, ForwardInv, NEW c \in Calls, Begin(c)
    PROVE  ForwardInv'
<1>1. /\ pc[c] = "idle" /\ rows[c] = NoRow /\ ~OnRow(c)
      /\ \A x \in Calls : x # c => pc'[x] = pc[x] /\ request'[x] = request[x] /\ seen'[x] = seen[x]
      /\ UNCHANGED <<rows, forwards>>
  BY DEF Begin, BeginAllocate, BeginAttach, BeginDetach, BeginRelease, BeginDeletePool, Proceed,
         Refuse, Goto, Return, tables, OnRow, TypeInv, TypeOK, CallInv
<1>2. ASSUME UNCHANGED hindered, pc'[c] \in {"pick", "listpool", "done"} PROVE ForwardInv'
  BY <1>1, <1>2, Bystander DEF OnRow
<1>3. \A v : Return(c, v) => pc'[c] = "done"
  BY DEF Return, TypeInv, TypeOK
<1>4. \A l : Goto(c, l) => pc'[c] = l
  BY DEF Goto, TypeInv, TypeOK
<1>5. ASSUME NEW q \in Allocations, BeginAllocate(c, q) PROVE ForwardInv'
  BY <1>2, <1>3, <1>4, <1>5 DEF BeginAllocate
<1>6. ASSUME NEW q \in Deletions, BeginDeletePool(c, q) PROVE ForwardInv'
  BY <1>2, <1>3, <1>4, <1>6 DEF BeginDeletePool
<1>7. ASSUME NEW v, Refuse(c, v) PROVE ForwardInv'
  BY <1>2, <1>3, <1>7 DEF Refuse
\* A row that is not attached has no forward.
<1>8. ASSUME NEW q \in Attachments \cup Removals, Visible(q), rows[q.ip].status = "pushed"
      PROVE  Attached(q.ip)
  <2>1. q.ip \in Calls /\ rows[q.ip] # NoRow
    BY <1>8, LiveRow DEF Visible, Attachments, Removals
  <2> QED
    BY <1>8, <2>1 DEF TypeInv, CallInv, Attached
<1>9. ASSUME NEW q \in Attachments, BeginAttach(c, q) PROVE ForwardInv'
  <2>1. CASE Visible(q) /\ ~Attached(q.ip) /\ Proceed(c, q, "findinstance")
    BY <1>1, <1>8, <1>9, <2>1, ProceedForward DEF BeginAttach
  <2> QED
    BY <1>7, <1>9, <2>1 DEF BeginAttach
<1>10. ASSUME NEW q \in Removals, q.op = "detach", BeginDetach(c, q) PROVE ForwardInv'
  <2>1. CASE Visible(q) /\ rows[q.ip].status = "pushed" /\ Proceed(c, q, "unpush")
    BY <1>1, <1>10, <2>1, ProceedForward DEF BeginDetach
  <2>2. CASE Visible(q) /\ rows[q.ip].status # "pushed" /\ Proceed(c, q, "set")
    BY <1>1, <1>10, <2>2, ProceedForward DEF BeginDetach
  <2> QED
    BY <1>7, <1>10, <2>1, <2>2 DEF BeginDetach
<1>11. ASSUME NEW q \in Removals, q.op = "release", BeginRelease(c, q) PROVE ForwardInv'
  <2>1. CASE Visible(q) /\ Proceed(c, q, "unpush")
    BY <1>1, <1>11, <2>1, ProceedForward DEF BeginRelease
  <2>2. CASE Visible(q) /\ rows[q.ip].status # "pushed" /\ Proceed(c, q, "softdelete")
    BY <1>1, <1>11, <2>2, ProceedForward DEF BeginRelease
  <2> QED
    BY <1>7, <1>8, <1>11, <2>1, <2>2 DEF BeginRelease
<1> QED
  BY <1>5, <1>6, <1>9, <1>10, <1>11 DEF Begin

LEMMA ForwardStep == TypeInv /\ AddressUnique /\ ForwardInv /\ [Next]_vars => ForwardInv'
<1> SUFFICES ASSUME TypeInv, AddressUnique, ForwardInv, [Next]_vars PROVE ForwardInv'
  OBVIOUS
<1>1. CASE UNCHANGED <<rows, forwards, request, pc, seen, hindered>>
  BY <1>1 DEF ForwardInv, OneWorker, Workers, ForwardHasRow, RowHasForward, Working, Quiet, Free,
     OnRow, AddressOf, ForwardOf, Live, Visible, TenantOf
<1>2. ASSUME NEW c \in Calls, Step(c) \/ Crash(c), ~OnRow(c) PROVE ForwardInv'
  <2>1. CASE Inserts(c)
    BY <2>1, InsertForward
  <2>2. CASE ~Inserts(c)
    <3>1. /\ UNCHANGED <<rows, forwards, hindered>> /\ ~OnRow(c)' /\ pc[c] # "done"
          /\ \A x \in Calls : x # c => pc'[x] = pc[x] /\ request'[x] = request[x] /\ seen'[x] = seen[x]
      <4> USE DEF Goto, Return, OnRow, TypeInv, TypeOK, tables
      <4>1. CASE Pick(c) \/ ListPool(c) \/ DropPool(c)
        BY <4>1 DEF Pick, ListPool, DropPool
      <4>2. CASE Insert(c) \/ InsertFails(c)
        BY <2>2, <4>2 DEF Insert, InsertFails, Inserts, Answers
      <4>3. CASE Crash(c)
        BY <1>2, <4>3 DEF Crash, Running
      <4> QED
        BY <1>2, <4>1, <4>2, <4>3 DEF Step, FindInstance, Push, PushFails, Unpush, UnpushFails,
           SetInstance, SoftDelete, WriteFails
    <3>2. rows[c] = NoRow
      BY <3>1 DEF TypeInv, CallInv
    <3> QED
      BY <1>2, <3>1, <3>2, Bystander
  <2> QED
    BY <2>1, <2>2
<1>3. ASSUME NEW c \in Calls, Step(c) \/ Crash(c), OnRow(c) PROVE ForwardInv'
  BY <1>3, WorkerForward
<1>4. ASSUME NEW c \in Calls, Begin(c) PROVE ForwardInv'
  BY <1>4, BeginForward
<1> QED
  BY <1>1, <1>2, <1>3, <1>4
  DEF Next, vars, Operator, UpdateIPPool, AddIPPoolRange, DeleteIPPoolRange, DeleteInstance

(* The forwards of undisturbed addresses are derived from the rows. *)
THEOREM ForwardsFollow == Spec => []ForwardsFollowRows
<1>1. Init => ForwardInv
  BY Rows DEF Init, ForwardInv, OneWorker, Workers, ForwardHasRow, RowHasForward, OnRow, Live
<1> QED
  BY <1>1, TypeInit, TypeStep, UniqueAddresses, ForwardStep, ForwardInvSuffices, PTL DEF Spec

-------------------------------------------------------------------------------
(* The walk has looked at the addresses below cur and none was usable.     *)
Walked ==
    /\ WalkTypeOK
    /\ cur = prefix.net + looked
    /\ prefix.size = 1 => looked = 0
    /\ walking => \A a \in Usable : cur <= a
    /\ ReturnsFirstFree

LEMMA PrefixType ==
    ASSUME prefix \in Prefixes
    PROVE  /\ prefix.net \in Nat /\ prefix.size \in Nat \ {0} /\ prefix.family \in {4, 6}
           /\ Last(prefix) \in Nat /\ prefix.net <= Last(prefix)
           /\ Last(prefix) = prefix.net + prefix.size - 1
           /\ Last(prefix) < Space[prefix.family] /\ Space[prefix.family] \in Nat
BY PrefixesAssumption, SpaceAssumption DEF Last

(* The test of the loop is the definition of a usable address. *)
LEMMA CandidateUsable == Walked /\ prefix.size # 1 => (Candidate <=> cur \in Usable)
BY PrefixType DEF Walked, WalkTypeOK, Candidate, Usable, SkipNetwork, SkipBroadcast

LEMMA WalkedInit == WalkInit => Walked
<1> SUFFICES ASSUME WalkInit PROVE Walked
  OBVIOUS
<1>1. WalkTypeOK /\ cur = prefix.net /\ looked = 0 /\ walking
  BY PrefixType, MaxIterAssumption DEF WalkInit, WalkTypeOK
<1> QED
  BY <1>1, PrefixType DEF Walked, Usable, ReturnsFirstFree, WalkTypeOK

LEMMA WalkedStep == Walked /\ [WalkNext]_walkVars => Walked'
<1> SUFFICES ASSUME Walked, [WalkNext]_walkVars PROVE Walked'
  OBVIOUS
<1>1. /\ prefix \in Prefixes /\ cur \in prefix.net .. Last(prefix) /\ looked \in 0 .. MaxIter
      /\ cur = prefix.net + looked /\ result \in Nat \cup {None}
  BY DEF Walked, WalkTypeOK
<1>2. \A a \in Usable : a \in Nat /\ a <= Last(prefix) /\ a \notin taken
  BY <1>1, PrefixType DEF Usable
<1>3. CASE UNCHANGED walkVars
  BY <1>3 DEF walkVars, Walked, WalkTypeOK, Usable, ReturnsFirstFree
<1>4. CASE Advance
  <2>1. Usable' = Usable /\ UNCHANGED <<prefix, taken>> /\ Last(prefix)' = Last(prefix)
    BY <1>4 DEF Advance, Usable, Last
  <2>2. cur' = cur + 1 /\ looked' = looked + 1 /\ cur' <= Last(prefix) /\ looked < MaxIter /\ prefix.size # 1
    BY <1>4 DEF Advance, HasNext
  <2>3. cur \notin Usable
    BY <1>4, CandidateUsable DEF Advance
  <2>4. \A a \in Usable : cur <= a
    BY <1>4 DEF Advance, Walked
  <2>5. \A a \in Usable : cur' <= a
    BY <1>1, <1>2, <2>2, <2>3, <2>4, PrefixType
  <2>6. WalkTypeOK'
    BY <1>1, <1>4, <2>1, <2>2, PrefixType, MaxIterAssumption DEF Advance, Walked, WalkTypeOK
  <2>7. cur' = prefix'.net + looked' /\ prefix'.size # 1
    BY <1>1, <2>1, <2>2, PrefixType
  <2>8. walking'
    BY <1>4 DEF Advance
  <2> QED
    BY <2>1, <2>5, <2>6, <2>7, <2>8 DEF Walked, ReturnsFirstFree
<1>5. CASE Single \/ Found \/ Exhausted
  <2>1. PICK v : Yield(v)
    BY <1>5 DEF Single, Found, Exhausted
  <2>2. Usable' = Usable /\ UNCHANGED <<prefix, taken, cur, looked>> /\ walking' = FALSE /\ result' = v
    BY <2>1 DEF Yield, Usable, Last
  <2>t. v \in Nat \cup {None} => WalkTypeOK'
    <3> SUFFICES ASSUME v \in Nat \cup {None} PROVE WalkTypeOK'
      OBVIOUS
    <3>1. taken \subseteq prefix.net .. Last(prefix)
      BY DEF Walked, WalkTypeOK
    <3> QED
      BY <1>1, <2>2, <3>1 DEF WalkTypeOK, Last
  <2>3. \A a \in Usable : cur <= a
    BY <1>5 DEF Single, Found, Exhausted, Walked
  <2>4. CASE Single
    <3>1. Last(prefix) = cur /\ prefix.size = 1 /\ v = IF cur \in taken THEN None ELSE cur
      <4>1. result' = IF cur \in taken THEN None ELSE cur
        BY <2>4 DEF Single, Yield
      <4> QED
        BY <1>1, <2>2, <2>4, <4>1, PrefixType DEF Single, Walked
    <3>2. \A a \in Usable : a = cur
      BY <1>1, <1>2, <2>3, <3>1, PrefixType
    <3>3. cur \notin taken => cur \in Usable
      BY <1>1, <3>1, PrefixType DEF Usable
    <3>4. ReturnsFirstFree'
      BY <1>1, <1>2, <2>2, <2>3, <3>1, <3>2, <3>3, PrefixType, NoneAssumption DEF ReturnsFirstFree
    <3>5. v \in Nat \cup {None}
      BY <1>1, <3>1, PrefixType
    <3> QED
      BY <1>1, <2>2, <2>t, <3>4, <3>5 DEF Walked
  <2>5. CASE Found
    <3>1. v = cur /\ cur \in Usable
      BY <2>2, <2>5, CandidateUsable DEF Found, Yield
    <3>2. cur \in Nat
      BY <1>1, PrefixType
    <3>3. ReturnsFirstFree'
      BY <2>2, <2>3, <3>1, <3>2, NoneAssumption DEF ReturnsFirstFree
    <3> QED
      BY <1>1, <2>2, <2>t, <3>1, <3>2, <3>3 DEF Walked
  <2>6. CASE Exhausted
    <3>1. v = None
      BY <2>2, <2>6 DEF Exhausted, Yield
    <3>2. \A a \in Usable : prefix.size # 1 /\ a >= prefix.net + MaxIter
      <4>1. CASE looked >= MaxIter
        BY <1>1, <1>2, <2>3, <2>6, <4>1, PrefixType, MaxIterAssumption DEF Exhausted
      <4>2. CASE ~Candidate /\ ~HasNext
        <5>1. cur = Last(prefix) /\ cur \notin Usable
          BY <1>1, <2>6, <4>2, CandidateUsable, PrefixType DEF HasNext, Exhausted
        <5> QED
          BY <1>1, <1>2, <2>3, <5>1, PrefixType
      <4> QED
        BY <2>6, <4>1, <4>2 DEF Exhausted
    <3>3. ReturnsFirstFree'
      BY <2>2, <3>1, <3>2 DEF ReturnsFirstFree
    <3> QED
      BY <1>1, <2>2, <2>t, <3>1, <3>3 DEF Walked
  <2> QED
    BY <1>5, <2>4, <2>5, <2>6
<1> QED
  BY <1>3, <1>4, <1>5 DEF WalkNext

(* The walk stays inside its range and under its cap. *)
THEOREM WalkType == WalkSpec => []WalkTypeOK
<1>1. Walked => WalkTypeOK
  BY DEF Walked
<1> QED
  BY <1>1, WalkedInit, WalkedStep, PTL DEF WalkSpec

(* The walk returns the least usable address, or there is none among those *)
(* it may look at.                                                         *)
THEOREM FirstFree == WalkSpec => []ReturnsFirstFree
<1>1. Walked => ReturnsFirstFree
  BY DEF Walked
<1> QED
  BY <1>1, WalkedInit, WalkedStep, PTL DEF WalkSpec

(* What Pick takes for granted of a range: asked for the addresses of the  *)
(* range that no live row holds, the walk returns the first free one, and  *)
(* finds none only in a full range, if the range is not beyond its cap.    *)
PickedByWalk ==
    \A p \in Pools : \A i \in DOMAIN Ranges[p] :
        ~walking /\ Usable = Ranges[p][i] \ Held(p) =>
            /\ result # None => IsFirstFree(result, p, i)
            /\ result = None /\ prefix.size <= MaxIter => Full(p, i)

(* The walk of firstFreeInPrefix answers as pickNextFreeAddress is modelled *)
(* to find the first free address of a range, for ranges within the cap.    *)
THEOREM WalkAnswersPick == WalkSpec => []PickedByWalk
<1>1. Walked => PickedByWalk
  <2> SUFFICES ASSUME Walked, NEW p \in Pools, NEW i \in DOMAIN Ranges[p], ~walking,
                      Usable = Ranges[p][i] \ Held(p)
               PROVE  /\ result # None => IsFirstFree(result, p, i)
                      /\ result = None /\ prefix.size <= MaxIter => Full(p, i)
    BY DEF PickedByWalk
  <2>1. /\ result = None => \A a \in Usable : a >= prefix.net + MaxIter
        /\ result # None => result \in Usable /\ \A a \in Usable : result <= a
    BY DEF Walked, ReturnsFirstFree
  <2>2. \A a \in Usable : a \in Nat /\ a < prefix.net + prefix.size
    BY PrefixType DEF Walked, WalkTypeOK, Usable
  <2>3. ASSUME prefix.size <= MaxIter, result = None PROVE Usable = {}
    BY <2>1, <2>2, <2>3, PrefixType, MaxIterAssumption DEF Walked, WalkTypeOK
  <2> QED
    BY <2>1, <2>3 DEF IsFirstFree, Full
<1> QED
  BY <1>1, WalkedInit, WalkedStep, PTL DEF WalkSpec
================================================================================
