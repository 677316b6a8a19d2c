------------------------- MODULE ComputeInstancesProofs -------------------------
(***************************************************************************)
(* Theorems about ComputeInstances, for every set of calls, names and      *)
(* configurations and every quota, with their proofs.                      *)
(***************************************************************************)
EXTENDS ComputeInstances, FiniteSetTheorems, TLAPS

(* The calls that reach each statement, and the rows they are about.       *)
CallInv(c) ==
    /\ pc[c] # "idle" => op[c] # "none" /\ row[c] \in Calls /\ name[c] \in Names
    /\ pc[c] = "idle" => rows[c] = "absent" /\ late[c] = {}
    /\ rows[c] # "absent" => op[c] = "create"
    /\ op[c] = "create" => row[c] = c /\ arg[c].cpus \in Cpus
    /\ pc[c] \in {"quota", "insert"} => op[c] = "create" /\ rows[c] = "absent"
    /\ pc[c] \in {"create", "discard"} => op[c] = "create" /\ rows[c] # "absent"
    /\ pc[c] = "act" => op[c] \in {"state", "delete"}
    /\ pc[c] \in {"probe", "cache"} => op[c] \in {"state", "reconcile"}
    /\ pc[c] \in {"remove", "softdelete"} => op[c] = "delete"
    /\ pc[c] \in {"read", "put", "config"} => op[c] = "update"
    /\ "create" \in late[c] => op[c] = "create"
    /\ "act" \in late[c] => op[c] \in {"state", "delete"}
    /\ "put" \in late[c] => op[c] = "update"

RowInv(c) ==
    op[c] \in RowOps =>
        row[c] \in Calls /\ rows[row[c]] # "absent" /\ name[row[c]] = name[c]

TypeInv == TypeOK /\ \A c \in Calls : CallInv(c) /\ RowInv(c)

(* The parts of TypeOK.                                                    *)
TableOK ==
    /\ rows \in [Calls -> RowStates]
    /\ cachedStatus \in [Calls -> CachedStatuses]
    /\ cachedCpus \in [Calls -> VCPUs]
IncusOK ==
    /\ daemon \in [Names -> Calls \cup {None}]
    /\ status \in [Names -> Statuses]
    /\ cpus \in [Names -> VCPUs]
LateOK == late \in [Calls -> SUBSET Requests]
RequestOK ==
    /\ op \in [Calls -> Ops]
    /\ row \in [Calls -> Calls \cup {None}]
    /\ name \in [Calls -> Names \cup {None}]
    /\ arg \in [Calls -> Args]
ReadOK ==
    /\ seenStatus \in [Calls -> CachedStatuses]
    /\ seenCpus \in [Calls -> VCPUs]
ControlOK == pc \in [Calls -> PCs] /\ answer \in [Calls -> Answers]
MarksOK == hindered \in [Names -> SUBSET Marks]
ExcessOK == excess \subseteq {"overlap", "patch"}
PartsOK ==
    /\ TableOK /\ IncusOK /\ LateOK /\ RequestOK /\ ReadOK
    /\ ControlOK /\ MarksOK /\ ExcessOK

LEMMA Parts == (TypeOK <=> PartsOK) /\ (TypeOK' <=> PartsOK')
BY DEF TypeOK, PartsOK, TableOK, IncusOK, LateOK, RequestOK, ReadOK, ControlOK, MarksOK, ExcessOK

(* What a step leaves alone keeps its type.                                *)
LEMMA Frame ==
    ASSUME TypeOK
    PROVE  /\ UNCHANGED table => TableOK'
           /\ UNCHANGED incus => IncusOK'
           /\ UNCHANGED late => LateOK'
           /\ UNCHANGED request => RequestOK'
           /\ UNCHANGED read => ReadOK'
           /\ UNCHANGED hindered => MarksOK'
           /\ UNCHANGED excess => ExcessOK'
BY DEF TypeOK, TableOK, IncusOK, LateOK, RequestOK, ReadOK, MarksOK, ExcessOK, table, incus, request,
   read

(* The moves of a call and the marks they leave.                           *)
LEMMA Moves ==
    ASSUME TypeOK, NEW c \in Calls
    PROVE  /\ \A l \in PCs : Goto(c, l) => ControlOK'
           /\ \A v \in Answers : Return(c, v) => ControlOK'
           /\ \A what \in Requests : late' = [late EXCEPT ![c] = @ \cup {what}] => LateOK'
<1>1. ASSUME NEW l \in PCs, Goto(c, l) PROVE ControlOK'
  BY <1>1 DEF TypeOK, ControlOK, Goto
<1>2. ASSUME NEW v \in Answers, Return(c, v) PROVE ControlOK'
  BY <1>2 DEF TypeOK, ControlOK, Return, PCs
<1>3. ASSUME NEW what \in Requests, late' = [late EXCEPT ![c] = @ \cup {what}] PROVE LateOK'
  BY <1>3 DEF TypeOK, LateOK
<1> QED
  BY <1>1, <1>2, <1>3

LEMMA MarkType ==
    ASSUME TypeOK, NEW n \in Names, NEW why \in SUBSET Marks, Mark(n, why)
    PROVE  MarksOK'
BY DEF TypeOK, MarksOK, Mark

(* What happens to the rows.                                               *)
LEMMA RowMoves ==
    ASSUME TypeOK, NEW c \in Calls
    PROVE  /\ MarkDeleted(c) => TableOK' /\ \A q \in Calls : rows'[q] = "absent" <=> rows[q] = "absent"
           /\ UNCHANGED table => rows' = rows
           /\ row[c] \in Calls /\ CacheStatus(c) => TableOK' /\ rows' = rows
           /\ row[c] \in Calls /\ Record(c) => TableOK' /\ ExcessOK' /\ rows' = rows
           /\ arg[c].cpus \in Cpus /\ Insert(c) =>
                /\ TableOK'
                /\ rows'[c] = "live"
                /\ \A q \in Calls \ {c} : rows'[q] = rows[q]
<1> USE DEF TypeOK, TableOK
<1>1. ASSUME MarkDeleted(c)
      PROVE  TableOK' /\ \A q \in Calls : rows'[q] = "absent" <=> rows[q] = "absent"
  BY <1>1 DEF MarkDeleted, RowStates
<1>2. ASSUME row[c] \in Calls, CacheStatus(c) PROVE TableOK' /\ rows' = rows
  BY <1>2 DEF CacheStatus
<1>3. ASSUME row[c] \in Calls, Record(c) PROVE TableOK' /\ ExcessOK' /\ rows' = rows
  BY <1>3 DEF Record, ExcessOK, MarkIf
<1>4. ASSUME arg[c].cpus \in Cpus, Insert(c)
      PROVE  TableOK' /\ rows'[c] = "live" /\ \A q \in Calls \ {c} : rows'[q] = rows[q]
  BY <1>4 DEF Insert, RowStates, CachedStatuses, Statuses, VCPUs
<1> QED
  BY <1>1, <1>2, <1>3, <1>4 DEF table

(* What happens to the instances.                                          *)
LEMMA InstanceMoves ==
    ASSUME TypeOK, NEW c \in Calls, name[c] \in Names
    PROVE  /\ Provision(c) /\ arg[c].cpus \in Cpus => IncusOK'
           /\ ChangeState(c) => IncusOK'
           /\ RemoveInstance(name[c]) => IncusOK'
           /\ Reconfigure(c) => IncusOK'
<1> USE DEF TypeOK, IncusOK
<1>1. ASSUME Provision(c), arg[c].cpus \in Cpus PROVE IncusOK'
  BY <1>1 DEF Provision, VCPUs
<1>2. ASSUME ChangeState(c) PROVE IncusOK'
  <2>1. Outcome(ActionOf(c)) \in Statuses
    BY DEF Outcome, ActionOf, Args, LifecycleActions, Statuses
  <2> QED  BY <1>2, <2>1 DEF ChangeState
<1>3. ASSUME RemoveInstance(name[c]) PROVE IncusOK'
  BY <1>3 DEF RemoveInstance, VCPUs
<1>4. ASSUME Reconfigure(c) PROVE IncusOK'
  BY <1>4 DEF Reconfigure
<1> QED
  BY <1>1, <1>2, <1>3, <1>4

LEMMA TypeInit == Init => TypeInv
<1>1. Init => TypeOK
  BY ConstantsAssumption DEF Init, TypeOK, RowStates, CachedStatuses, Statuses, VCPUs,
     DefaultVCPUs, PCs, Answers, Ops, RowOps, Args, NoArg, LifecycleActions
<1>2. ASSUME Init, NEW c \in Calls PROVE CallInv(c) /\ RowInv(c)
  BY <1>2 DEF Init, CallInv, RowInv, RowOps
<1> QED
  BY <1>1, <1>2 DEF TypeInv

(* The begin of a call on a row keeps the types. *)
LEMMA BeginType ==
    ASSUME TypeInv, NEW c \in Calls, NEW o \in RowOps, NEW r \in Calls, NEW a \in Args,
           BeginOnRow(c, o, r, a)
    PROVE  TypeInv'
<1>1. TypeOK /\ CallInv(c) /\ CallInv(r) /\ \A d \in Calls : RowInv(d)
  BY DEF TypeInv
<1>2. name[r] \in Names /\ op[r] = "create" /\ r # c /\ rows[c] = "absent"
  BY <1>1 DEF CallInv, RowOps, BeginOnRow
<1>3. RequestOK'
  BY <1>1, <1>2 DEF TypeOK, RequestOK, BeginOnRow, Ask, Ops
<1>4. ReadOK'
  BY <1>1, Frame DEF TypeOK, ReadOK, BeginOnRow
<1>5. MarksOK'
  <2>1. MarkIf(RunningOn(name[r]), "overlap")
          \cup MarkIf(o = "delete" /\ ReplacingOn(name[r]), "race") \in SUBSET Marks
    BY DEF MarkIf, Marks
  <2> QED  BY <1>1, <1>2, <2>1, Frame, MarkType DEF BeginOnRow
<1>6. First(o, cachedStatus[r]) \in {"act", "remove", "read", "probe"}
  BY DEF First, RowOps
<1>7. ControlOK'
  BY <1>1, <1>6, Moves DEF BeginOnRow, PCs, Answers
<1>8. TypeOK'
  BY <1>1, <1>3, <1>4, <1>5, <1>7, Frame, Parts DEF BeginOnRow, PartsOK
<1>9. ASSUME NEW d \in Calls PROVE CallInv(d)' /\ RowInv(d)'
  <2>1. CallInv(d) /\ RowInv(d)
    BY DEF TypeInv
  <2>2. CASE d = c
    <3>1. RowInv(d)'
      BY <1>1, <1>2, <2>2 DEF TypeOK, BeginOnRow, Ask, RowInv, RowOps, table
    <3>2. o # "create" /\ o # "none" /\ late'[c] = {} /\ rows'[c] = "absent"
      BY <1>1, <1>2 DEF RowOps, BeginOnRow, CallInv, table
    <3>3. op'[c] = o /\ row'[c] = r /\ name'[c] = name[r]
      BY <1>1 DEF TypeOK, BeginOnRow, Ask
    <3>4. \/ pc'[c] = First(o, cachedStatus[r])
          \/ pc'[c] = "done"
      BY <1>1 DEF TypeOK, BeginOnRow, Goto, Return
    <3> QED  BY <1>2, <2>2, <3>1, <3>2, <3>3, <3>4 DEF CallInv, First, RowOps
  <2>3. CASE d # c
    <3>1. row[d] # c \/ op[d] \notin RowOps
      BY <1>2, <2>1 DEF RowInv
    <3> QED
      BY <1>1, <1>2, <2>1, <2>3, <3>1 DEF TypeOK, BeginOnRow, Ask, Goto, Return, CallInv, RowInv, table
  <2> QED  BY <2>2, <2>3
<1> QED
  BY <1>8, <1>9 DEF TypeInv

LEMMA TypeStep == TypeInv /\ [Next]_vars => TypeInv'
<1> SUFFICES ASSUME TypeInv, [Next]_vars PROVE TypeInv'
  OBVIOUS
<1>a. TypeOK /\ \A c \in Calls : CallInv(c) /\ RowInv(c)
  BY DEF TypeInv
<1>1. CASE UNCHANGED vars
  BY <1>1 DEF vars, table, incus, request, read, TypeInv, TypeOK, CallInv, RowInv
<1>2. ASSUME NEW c \in Calls, NEW n \in Names, NEW k \in Cpus, BeginCreate(c, n, k)
      PROVE  TypeInv'
  <2>1. [NoArg EXCEPT !.cpus = k] \in Args /\ [NoArg EXCEPT !.cpus = k].cpus = k
    BY DEF Args, NoArg, LifecycleActions
  <2>2. CallInv(c)
    BY <1>a
  <2>3. TypeOK'
    <3>1. RequestOK'
      BY <1>a, <1>2, <2>1 DEF TypeOK, RequestOK, BeginCreate, Ask, Ops
    <3>2. MarkIf(RunningOn(n), "overlap") \in SUBSET Marks
      BY DEF MarkIf, Marks
    <3>3. MarksOK' /\ ControlOK'
      BY <1>a, <1>2, <3>2, Frame, MarkType, Moves DEF BeginCreate, PCs, Answers
    <3> QED  BY <1>a, <1>2, <3>1, <3>3, Frame, Parts DEF BeginCreate, PartsOK
  <2>4. ASSUME NEW d \in Calls, CallInv(d), RowInv(d) PROVE CallInv(d)' /\ RowInv(d)'
    <3>1. row[d] # c \/ op[d] \notin RowOps
      BY <1>2, <2>2, <2>4 DEF BeginCreate, CallInv, RowInv
    <3>2. CASE d = c
      BY <1>a, <1>2, <2>1, <2>2, <3>2
         DEF TypeOK, BeginCreate, Ask, Goto, Return, table, CallInv, RowInv, RowOps
    <3>3. CASE d # c
      BY <1>a, <1>2, <2>4, <3>1, <3>3
         DEF TypeOK, BeginCreate, Ask, Goto, Return, table, CallInv, RowInv
    <3> QED  BY <3>2, <3>3
  <2> QED  BY <1>a, <2>3, <2>4 DEF TypeInv
<1>3. ASSUME NEW c \in Calls, NEW r \in Calls, NEW a \in Actions, SetInstanceState(c, r, a)
      PROVE  TypeInv'
  <2>1. [NoArg EXCEPT !.action = a] \in Args
    BY ConstantsAssumption DEF Args, NoArg, LifecycleActions
  <2> QED  BY <1>3, <2>1, BeginType DEF SetInstanceState, RowOps
<1>4. ASSUME NEW c \in Calls, NEW r \in Calls, NEW f \in BOOLEAN, DeleteInstance(c, r, f)
      PROVE  TypeInv'
  <2>1. [NoArg EXCEPT !.force = f] \in Args
    BY DEF Args, NoArg, LifecycleActions
  <2> QED  BY <1>4, <2>1, BeginType DEF DeleteInstance, RowOps
<1>5. ASSUME NEW c \in Calls, NEW r \in Calls, NEW k \in Cpus \cup {Keep}, UpdateInstance(c, r, k)
      PROVE  TypeInv'
  <2>1. [NoArg EXCEPT !.cpus = k] \in Args
    BY DEF Args, NoArg, LifecycleActions
  <2> QED  BY <1>5, <2>1, BeginType DEF UpdateInstance, RowOps
<1>6. ASSUME NEW c \in Calls, NEW r \in Calls, ReconcileInstance(c, r)
      PROVE  TypeInv'
  <2>1. NoArg \in Args
    BY DEF Args, NoArg, LifecycleActions
  <2> QED  BY <1>6, <2>1, BeginType DEF ReconcileInstance, RowOps
<1>7. ASSUME NEW c \in Calls, CheckQuota(c) PROVE TypeInv'
  <2>1. CallInv(c) /\ RowInv(c)
    BY <1>a
  <2>2. pc[c] # "idle" /\ row[c] \in Calls /\ name[c] \in Names
        /\ (op[c] = "create" => row[c] = c /\ arg[c].cpus \in Cpus)
    BY <1>7, <2>1 DEF CheckQuota, CallInv
  <2>3. TypeOK'
    <3>1. ExcessOK'
      BY <1>a, <1>7 DEF CheckQuota, TypeOK, ExcessOK, MarkIf
    <3> QED
      BY <1>a, <1>7, <2>1, <2>2, Frame, Moves, MarkType, RowMoves, InstanceMoves, Parts,
         <3>1
         DEF CheckQuota, PartsOK, PCs, Answers, Requests, Marks, CallInv, table, incus,
             read
  <2>4. ASSUME NEW d \in Calls, CallInv(d), RowInv(d) PROVE CallInv(d)' /\ RowInv(d)'
    <3>1. /\ UNCHANGED <<rows, late, op, row, name, arg>>
          /\ \E l \in {"insert", "done"} : pc' = [pc EXCEPT ![c] = l]
      BY <1>7 DEF CheckQuota, Goto, Return, request, table
    <3>2. pc[c] = "quota"
      BY <1>7 DEF CheckQuota
    <3>3. RowInv(d)'
      BY <2>4, <3>1 DEF RowInv
    <3>4. CASE d = c
      BY <1>a, <2>1, <3>1, <3>2, <3>3, <3>4 DEF TypeOK, CallInv
    <3>5. CASE d # c
      BY <1>a, <2>4, <3>1, <3>3, <3>5 DEF TypeOK, CallInv
    <3> QED  BY <3>4, <3>5
  <2> QED  BY <1>a, <2>3, <2>4 DEF TypeInv
<1>8. ASSUME NEW c \in Calls, InsertRow(c) PROVE TypeInv'
  <2>1. CallInv(c) /\ RowInv(c)
    BY <1>a
  <2>2. pc[c] # "idle" /\ row[c] \in Calls /\ name[c] \in Names
        /\ (op[c] = "create" => row[c] = c /\ arg[c].cpus \in Cpus)
    BY <1>8, <2>1 DEF InsertRow, CallInv
  <2>3. TypeOK'
    BY <1>a, <1>8, <2>1, <2>2, Frame, Moves, MarkType, RowMoves, InstanceMoves, Parts
       DEF InsertRow, PartsOK, PCs, Answers, Requests, Marks, CallInv
  <2>4. ASSUME NEW d \in Calls, CallInv(d), RowInv(d) PROVE CallInv(d)' /\ RowInv(d)'
    <3>1. \A q \in Calls \ {c} : rows'[q] = rows[q]
      BY <1>a, <1>8, <2>1, <2>2, RowMoves DEF InsertRow, CallInv
    <3>2. (rows'[c] # "absent" => op[c] = "create") /\ (pc'[c] = "create" => rows'[c] # "absent")
      BY <1>a, <1>8, <2>1, <2>2, RowMoves DEF InsertRow, CallInv, Goto, Return, TypeOK
    <3>3. row[d] # c \/ op[d] \notin RowOps
      BY <1>8, <2>1, <2>4 DEF InsertRow, CallInv, RowInv
    <3>4. RowInv(d)'
      BY <1>a, <1>8, <2>4, <3>1, <3>2, <3>3 DEF TypeOK, InsertRow, request, RowInv,
         RowOps
    <3>5. CASE d = c
      BY <1>a, <1>8, <2>1, <2>2, <3>1, <3>2, <3>3, <3>4, <3>5 DEF TypeOK, CallInv,
         InsertRow, Goto, Return, request
    <3>6. CASE d # c
      BY <1>a, <1>8, <2>4, <3>1, <3>2, <3>3, <3>4, <3>6 DEF TypeOK, CallInv, InsertRow,
         Goto, Return, request
    <3> QED  BY <3>5, <3>6
  <2> QED  BY <1>a, <2>3, <2>4 DEF TypeInv
<1>9. ASSUME NEW c \in Calls, InsertRowFails(c) PROVE TypeInv'
  <2>1. CallInv(c) /\ RowInv(c)
    BY <1>a
  <2>2. pc[c] # "idle" /\ row[c] \in Calls /\ name[c] \in Names
        /\ (op[c] = "create" => row[c] = c /\ arg[c].cpus \in Cpus)
    BY <1>9, <2>1 DEF InsertRowFails, CallInv
  <2>3. TypeOK'
    BY <1>a, <1>9, <2>1, <2>2, Frame, Moves, MarkType, RowMoves, InstanceMoves, Parts
       DEF InsertRowFails, PartsOK, PCs, Answers, Requests, Marks, CallInv
  <2>4. ASSUME NEW d \in Calls, CallInv(d), RowInv(d) PROVE CallInv(d)' /\ RowInv(d)'
    <3>1. \A q \in Calls \ {c} : rows'[q] = rows[q]
      BY <1>a, <1>9, <2>1, <2>2, RowMoves DEF InsertRowFails, CallInv
    <3>2. (rows'[c] # "absent" => op[c] = "create") /\ (pc'[c] = "create" => rows'[c] # "absent")
      BY <1>a, <1>9, <2>1, <2>2, RowMoves DEF InsertRowFails, CallInv, Goto, Return, TypeOK
    <3>3. row[d] # c \/ op[d] \notin RowOps
      BY <1>9, <2>1, <2>4 DEF InsertRowFails, CallInv, RowInv
    <3>4. RowInv(d)'
      BY <1>a, <1>9, <2>4, <3>1, <3>2, <3>3 DEF TypeOK, InsertRowFails, request, RowInv,
         RowOps
    <3>5. CASE d = c
      BY <1>a, <1>9, <2>1, <2>2, <3>1, <3>2, <3>3, <3>4, <3>5 DEF TypeOK, CallInv,
         InsertRowFails, Goto, Return, request
    <3>6. CASE d # c
      BY <1>a, <1>9, <2>4, <3>1, <3>2, <3>3, <3>4, <3>6 DEF TypeOK, CallInv,
         InsertRowFails, Goto, Return, request
    <3> QED  BY <3>5, <3>6
  <2> QED  BY <1>a, <2>3, <2>4 DEF TypeInv
<1>10. ASSUME NEW c \in Calls, CreateOnDaemon(c) PROVE TypeInv'
  <2>1. CallInv(c) /\ RowInv(c)
    BY <1>a
  <2>2. pc[c] # "idle" /\ row[c] \in Calls /\ name[c] \in Names
        /\ (op[c] = "create" => row[c] = c /\ arg[c].cpus \in Cpus)
    BY <1>10, <2>1 DEF CreateOnDaemon, CallInv
  <2>3. TypeOK'
    BY <1>a, <1>10, <2>1, <2>2, Frame, Moves, MarkType, RowMoves, InstanceMoves, Parts
       DEF CreateOnDaemon, PartsOK, PCs, Answers, Requests, Marks, CallInv
  <2>4. ASSUME NEW d \in Calls, CallInv(d), RowInv(d) PROVE CallInv(d)' /\ RowInv(d)'
    <3>1. \A q \in Calls : rows'[q] = "absent" <=> rows[q] = "absent"
      BY <1>a, <1>10, <2>1, <2>2, RowMoves DEF CreateOnDaemon, CallInv, table
    <3>2. RowInv(d)'
      BY <1>a, <1>10, <2>4, <3>1 DEF TypeOK, CreateOnDaemon, request, RowInv, RowOps
    <3>3. CASE d = c
      BY <1>a, <1>10, <2>1, <2>2, <3>1, <3>2, <3>3 DEF TypeOK, CallInv, CreateOnDaemon,
         Goto, Return, request
    <3>4. CASE d # c
      BY <1>a, <1>10, <2>4, <3>1, <3>2, <3>4 DEF TypeOK, CallInv, CreateOnDaemon, Goto,
         Return, request
    <3> QED  BY <3>3, <3>4
  <2> QED  BY <1>a, <2>3, <2>4 DEF TypeInv
<1>11. ASSUME NEW c \in Calls, CreateOnDaemonFails(c) PROVE TypeInv'
  <2>1. CallInv(c) /\ RowInv(c)
    BY <1>a
  <2>2. pc[c] # "idle" /\ row[c] \in Calls /\ name[c] \in Names
        /\ (op[c] = "create" => row[c] = c /\ arg[c].cpus \in Cpus)
    BY <1>11, <2>1 DEF CreateOnDaemonFails, CallInv
  <2>3. TypeOK'
    BY <1>a, <1>11, <2>1, <2>2, Frame, Moves, MarkType, RowMoves, InstanceMoves, Parts
       DEF CreateOnDaemonFails, PartsOK, PCs, Answers, Requests, Marks, CallInv
  <2>4. ASSUME NEW d \in Calls, CallInv(d), RowInv(d) PROVE CallInv(d)' /\ RowInv(d)'
    <3>1. \A q \in Calls : rows'[q] = "absent" <=> rows[q] = "absent"
      BY <1>a, <1>11, <2>1, <2>2, RowMoves DEF CreateOnDaemonFails, CallInv, table
    <3>2. RowInv(d)'
      BY <1>a, <1>11, <2>4, <3>1 DEF TypeOK, CreateOnDaemonFails, request, RowInv,
         RowOps
    <3>3. CASE d = c
      BY <1>a, <1>11, <2>1, <2>2, <3>1, <3>2, <3>3 DEF TypeOK, CallInv,
         CreateOnDaemonFails, Goto, Return, request
    <3>4. CASE d # c
      BY <1>a, <1>11, <2>4, <3>1, <3>2, <3>4 DEF TypeOK, CallInv, CreateOnDaemonFails,
         Goto, Return, request
    <3> QED  BY <3>3, <3>4
  <2> QED  BY <1>a, <2>3, <2>4 DEF TypeInv
<1>12. ASSUME NEW c \in Calls, CreateOnDaemonUnknown(c) PROVE TypeInv'
  <2>1. CallInv(c) /\ RowInv(c)
    BY <1>a
  <2>2. pc[c] # "idle" /\ row[c] \in Calls /\ name[c] \in Names
        /\ (op[c] = "create" => row[c] = c /\ arg[c].cpus \in Cpus)
    BY <1>12, <2>1 DEF CreateOnDaemonUnknown, CallInv
  <2>3. TypeOK'
    BY <1>a, <1>12, <2>1, <2>2, Frame, Moves, MarkType, RowMoves, InstanceMoves, Parts
       DEF CreateOnDaemonUnknown, PartsOK, PCs, Answers, Requests, Marks, CallInv
  <2>4. ASSUME NEW d \in Calls, CallInv(d), RowInv(d) PROVE CallInv(d)' /\ RowInv(d)'
    <3>1. \A q \in Calls : rows'[q] = "absent" <=> rows[q] = "absent"
      BY <1>a, <1>12, <2>1, <2>2, RowMoves DEF CreateOnDaemonUnknown, CallInv, table
    <3>2. RowInv(d)'
      BY <1>a, <1>12, <2>4, <3>1 DEF TypeOK, CreateOnDaemonUnknown, request, RowInv,
         RowOps
    <3>3. CASE d = c
      BY <1>a, <1>12, <2>1, <2>2, <3>1, <3>2, <3>3 DEF TypeOK, CallInv,
         CreateOnDaemonUnknown, Goto, Return, request
    <3>4. CASE d # c
      BY <1>a, <1>12, <2>4, <3>1, <3>2, <3>4 DEF TypeOK, CallInv, CreateOnDaemonUnknown,
         Goto, Return, request
    <3> QED  BY <3>3, <3>4
  <2> QED  BY <1>a, <2>3, <2>4 DEF TypeInv
<1>13. ASSUME NEW c \in Calls, Discard(c) PROVE TypeInv'
  <2>1. CallInv(c) /\ RowInv(c)
    BY <1>a
  <2>2. pc[c] # "idle" /\ row[c] \in Calls /\ name[c] \in Names
        /\ (op[c] = "create" => row[c] = c /\ arg[c].cpus \in Cpus)
    BY <1>13, <2>1 DEF Discard, CallInv
  <2>3. TypeOK'
    BY <1>a, <1>13, <2>1, <2>2, Frame, Moves, MarkType, RowMoves, InstanceMoves, Parts
       DEF Discard, PartsOK, PCs, Answers, Requests, Marks, CallInv
  <2>4. ASSUME NEW d \in Calls, CallInv(d), RowInv(d) PROVE CallInv(d)' /\ RowInv(d)'
    <3>1. \A q \in Calls : rows'[q] = "absent" <=> rows[q] = "absent"
      BY <1>a, <1>13, <2>1, <2>2, RowMoves DEF Discard, CallInv, table
    <3>2. RowInv(d)'
      BY <1>a, <1>13, <2>4, <3>1 DEF TypeOK, Discard, request, RowInv, RowOps
    <3>3. CASE d = c
      BY <1>a, <1>13, <2>1, <2>2, <3>1, <3>2, <3>3 DEF TypeOK, CallInv, Discard, Goto,
         Return, request
    <3>4. CASE d # c
      BY <1>a, <1>13, <2>4, <3>1, <3>2, <3>4 DEF TypeOK, CallInv, Discard, Goto, Return,
         request
    <3> QED  BY <3>3, <3>4
  <2> QED  BY <1>a, <2>3, <2>4 DEF TypeInv
<1>14. ASSUME NEW c \in Calls, DiscardFails(c) PROVE TypeInv'
  <2>1. CallInv(c) /\ RowInv(c)
    BY <1>a
  <2>2. pc[c] # "idle" /\ row[c] \in Calls /\ name[c] \in Names
        /\ (op[c] = "create" => row[c] = c /\ arg[c].cpus \in Cpus)
    BY <1>14, <2>1 DEF DiscardFails, CallInv
  <2>3. TypeOK'
    BY <1>a, <1>14, <2>1, <2>2, Frame, Moves, MarkType, RowMoves, InstanceMoves, Parts
       DEF DiscardFails, PartsOK, PCs, Answers, Requests, Marks, CallInv
  <2>4. ASSUME NEW d \in Calls, CallInv(d), RowInv(d) PROVE CallInv(d)' /\ RowInv(d)'
    <3>1. \A q \in Calls : rows'[q] = "absent" <=> rows[q] = "absent"
      BY <1>a, <1>14, <2>1, <2>2, RowMoves DEF DiscardFails, CallInv, table
    <3>2. RowInv(d)'
      BY <1>a, <1>14, <2>4, <3>1 DEF TypeOK, DiscardFails, request, RowInv, RowOps
    <3>3. CASE d = c
      BY <1>a, <1>14, <2>1, <2>2, <3>1, <3>2, <3>3 DEF TypeOK, CallInv, DiscardFails,
         Goto, Return, request
    <3>4. CASE d # c
      BY <1>a, <1>14, <2>4, <3>1, <3>2, <3>4 DEF TypeOK, CallInv, DiscardFails, Goto,
         Return, request
    <3> QED  BY <3>3, <3>4
  <2> QED  BY <1>a, <2>3, <2>4 DEF TypeInv
<1>15. ASSUME NEW c \in Calls, Act(c) PROVE TypeInv'
  <2>1. CallInv(c) /\ RowInv(c)
    BY <1>a
  <2>2. pc[c] # "idle" /\ row[c] \in Calls /\ name[c] \in Names
        /\ (op[c] = "create" => row[c] = c /\ arg[c].cpus \in Cpus)
    BY <1>15, <2>1 DEF Act, CallInv
  <2>3. TypeOK'
    BY <1>a, <1>15, <2>1, <2>2, Frame, Moves, MarkType, RowMoves, InstanceMoves, Parts
       DEF Act, PartsOK, PCs, Answers, Requests, Marks, CallInv
  <2>4. ASSUME NEW d \in Calls, CallInv(d), RowInv(d) PROVE CallInv(d)' /\ RowInv(d)'
    <3>1. \A q \in Calls : rows'[q] = "absent" <=> rows[q] = "absent"
      BY <1>a, <1>15, <2>1, <2>2, RowMoves DEF Act, CallInv, table
    <3>2. RowInv(d)'
      BY <1>a, <1>15, <2>4, <3>1 DEF TypeOK, Act, request, RowInv, RowOps
    <3>3. CASE d = c
      BY <1>a, <1>15, <2>1, <2>2, <3>1, <3>2, <3>3 DEF TypeOK, CallInv, Act, Goto,
         Return, request
    <3>4. CASE d # c
      BY <1>a, <1>15, <2>4, <3>1, <3>2, <3>4 DEF TypeOK, CallInv, Act, Goto, Return,
         request
    <3> QED  BY <3>3, <3>4
  <2> QED  BY <1>a, <2>3, <2>4 DEF TypeInv
<1>16. ASSUME NEW c \in Calls, ActFails(c) PROVE TypeInv'
  <2>1. CallInv(c) /\ RowInv(c)
    BY <1>a
  <2>2. pc[c] # "idle" /\ row[c] \in Calls /\ name[c] \in Names
        /\ (op[c] = "create" => row[c] = c /\ arg[c].cpus \in Cpus)
    BY <1>16, <2>1 DEF ActFails, CallInv
  <2>3. TypeOK'
    BY <1>a, <1>16, <2>1, <2>2, Frame, Moves, MarkType, RowMoves, InstanceMoves, Parts
       DEF ActFails, PartsOK, PCs, Answers, Requests, Marks, CallInv
  <2>4. ASSUME NEW d \in Calls, CallInv(d), RowInv(d) PROVE CallInv(d)' /\ RowInv(d)'
    <3>1. \A q \in Calls : rows'[q] = "absent" <=> rows[q] = "absent"
      BY <1>a, <1>16, <2>1, <2>2, RowMoves DEF ActFails, CallInv, table
    <3>2. RowInv(d)'
      BY <1>a, <1>16, <2>4, <3>1 DEF TypeOK, ActFails, request, RowInv, RowOps
    <3>3. CASE d = c
      BY <1>a, <1>16, <2>1, <2>2, <3>1, <3>2, <3>3 DEF TypeOK, CallInv, ActFails, Goto,
         Return, request
    <3>4. CASE d # c
      BY <1>a, <1>16, <2>4, <3>1, <3>2, <3>4 DEF TypeOK, CallInv, ActFails, Goto,
         Return, request
    <3> QED  BY <3>3, <3>4
  <2> QED  BY <1>a, <2>3, <2>4 DEF TypeInv
<1>17. ASSUME NEW c \in Calls, Probe(c) PROVE TypeInv'
  <2>1. CallInv(c) /\ RowInv(c)
    BY <1>a
  <2>2. pc[c] # "idle" /\ row[c] \in Calls /\ name[c] \in Names
        /\ (op[c] = "create" => row[c] = c /\ arg[c].cpus \in Cpus)
    BY <1>17, <2>1 DEF Probe, CallInv
  <2>3. TypeOK'
    <3>1. ReadOK'
      BY <1>a, <1>17, <2>2 DEF Probe, TypeOK, ReadOK, CachedStatuses
    <3> QED
      BY <1>a, <1>17, <2>1, <2>2, Frame, Moves, MarkType, RowMoves, InstanceMoves,
         Parts, <3>1
         DEF Probe, PartsOK, PCs, Answers, Requests, Marks, CallInv, table, incus, read
  <2>4. ASSUME NEW d \in Calls, CallInv(d), RowInv(d) PROVE CallInv(d)' /\ RowInv(d)'
    <3>1. \A q \in Calls : rows'[q] = "absent" <=> rows[q] = "absent"
      BY <1>a, <1>17, <2>1, <2>2, RowMoves DEF Probe, CallInv, table
    <3>2. RowInv(d)'
      BY <1>a, <1>17, <2>4, <3>1 DEF TypeOK, Probe, request, RowInv, RowOps
    <3>3. CASE d = c
      BY <1>a, <1>17, <2>1, <2>2, <3>1, <3>2, <3>3 DEF TypeOK, CallInv, Probe, Goto,
         Return, request
    <3>4. CASE d # c
      BY <1>a, <1>17, <2>4, <3>1, <3>2, <3>4 DEF TypeOK, CallInv, Probe, Goto, Return,
         request
    <3> QED  BY <3>3, <3>4
  <2> QED  BY <1>a, <2>3, <2>4 DEF TypeInv
<1>18. ASSUME NEW c \in Calls, ProbeFails(c) PROVE TypeInv'
  <2>1. CallInv(c) /\ RowInv(c)
    BY <1>a
  <2>2. pc[c] # "idle" /\ row[c] \in Calls /\ name[c] \in Names
        /\ (op[c] = "create" => row[c] = c /\ arg[c].cpus \in Cpus)
    BY <1>18, <2>1 DEF ProbeFails, CallInv
  <2>3. TypeOK'
    <3>1. ReadOK'
      BY <1>a, <1>18, <2>2 DEF ProbeFails, TypeOK, ReadOK, CachedStatuses
    <3> QED
      BY <1>a, <1>18, <2>1, <2>2, Frame, Moves, MarkType, RowMoves, InstanceMoves,
         Parts, <3>1
         DEF ProbeFails, PartsOK, PCs, Answers, Requests, Marks, CallInv, table, incus,
             read
  <2>4. ASSUME NEW d \in Calls, CallInv(d), RowInv(d) PROVE CallInv(d)' /\ RowInv(d)'
    <3>1. \A q \in Calls : rows'[q] = "absent" <=> rows[q] = "absent"
      BY <1>a, <1>18, <2>1, <2>2, RowMoves DEF ProbeFails, CallInv, table
    <3>2. RowInv(d)'
      BY <1>a, <1>18, <2>4, <3>1 DEF TypeOK, ProbeFails, request, RowInv, RowOps
    <3>3. CASE d = c
      BY <1>a, <1>18, <2>1, <2>2, <3>1, <3>2, <3>3 DEF TypeOK, CallInv, ProbeFails,
         Goto, Return, request
    <3>4. CASE d # c
      BY <1>a, <1>18, <2>4, <3>1, <3>2, <3>4 DEF TypeOK, CallInv, ProbeFails, Goto,
         Return, request
    <3> QED  BY <3>3, <3>4
  <2> QED  BY <1>a, <2>3, <2>4 DEF TypeInv
<1>19. ASSUME NEW c \in Calls, SetStatus(c) PROVE TypeInv'
  <2>1. CallInv(c) /\ RowInv(c)
    BY <1>a
  <2>2. pc[c] # "idle" /\ row[c] \in Calls /\ name[c] \in Names
        /\ (op[c] = "create" => row[c] = c /\ arg[c].cpus \in Cpus)
    BY <1>19, <2>1 DEF SetStatus, CallInv
  <2>3. TypeOK'
    BY <1>a, <1>19, <2>1, <2>2, Frame, Moves, MarkType, RowMoves, InstanceMoves, Parts
       DEF SetStatus, PartsOK, PCs, Answers, Requests, Marks, CallInv
  <2>4. ASSUME NEW d \in Calls, CallInv(d), RowInv(d) PROVE CallInv(d)' /\ RowInv(d)'
    <3>1. \A q \in Calls : rows'[q] = "absent" <=> rows[q] = "absent"
      BY <1>a, <1>19, <2>1, <2>2, RowMoves DEF SetStatus, CallInv, table
    <3>2. RowInv(d)'
      BY <1>a, <1>19, <2>4, <3>1 DEF TypeOK, SetStatus, request, RowInv, RowOps
    <3>3. CASE d = c
      BY <1>a, <1>19, <2>1, <2>2, <3>1, <3>2, <3>3 DEF TypeOK, CallInv, SetStatus, Goto,
         Return, request
    <3>4. CASE d # c
      BY <1>a, <1>19, <2>4, <3>1, <3>2, <3>4 DEF TypeOK, CallInv, SetStatus, Goto,
         Return, request
    <3> QED  BY <3>3, <3>4
  <2> QED  BY <1>a, <2>3, <2>4 DEF TypeInv
<1>20. ASSUME NEW c \in Calls, SetStatusFails(c) PROVE TypeInv'
  <2>1. CallInv(c) /\ RowInv(c)
    BY <1>a
  <2>2. pc[c] # "idle" /\ row[c] \in Calls /\ name[c] \in Names
        /\ (op[c] = "create" => row[c] = c /\ arg[c].cpus \in Cpus)
    BY <1>20, <2>1 DEF SetStatusFails, CallInv
  <2>3. TypeOK'
    BY <1>a, <1>20, <2>1, <2>2, Frame, Moves, MarkType, RowMoves, InstanceMoves, Parts
       DEF SetStatusFails, PartsOK, PCs, Answers, Requests, Marks, CallInv
  <2>4. ASSUME NEW d \in Calls, CallInv(d), RowInv(d) PROVE CallInv(d)' /\ RowInv(d)'
    <3>1. \A q \in Calls : rows'[q] = "absent" <=> rows[q] = "absent"
      BY <1>a, <1>20, <2>1, <2>2, RowMoves DEF SetStatusFails, CallInv, table
    <3>2. RowInv(d)'
      BY <1>a, <1>20, <2>4, <3>1 DEF TypeOK, SetStatusFails, request, RowInv, RowOps
    <3>3. CASE d = c
      BY <1>a, <1>20, <2>1, <2>2, <3>1, <3>2, <3>3 DEF TypeOK, CallInv, SetStatusFails,
         Goto, Return, request
    <3>4. CASE d # c
      BY <1>a, <1>20, <2>4, <3>1, <3>2, <3>4 DEF TypeOK, CallInv, SetStatusFails, Goto,
         Return, request
    <3> QED  BY <3>3, <3>4
  <2> QED  BY <1>a, <2>3, <2>4 DEF TypeInv
<1>21. ASSUME NEW c \in Calls, Remove(c) PROVE TypeInv'
  <2>1. CallInv(c) /\ RowInv(c)
    BY <1>a
  <2>2. pc[c] # "idle" /\ row[c] \in Calls /\ name[c] \in Names
        /\ (op[c] = "create" => row[c] = c /\ arg[c].cpus \in Cpus)
    BY <1>21, <2>1 DEF Remove, CallInv
  <2>3. TypeOK'
    BY <1>a, <1>21, <2>1, <2>2, Frame, Moves, MarkType, RowMoves, InstanceMoves, Parts
       DEF Remove, PartsOK, PCs, Answers, Requests, Marks, CallInv
  <2>4. ASSUME NEW d \in Calls, CallInv(d), RowInv(d) PROVE CallInv(d)' /\ RowInv(d)'
    <3>1. \A q \in Calls : rows'[q] = "absent" <=> rows[q] = "absent"
      BY <1>a, <1>21, <2>1, <2>2, RowMoves DEF Remove, CallInv, table
    <3>2. RowInv(d)'
      BY <1>a, <1>21, <2>4, <3>1 DEF TypeOK, Remove, request, RowInv, RowOps
    <3>3. CASE d = c
      BY <1>a, <1>21, <2>1, <2>2, <3>1, <3>2, <3>3 DEF TypeOK, CallInv, Remove, Goto,
         Return, request
    <3>4. CASE d # c
      BY <1>a, <1>21, <2>4, <3>1, <3>2, <3>4 DEF TypeOK, CallInv, Remove, Goto, Return,
         request
    <3> QED  BY <3>3, <3>4
  <2> QED  BY <1>a, <2>3, <2>4 DEF TypeInv
<1>22. ASSUME NEW c \in Calls, RemoveFails(c) PROVE TypeInv'
  <2>1. CallInv(c) /\ RowInv(c)
    BY <1>a
  <2>2. pc[c] # "idle" /\ row[c] \in Calls /\ name[c] \in Names
        /\ (op[c] = "create" => row[c] = c /\ arg[c].cpus \in Cpus)
    BY <1>22, <2>1 DEF RemoveFails, CallInv
  <2>3. TypeOK'
    BY <1>a, <1>22, <2>1, <2>2, Frame, Moves, MarkType, RowMoves, InstanceMoves, Parts
       DEF RemoveFails, PartsOK, PCs, Answers, Requests, Marks, CallInv
  <2>4. ASSUME NEW d \in Calls, CallInv(d), RowInv(d) PROVE CallInv(d)' /\ RowInv(d)'
    <3>1. \A q \in Calls : rows'[q] = "absent" <=> rows[q] = "absent"
      BY <1>a, <1>22, <2>1, <2>2, RowMoves DEF RemoveFails, CallInv, table
    <3>2. RowInv(d)'
      BY <1>a, <1>22, <2>4, <3>1 DEF TypeOK, RemoveFails, request, RowInv, RowOps
    <3>3. CASE d = c
      BY <1>a, <1>22, <2>1, <2>2, <3>1, <3>2, <3>3 DEF TypeOK, CallInv, RemoveFails,
         Goto, Return, request
    <3>4. CASE d # c
      BY <1>a, <1>22, <2>4, <3>1, <3>2, <3>4 DEF TypeOK, CallInv, RemoveFails, Goto,
         Return, request
    <3> QED  BY <3>3, <3>4
  <2> QED  BY <1>a, <2>3, <2>4 DEF TypeInv
<1>23. ASSUME NEW c \in Calls, SoftDelete(c) PROVE TypeInv'
  <2>1. CallInv(c) /\ RowInv(c)
    BY <1>a
  <2>2. pc[c] # "idle" /\ row[c] \in Calls /\ name[c] \in Names
        /\ (op[c] = "create" => row[c] = c /\ arg[c].cpus \in Cpus)
    BY <1>23, <2>1 DEF SoftDelete, CallInv
  <2>3. TypeOK'
    BY <1>a, <1>23, <2>1, <2>2, Frame, Moves, MarkType, RowMoves, InstanceMoves, Parts
       DEF SoftDelete, PartsOK, PCs, Answers, Requests, Marks, CallInv
  <2>4. ASSUME NEW d \in Calls, CallInv(d), RowInv(d) PROVE CallInv(d)' /\ RowInv(d)'
    <3>1. \A q \in Calls : rows'[q] = "absent" <=> rows[q] = "absent"
      BY <1>a, <1>23, <2>1, <2>2, RowMoves DEF SoftDelete, CallInv, table
    <3>2. RowInv(d)'
      BY <1>a, <1>23, <2>4, <3>1 DEF TypeOK, SoftDelete, request, RowInv, RowOps
    <3>3. CASE d = c
      BY <1>a, <1>23, <2>1, <2>2, <3>1, <3>2, <3>3 DEF TypeOK, CallInv, SoftDelete,
         Goto, Return, request
    <3>4. CASE d # c
      BY <1>a, <1>23, <2>4, <3>1, <3>2, <3>4 DEF TypeOK, CallInv, SoftDelete, Goto,
         Return, request
    <3> QED  BY <3>3, <3>4
  <2> QED  BY <1>a, <2>3, <2>4 DEF TypeInv
<1>24. ASSUME NEW c \in Calls, SoftDeleteFails(c) PROVE TypeInv'
  <2>1. CallInv(c) /\ RowInv(c)
    BY <1>a
  <2>2. pc[c] # "idle" /\ row[c] \in Calls /\ name[c] \in Names
        /\ (op[c] = "create" => row[c] = c /\ arg[c].cpus \in Cpus)
    BY <1>24, <2>1 DEF SoftDeleteFails, CallInv
  <2>3. TypeOK'
    BY <1>a, <1>24, <2>1, <2>2, Frame, Moves, MarkType, RowMoves, InstanceMoves, Parts
       DEF SoftDeleteFails, PartsOK, PCs, Answers, Requests, Marks, CallInv
  <2>4. ASSUME NEW d \in Calls, CallInv(d), RowInv(d) PROVE CallInv(d)' /\ RowInv(d)'
    <3>1. \A q \in Calls : rows'[q] = "absent" <=> rows[q] = "absent"
      BY <1>a, <1>24, <2>1, <2>2, RowMoves DEF SoftDeleteFails, CallInv, table
    <3>2. RowInv(d)'
      BY <1>a, <1>24, <2>4, <3>1 DEF TypeOK, SoftDeleteFails, request, RowInv, RowOps
    <3>3. CASE d = c
      BY <1>a, <1>24, <2>1, <2>2, <3>1, <3>2, <3>3 DEF TypeOK, CallInv, SoftDeleteFails,
         Goto, Return, request
    <3>4. CASE d # c
      BY <1>a, <1>24, <2>4, <3>1, <3>2, <3>4 DEF TypeOK, CallInv, SoftDeleteFails, Goto,
         Return, request
    <3> QED  BY <3>3, <3>4
  <2> QED  BY <1>a, <2>3, <2>4 DEF TypeInv
<1>25. ASSUME NEW c \in Calls, ReadLive(c) PROVE TypeInv'
  <2>1. CallInv(c) /\ RowInv(c)
    BY <1>a
  <2>2. pc[c] # "idle" /\ row[c] \in Calls /\ name[c] \in Names
        /\ (op[c] = "create" => row[c] = c /\ arg[c].cpus \in Cpus)
    BY <1>25, <2>1 DEF ReadLive, CallInv
  <2>3. TypeOK'
    <3>1. ReadOK'
      BY <1>a, <1>25, <2>2 DEF ReadLive, TypeOK, ReadOK, Asked, Args, VCPUs
    <3> QED
      BY <1>a, <1>25, <2>1, <2>2, Frame, Moves, MarkType, RowMoves, InstanceMoves,
         Parts, <3>1
         DEF ReadLive, PartsOK, PCs, Answers, Requests, Marks, CallInv, table, incus,
             read
  <2>4. ASSUME NEW d \in Calls, CallInv(d), RowInv(d) PROVE CallInv(d)' /\ RowInv(d)'
    <3>1. \A q \in Calls : rows'[q] = "absent" <=> rows[q] = "absent"
      BY <1>a, <1>25, <2>1, <2>2, RowMoves DEF ReadLive, CallInv, table
    <3>2. RowInv(d)'
      BY <1>a, <1>25, <2>4, <3>1 DEF TypeOK, ReadLive, request, RowInv, RowOps
    <3>3. CASE d = c
      BY <1>a, <1>25, <2>1, <2>2, <3>1, <3>2, <3>3 DEF TypeOK, CallInv, ReadLive, Goto,
         Return, request
    <3>4. CASE d # c
      BY <1>a, <1>25, <2>4, <3>1, <3>2, <3>4 DEF TypeOK, CallInv, ReadLive, Goto,
         Return, request
    <3> QED  BY <3>3, <3>4
  <2> QED  BY <1>a, <2>3, <2>4 DEF TypeInv
<1>26. ASSUME NEW c \in Calls, ReadLiveFails(c) PROVE TypeInv'
  <2>1. CallInv(c) /\ RowInv(c)
    BY <1>a
  <2>2. pc[c] # "idle" /\ row[c] \in Calls /\ name[c] \in Names
        /\ (op[c] = "create" => row[c] = c /\ arg[c].cpus \in Cpus)
    BY <1>26, <2>1 DEF ReadLiveFails, CallInv
  <2>3. TypeOK'
    <3>1. ReadOK'
      BY <1>a, <1>26, <2>2 DEF ReadLiveFails, TypeOK, ReadOK, Asked, Args, VCPUs
    <3>2. MarkIf(arg[c].cpus = Keep, "failure") \in SUBSET Marks
      BY DEF MarkIf, Marks
    <3> QED
      BY <1>a, <1>26, <2>1, <2>2, Frame, Moves, MarkType, RowMoves, InstanceMoves,
         Parts, <3>1, <3>2
         DEF ReadLiveFails, PartsOK, PCs, Answers, Requests, Marks, CallInv, table,
             incus, read
  <2>4. ASSUME NEW d \in Calls, CallInv(d), RowInv(d) PROVE CallInv(d)' /\ RowInv(d)'
    <3>1. \A q \in Calls : rows'[q] = "absent" <=> rows[q] = "absent"
      BY <1>a, <1>26, <2>1, <2>2, RowMoves DEF ReadLiveFails, CallInv, table
    <3>2. RowInv(d)'
      BY <1>a, <1>26, <2>4, <3>1 DEF TypeOK, ReadLiveFails, request, RowInv, RowOps
    <3>3. CASE d = c
      BY <1>a, <1>26, <2>1, <2>2, <3>1, <3>2, <3>3 DEF TypeOK, CallInv, ReadLiveFails,
         Goto, Return, request
    <3>4. CASE d # c
      BY <1>a, <1>26, <2>4, <3>1, <3>2, <3>4 DEF TypeOK, CallInv, ReadLiveFails, Goto,
         Return, request
    <3> QED  BY <3>3, <3>4
  <2> QED  BY <1>a, <2>3, <2>4 DEF TypeInv
<1>27. ASSUME NEW c \in Calls, Put(c) PROVE TypeInv'
  <2>1. CallInv(c) /\ RowInv(c)
    BY <1>a
  <2>2. pc[c] # "idle" /\ row[c] \in Calls /\ name[c] \in Names
        /\ (op[c] = "create" => row[c] = c /\ arg[c].cpus \in Cpus)
    BY <1>27, <2>1 DEF Put, CallInv
  <2>3. TypeOK'
    BY <1>a, <1>27, <2>1, <2>2, Frame, Moves, MarkType, RowMoves, InstanceMoves, Parts
       DEF Put, PartsOK, PCs, Answers, Requests, Marks, CallInv
  <2>4. ASSUME NEW d \in Calls, CallInv(d), RowInv(d) PROVE CallInv(d)' /\ RowInv(d)'
    <3>1. \A q \in Calls : rows'[q] = "absent" <=> rows[q] = "absent"
      BY <1>a, <1>27, <2>1, <2>2, RowMoves DEF Put, CallInv, table
    <3>2. RowInv(d)'
      BY <1>a, <1>27, <2>4, <3>1 DEF TypeOK, Put, request, RowInv, RowOps
    <3>3. CASE d = c
      BY <1>a, <1>27, <2>1, <2>2, <3>1, <3>2, <3>3 DEF TypeOK, CallInv, Put, Goto,
         Return, request
    <3>4. CASE d # c
      BY <1>a, <1>27, <2>4, <3>1, <3>2, <3>4 DEF TypeOK, CallInv, Put, Goto, Return,
         request
    <3> QED  BY <3>3, <3>4
  <2> QED  BY <1>a, <2>3, <2>4 DEF TypeInv
<1>28. ASSUME NEW c \in Calls, PutFails(c) PROVE TypeInv'
  <2>1. CallInv(c) /\ RowInv(c)
    BY <1>a
  <2>2. pc[c] # "idle" /\ row[c] \in Calls /\ name[c] \in Names
        /\ (op[c] = "create" => row[c] = c /\ arg[c].cpus \in Cpus)
    BY <1>28, <2>1 DEF PutFails, CallInv
  <2>3. TypeOK'
    BY <1>a, <1>28, <2>1, <2>2, Frame, Moves, MarkType, RowMoves, InstanceMoves, Parts
       DEF PutFails, PartsOK, PCs, Answers, Requests, Marks, CallInv
  <2>4. ASSUME NEW d \in Calls, CallInv(d), RowInv(d) PROVE CallInv(d)' /\ RowInv(d)'
    <3>1. \A q \in Calls : rows'[q] = "absent" <=> rows[q] = "absent"
      BY <1>a, <1>28, <2>1, <2>2, RowMoves DEF PutFails, CallInv, table
    <3>2. RowInv(d)'
      BY <1>a, <1>28, <2>4, <3>1 DEF TypeOK, PutFails, request, RowInv, RowOps
    <3>3. CASE d = c
      BY <1>a, <1>28, <2>1, <2>2, <3>1, <3>2, <3>3 DEF TypeOK, CallInv, PutFails, Goto,
         Return, request
    <3>4. CASE d # c
      BY <1>a, <1>28, <2>4, <3>1, <3>2, <3>4 DEF TypeOK, CallInv, PutFails, Goto,
         Return, request
    <3> QED  BY <3>3, <3>4
  <2> QED  BY <1>a, <2>3, <2>4 DEF TypeInv
<1>29. ASSUME NEW c \in Calls, UpdateConfig(c) PROVE TypeInv'
  <2>1. CallInv(c) /\ RowInv(c)
    BY <1>a
  <2>2. pc[c] # "idle" /\ row[c] \in Calls /\ name[c] \in Names
        /\ (op[c] = "create" => row[c] = c /\ arg[c].cpus \in Cpus)
    BY <1>29, <2>1 DEF UpdateConfig, CallInv
  <2>3. TypeOK'
    BY <1>a, <1>29, <2>1, <2>2, Frame, Moves, MarkType, RowMoves, InstanceMoves, Parts
       DEF UpdateConfig, PartsOK, PCs, Answers, Requests, Marks, CallInv
  <2>4. ASSUME NEW d \in Calls, CallInv(d), RowInv(d) PROVE CallInv(d)' /\ RowInv(d)'
    <3>1. \A q \in Calls : rows'[q] = "absent" <=> rows[q] = "absent"
      BY <1>a, <1>29, <2>1, <2>2, RowMoves DEF UpdateConfig, CallInv, table
    <3>2. RowInv(d)'
      BY <1>a, <1>29, <2>4, <3>1 DEF TypeOK, UpdateConfig, request, RowInv, RowOps
    <3>3. CASE d = c
      BY <1>a, <1>29, <2>1, <2>2, <3>1, <3>2, <3>3 DEF TypeOK, CallInv, UpdateConfig,
         Goto, Return, request
    <3>4. CASE d # c
      BY <1>a, <1>29, <2>4, <3>1, <3>2, <3>4 DEF TypeOK, CallInv, UpdateConfig, Goto,
         Return, request
    <3> QED  BY <3>3, <3>4
  <2> QED  BY <1>a, <2>3, <2>4 DEF TypeInv
<1>30. ASSUME NEW c \in Calls, UpdateConfigFails(c) PROVE TypeInv'
  <2>1. CallInv(c) /\ RowInv(c)
    BY <1>a
  <2>2. pc[c] # "idle" /\ row[c] \in Calls /\ name[c] \in Names
        /\ (op[c] = "create" => row[c] = c /\ arg[c].cpus \in Cpus)
    BY <1>30, <2>1 DEF UpdateConfigFails, CallInv
  <2>3. TypeOK'
    BY <1>a, <1>30, <2>1, <2>2, Frame, Moves, MarkType, RowMoves, InstanceMoves, Parts
       DEF UpdateConfigFails, PartsOK, PCs, Answers, Requests, Marks, CallInv
  <2>4. ASSUME NEW d \in Calls, CallInv(d), RowInv(d) PROVE CallInv(d)' /\ RowInv(d)'
    <3>1. \A q \in Calls : rows'[q] = "absent" <=> rows[q] = "absent"
      BY <1>a, <1>30, <2>1, <2>2, RowMoves DEF UpdateConfigFails, CallInv, table
    <3>2. RowInv(d)'
      BY <1>a, <1>30, <2>4, <3>1 DEF TypeOK, UpdateConfigFails, request, RowInv, RowOps
    <3>3. CASE d = c
      BY <1>a, <1>30, <2>1, <2>2, <3>1, <3>2, <3>3 DEF TypeOK, CallInv,
         UpdateConfigFails, Goto, Return, request
    <3>4. CASE d # c
      BY <1>a, <1>30, <2>4, <3>1, <3>2, <3>4 DEF TypeOK, CallInv, UpdateConfigFails,
         Goto, Return, request
    <3> QED  BY <3>3, <3>4
  <2> QED  BY <1>a, <2>3, <2>4 DEF TypeInv
<1>31. ASSUME NEW c \in Calls, Crash(c) PROVE TypeInv'
  <2>1. CallInv(c) /\ RowInv(c)
    BY <1>a
  <2>2. pc[c] # "idle" /\ row[c] \in Calls /\ name[c] \in Names
        /\ (op[c] = "create" => row[c] = c /\ arg[c].cpus \in Cpus)
    BY <1>31, <2>1 DEF Crash, CallInv, Running
  <2>3. TypeOK'
    <3>1. LateOK'
      BY <1>a, <1>31 DEF Crash, TypeOK, LateOK
    <3>2. {"failure"} \cup MarkIf(pc[c] \in {"create", "discard", "remove", "softdelete"}, "lost")
            \in SUBSET Marks
      BY DEF MarkIf, Marks
    <3> QED
      BY <1>a, <1>31, <2>1, <2>2, Frame, Moves, MarkType, RowMoves, InstanceMoves,
         Parts, <3>1, <3>2
         DEF Crash, PartsOK, PCs, Answers, Requests, Marks, CallInv, table, incus, read
  <2>4. ASSUME NEW d \in Calls, CallInv(d), RowInv(d) PROVE CallInv(d)' /\ RowInv(d)'
    <3>1. \A q \in Calls : rows'[q] = "absent" <=> rows[q] = "absent"
      BY <1>a, <1>31, <2>1, <2>2, RowMoves DEF Crash, CallInv, table
    <3>2. RowInv(d)'
      BY <1>a, <1>31, <2>4, <3>1 DEF TypeOK, Crash, request, RowInv, RowOps
    <3>3. CASE d = c
      BY <1>a, <1>31, <2>1, <2>2, <3>1, <3>2, <3>3 DEF TypeOK, CallInv, Crash, Goto,
         Return, request, Requests, Running
    <3>4. CASE d # c
      BY <1>a, <1>31, <2>4, <3>1, <3>2, <3>4 DEF TypeOK, CallInv, Crash, Goto, Return,
         request
    <3> QED  BY <3>3, <3>4
  <2> QED  BY <1>a, <2>3, <2>4 DEF TypeInv
<1>32. ASSUME NEW c \in Calls, NEW what \in Requests, Late(c, what)
      PROVE  TypeInv'
  <2>1. CallInv(c)
    BY <1>a
  <2>2. name[c] \in Names /\ (what = "create" => arg[c].cpus \in Cpus)
    BY <1>32, <2>1 DEF Late, CallInv
  <2>3. LateOK' /\ ControlOK'
    BY <1>a, <1>32 DEF Late, TypeOK, LateOK, ControlOK
  <2>4. TypeOK'
    BY <1>a, <1>32, <2>2, <2>3, Frame, InstanceMoves, Parts DEF Late, PartsOK
  <2>5. ASSUME NEW d \in Calls, CallInv(d), RowInv(d) PROVE CallInv(d)' /\ RowInv(d)'
    BY <1>a, <1>32, <2>5 DEF TypeOK, CallInv, RowInv, Late, request, table, RowOps
  <2> QED  BY <1>a, <2>4, <2>5 DEF TypeInv
<1>33. ASSUME NEW n \in Names, GuestStops(n) PROVE TypeInv'
  <2>1. IncusOK' /\ MarksOK' /\ ControlOK'
    BY <1>a, <1>33 DEF TypeOK, GuestStops, Mark, Marks, Statuses, IncusOK, MarksOK, ControlOK
  <2>2. TypeOK'
    BY <1>a, <1>33, <2>1, Frame, Parts DEF GuestStops, PartsOK
  <2>3. ASSUME NEW d \in Calls, CallInv(d), RowInv(d) PROVE CallInv(d)' /\ RowInv(d)'
    BY <1>a, <1>33, <2>3 DEF TypeOK, CallInv, RowInv, GuestStops, table, request, RowOps
  <2> QED  BY <1>a, <2>2, <2>3 DEF TypeInv
<1> QED
  BY <1>1, <1>2, <1>3, <1>4, <1>5, <1>6, <1>7, <1>8, <1>9, <1>10, <1>11, <1>12, <1>13,
     <1>14, <1>15, <1>16, <1>17, <1>18, <1>19, <1>20, <1>21, <1>22, <1>23, <1>24, <1>25,
     <1>26, <1>27, <1>28, <1>29, <1>30, <1>31, <1>32, <1>33 DEF Next

(* Every variable has its type, in every reachable state.                  *)
THEOREM TypeCorrect == Spec => []TypeOK
<1>1. TypeInv => TypeOK
  BY DEF TypeInv
<1> QED
  BY <1>1, TypeInit, TypeStep, PTL DEF Spec

-------------------------------------------------------------------------------
(* The quota.                                                              *)

(* The virtual CPUs that the rows of a set ask for.                        *)
Units(S, f) == UNION {{r} \X (1 .. f[r]) : r \in S}

LEMMA UnitsFinite ==
    ASSUME NEW S \in SUBSET Calls, NEW f \in [Calls -> Nat]
    PROVE  IsFiniteSet(Units(S, f)) /\ Cardinality(Units(S, f)) \in Nat
<1> DEFINE of == [r \in S |-> {r} \X (1 .. f[r])]
           All == {{r} \X (1 .. f[r]) : r \in S}
<1>1. IsFiniteSet(S)
  BY ConstantsAssumption, FS_Subset
<1>2. of \in Surjection(S, All)
  BY DEF Surjection
<1>3. IsFiniteSet(All)
  BY <1>1, <1>2, FS_Surjection
<1>4. ASSUME NEW r \in S PROVE IsFiniteSet({r} \X (1 .. f[r]))
  <2>1. IsFiniteSet({r})
    BY FS_Singleton
  <2>2. IsFiniteSet(1 .. f[r])
    <3>1. f[r] \in Int
      OBVIOUS
    <3> QED  BY <3>1, FS_Interval
  <2> QED  BY <2>1, <2>2, FS_Product
<1>5. IsFiniteSet(UNION All)
  BY <1>3, <1>4, FS_UNION
<1> QED
  BY <1>5, FS_CardinalityType DEF Units

LEMMA UnitsFewer ==
    ASSUME NEW S \in SUBSET Calls, NEW f \in [Calls -> Nat],
           NEW T \in SUBSET S, NEW g \in [Calls -> Nat], \A r \in T : g[r] <= f[r]
    PROVE  Cardinality(Units(T, g)) <= Cardinality(Units(S, f))
<1>1. ASSUME NEW u \in Units(T, g) PROVE u \in Units(S, f)
  <2>1. PICK r \in T : u \in {r} \X (1 .. g[r])
    BY DEF Units
  <2>2. 1 .. g[r] \subseteq 1 .. f[r]
    BY <2>1
  <2>3. u \in {r} \X (1 .. f[r])
    BY <2>1, <2>2
  <2> QED  BY <2>3 DEF Units
<1> QED
  BY <1>1, UnitsFinite, FS_Subset

LEMMA IntervalSize == ASSUME NEW n \in Nat PROVE IsFiniteSet(1 .. n) /\ Cardinality(1 .. n) = n
<1>1. 1 \in Int /\ n \in Int
  OBVIOUS
<1> DEFINE I == 1 .. n
<1>2. IsFiniteSet(I) /\ Cardinality(I) = (IF 1 > n THEN 0 ELSE n - 1 + 1)
  BY <1>1, FS_Interval, Zenon
<1> HIDE DEF I
<1>3. Cardinality(I) = n
  BY <1>2
<1> QED
  BY <1>2, <1>3 DEF I

LEMMA UnitsMore ==
    ASSUME NEW S \in SUBSET Calls, NEW f \in [Calls -> Nat], NEW c \in Calls,
           NEW g \in [Calls -> Nat], \A r \in S \ {c} : g[r] = f[r]
    PROVE  Cardinality(Units(S \cup {c}, g)) <= Cardinality(Units(S, f)) + g[c]
<1> DEFINE Own == {c} \X (1 .. g[c])
<1>1. IsFiniteSet({c}) /\ Cardinality({c}) = 1
  BY FS_Singleton
<1>2. IsFiniteSet(Own) /\ Cardinality(Own) = g[c]
  <2>1. g[c] \in Nat
    OBVIOUS
  <2>2. IsFiniteSet(1 .. g[c])
    BY <2>1, IntervalSize
  <2>3. Cardinality(1 .. g[c]) = g[c]
    BY <2>1, IntervalSize
  <2>4. /\ IsFiniteSet({c} \X (1 .. g[c]))
        /\ Cardinality({c} \X (1 .. g[c])) = Cardinality({c}) * Cardinality(1 .. g[c])
    BY <1>1, <2>2, FS_Product
  <2> QED  BY <1>1, <2>1, <2>3, <2>4
<1>3. ASSUME NEW u \in Units(S \cup {c}, g) PROVE u \in Units(S, f) \cup Own
  <2>1. PICK r \in S \cup {c} : u \in {r} \X (1 .. g[r])
    BY DEF Units
  <2>2. CASE r = c
    BY <2>1, <2>2
  <2>3. CASE r # c
    <3>1. r \in S /\ u \in {r} \X (1 .. f[r])
      BY <2>1, <2>3
    <3> QED  BY <3>1 DEF Units
  <2> QED  BY <2>2, <2>3
<1>4. /\ IsFiniteSet(Units(S, f) \cup Own)
      /\ Cardinality(Units(S, f) \cup Own)
           = Cardinality(Units(S, f)) + g[c] - Cardinality(Units(S, f) \cap Own)
  BY <1>2, UnitsFinite, FS_Union
<1>5. Cardinality(Units(S, f) \cap Own) \in Nat /\ Cardinality(Units(S, f)) \in Nat
  BY <1>2, UnitsFinite, FS_Intersection, FS_CardinalityType
<1>6. Cardinality(Units(S \cup {c}, g)) <= Cardinality(Units(S, f) \cup Own)
  BY <1>3, <1>4, FS_Subset
<1>7. Cardinality(Units(S \cup {c}, g)) \in Nat
  BY UnitsFinite
<1> HIDE DEF Own
<1> QED
  BY <1>4, <1>5, <1>6, <1>7

(* A create between its check and its insert is the only one, and its      *)
(* virtual CPUs still fit.                                                 *)
InsertFits(c) ==
    pc[c] = "insert" =>
        /\ Usage + arg[c].cpus <= MaxVCPUs
        /\ \A d \in Calls : pc[d] = "insert" => c = d

QuotaInv == MaxVCPUs # 0 /\ excess = {} => Usage <= MaxVCPUs /\ \A c \in Calls : InsertFits(c)

Adds ==
    /\ Live \in SUBSET Calls /\ cachedCpus \in [Calls -> Nat]
    /\ Usage = Cardinality(Units(Live, cachedCpus))
    /\ Usage \in Nat

LEMMA VCPUsAreNat == VCPUs \subseteq Nat
BY ConstantsAssumption DEF VCPUs, DefaultVCPUs

LEMMA UsageUnits == (TypeOK => Adds) /\ (TypeOK' => Adds')
<1>1. ASSUME TypeOK PROVE Adds
  <2>1. Live \in SUBSET Calls /\ cachedCpus \in [Calls -> Nat]
    BY <1>1, VCPUsAreNat DEF TypeOK, Live
  <2>2. Usage = Cardinality(Units(Live, cachedCpus))
    BY DEF Usage, Units, VCPUsOf
  <2> QED  BY <2>1, <2>2, UnitsFinite DEF Adds
<1>2. ASSUME TypeOK' PROVE Adds'
  <2>1. Live' \in SUBSET Calls /\ cachedCpus' \in [Calls -> Nat]
    BY <1>2, VCPUsAreNat DEF TypeOK, Live
  <2>2. Usage' = Cardinality(Units(Live', cachedCpus'))
    BY DEF Usage, Units, VCPUsOf
  <2>3. Cardinality(Units(Live', cachedCpus')) \in Nat
    BY <2>1, UnitsFinite
  <2> QED  BY <2>1, <2>2, <2>3 DEF Adds
<1> QED
  BY <1>1, <1>2

(* What the rows ask for does not grow, and no new create is about to      *)
(* insert one.                                                             *)
LEMMA QuotaFrame ==
    ASSUME TypeOK, TypeOK', QuotaInv, \A c \in Calls : CallInv(c),
           Live' \subseteq Live, \A r \in Live' : cachedCpus'[r] <= cachedCpus[r],
           \A c \in Calls : pc'[c] = "insert" => pc[c] = "insert" /\ arg'[c] = arg[c],
           excess \subseteq excess'
    PROVE  QuotaInv'
<1>1. Live \in SUBSET Calls /\ cachedCpus \in [Calls -> Nat] /\ Usage \in Nat
      /\ Usage = Cardinality(Units(Live, cachedCpus))
  BY UsageUnits DEF Adds
<1>2. cachedCpus' \in [Calls -> Nat] /\ Usage' \in Nat
      /\ Usage' = Cardinality(Units(Live', cachedCpus'))
  BY UsageUnits DEF Adds
<1>3. Usage' <= Usage
  BY <1>1, <1>2, UnitsFewer
<1>4. MaxVCPUs \in Nat
  BY ConstantsAssumption
<1> SUFFICES ASSUME MaxVCPUs # 0, excess' = {}
             PROVE  Usage' <= MaxVCPUs /\ \A c \in Calls : InsertFits(c)'
  BY DEF QuotaInv
<1>5. Usage <= MaxVCPUs /\ \A c \in Calls : InsertFits(c)
  BY DEF QuotaInv
<1>6. ASSUME NEW c \in Calls, pc'[c] = "insert" PROVE InsertFits(c)'
  <2>1. pc[c] = "insert" /\ arg'[c] = arg[c] /\ InsertFits(c)
    BY <1>5, <1>6
  <2>2. arg[c].cpus \in Nat /\ Usage + arg[c].cpus <= MaxVCPUs
    BY <2>1, ConstantsAssumption DEF InsertFits, CallInv
  <2>3. Usage' + arg'[c].cpus <= MaxVCPUs
    BY <1>1, <1>2, <1>3, <1>4, <2>1, <2>2
  <2> QED  BY <2>1, <2>3 DEF InsertFits
<1>7. ASSUME NEW c \in Calls, pc'[c] # "insert" PROVE InsertFits(c)'
  BY <1>7 DEF InsertFits
<1>8. Usage' <= MaxVCPUs
  BY <1>1, <1>2, <1>3, <1>4, <1>5
<1> QED
  BY <1>6, <1>7, <1>8

(* A row is inserted by a create that checked alone.                       *)
LEMMA QuotaInsert ==
    ASSUME TypeOK, TypeOK', QuotaInv, NEW c \in Calls, CallInv(c),
           pc[c] = "insert", Insert(c), pc'[c] # "insert",
           \A d \in Calls \ {c} : pc'[d] = pc[d],
           excess' = excess
    PROVE  QuotaInv'
<1>1. Live \in SUBSET Calls /\ cachedCpus \in [Calls -> Nat] /\ Usage \in Nat
      /\ Usage = Cardinality(Units(Live, cachedCpus))
  BY UsageUnits DEF Adds
<1>2. cachedCpus' \in [Calls -> Nat] /\ Usage' \in Nat
      /\ Usage' = Cardinality(Units(Live', cachedCpus'))
  BY UsageUnits DEF Adds
<1>3. Live' = Live \cup {c} /\ cachedCpus'[c] = arg[c].cpus
      /\ \A r \in Live \ {c} : cachedCpus'[r] = cachedCpus[r]
  BY DEF TypeOK, Insert, Live
<1>4. Usage' <= Usage + arg[c].cpus
  BY <1>1, <1>2, <1>3, UnitsMore
<1> SUFFICES ASSUME MaxVCPUs # 0, excess' = {}
             PROVE  Usage' <= MaxVCPUs /\ \A d \in Calls : InsertFits(d)'
  BY DEF QuotaInv
<1>5. InsertFits(c)
  BY DEF QuotaInv
<1>6. arg[c].cpus \in Nat /\ MaxVCPUs \in Nat
  BY ConstantsAssumption DEF CallInv
<1>7. Usage' <= MaxVCPUs
  BY <1>1, <1>2, <1>4, <1>5, <1>6 DEF InsertFits
<1>8. ASSUME NEW d \in Calls PROVE pc'[d] # "insert"
  BY <1>5 DEF InsertFits
<1> QED
  BY <1>7, <1>8 DEF InsertFits

(* A patch that asks for more leaves its mark.                             *)
LEMMA QuotaRecord ==
    ASSUME TypeOK, TypeOK', QuotaInv, NEW c \in Calls, row[c] \in Calls, Record(c),
           \A d \in Calls : CallInv(d),
           \A d \in Calls : pc'[d] = "insert" => pc[d] = "insert", arg' = arg
    PROVE  QuotaInv'
<1>1. cachedCpus \in [Calls -> Nat] /\ Live \in SUBSET Calls /\ seenCpus \in [Calls -> Nat]
  BY UsageUnits, VCPUsAreNat DEF Adds, TypeOK
<1>2. CASE seenCpus[c] > cachedCpus[row[c]]
  <2>1. "patch" \in excess'
    BY <1>2 DEF Record, MarkIf
  <2> QED  BY <2>1 DEF QuotaInv
<1>3. CASE ~(seenCpus[c] > cachedCpus[row[c]])
  <2>1. \A r \in Calls : cachedCpus'[r] <= cachedCpus[r]
    BY <1>1, <1>3 DEF Record
  <2>2. Live' = Live /\ excess \subseteq excess'
    BY DEF Record, Live
  <2> QED  BY <1>1, <2>1, <2>2, QuotaFrame
<1> QED
  BY <1>2, <1>3

LEMMA QuotaInit == Init => QuotaInv
<1> SUFFICES ASSUME Init PROVE QuotaInv
  OBVIOUS
<1>1. Live = {}
  BY DEF Init, Live
<1>2. Usage = 0
  BY <1>1, FS_EmptySet DEF Usage
<1> QED
  BY <1>2, ConstantsAssumption DEF Init, QuotaInv, InsertFits

(* The calls on a row begin alike.                                         *)
LEMMA OnRow ==
    ASSUME NEW c \in Calls, NEW r \in Calls,
           \/ \E a \in Actions : SetInstanceState(c, r, a)
           \/ \E f \in BOOLEAN : DeleteInstance(c, r, f)
           \/ \E k \in Cpus \cup {Keep} : UpdateInstance(c, r, k)
           \/ ReconcileInstance(c, r)
    PROVE  \E o \in RowOps, a \in Args : BeginOnRow(c, o, r, a)
<1>1. /\ \A a \in Actions : [NoArg EXCEPT !.action = a] \in Args
      /\ \A f \in BOOLEAN : [NoArg EXCEPT !.force = f] \in Args
      /\ \A k \in Cpus \cup {Keep} : [NoArg EXCEPT !.cpus = k] \in Args
      /\ NoArg \in Args
  BY ConstantsAssumption DEF Args, NoArg, LifecycleActions
<1>2. "state" \in RowOps /\ "delete" \in RowOps /\ "update" \in RowOps /\ "reconcile" \in RowOps
  BY DEF RowOps
<1> QED
  BY <1>1, <1>2 DEF SetInstanceState, DeleteInstance, UpdateInstance, ReconcileInstance

LEMMA QuotaStep == TypeInv /\ TypeInv' /\ QuotaInv /\ [Next]_vars => QuotaInv'
<1> SUFFICES ASSUME TypeInv, TypeInv', QuotaInv, [Next]_vars PROVE QuotaInv'
  OBVIOUS
<1>a. TypeOK /\ TypeOK' /\ \A c \in Calls : CallInv(c) /\ RowInv(c)
  BY DEF TypeInv
<1>b. ASSUME NEW n \in Nat PROVE n <= n
  OBVIOUS
<1>c. cachedCpus \in [Calls -> Nat] /\ Live \in SUBSET Calls
  BY <1>a, UsageUnits DEF Adds
<1>1. CASE UNCHANGED vars
  BY <1>1, <1>a, <1>b, <1>c, QuotaFrame DEF vars, table, request, Live
<1>2. ASSUME NEW c \in Calls, NEW n \in Names, NEW k \in Cpus, BeginCreate(c, n, k)
      PROVE  QuotaInv'
  <2>1. \A d \in Calls : pc'[d] = "insert" => pc[d] = "insert" /\ arg'[d] = arg[d]
    BY <1>a, <1>2 DEF TypeOK, BeginCreate, Ask, Goto, Return
  <2> QED  BY <1>a, <1>b, <1>c, <1>2, <2>1, QuotaFrame DEF BeginCreate, table, Live
<1>3. ASSUME NEW c \in Calls, NEW o \in RowOps, NEW r \in Calls, NEW a \in Args,
             BeginOnRow(c, o, r, a)
      PROVE  QuotaInv'
  <2>1. First(o, cachedStatus[r]) # "insert"
    BY DEF First, RowOps
  <2>2. \A d \in Calls : pc'[d] = "insert" => pc[d] = "insert" /\ arg'[d] = arg[d]
    BY <1>a, <1>3, <2>1 DEF TypeOK, BeginOnRow, Ask, Goto, Return
  <2> QED  BY <1>a, <1>b, <1>c, <1>3, <2>2, QuotaFrame DEF BeginOnRow, table, Live
<1>4. ASSUME NEW c \in Calls, CheckQuota(c) PROVE QuotaInv'
  <2>1. CallInv(c)
    BY <1>a
  <2>2. CASE /\ Fits(arg[c].cpus)
             /\ excess' = excess \cup MarkIf(\E d \in Calls : pc[d] = "insert", "overlap")
             /\ Goto(c, "insert")
    <3> SUFFICES ASSUME MaxVCPUs # 0, excess' = {}
                 PROVE  Usage' <= MaxVCPUs /\ \A d \in Calls : InsertFits(d)'
      BY DEF QuotaInv
    <3>1. excess = {} /\ \A d \in Calls : pc[d] # "insert"
      BY <2>2 DEF MarkIf
    <3>2. Usage' = Usage /\ arg' = arg
      BY <1>4 DEF CheckQuota, table, request, Usage, Live, VCPUsOf
    <3>3. Usage <= MaxVCPUs
      BY <3>1 DEF QuotaInv
    <3>4. Usage + arg[c].cpus <= MaxVCPUs
      BY <2>2 DEF Fits
    <3>5. \A d \in Calls : pc'[d] = "insert" => d = c
      BY <1>a, <2>2, <3>1 DEF TypeOK, Goto
    <3> QED  BY <3>2, <3>3, <3>4, <3>5 DEF InsertFits
  <2>3. CASE pc' = [pc EXCEPT ![c] = "done"] /\ UNCHANGED excess
    <3>1. \A d \in Calls : pc'[d] = "insert" => pc[d] = "insert"
      BY <1>a, <2>3 DEF TypeOK
    <3> QED  BY <1>a, <1>b, <1>c, <1>4, <2>3, <3>1, QuotaFrame DEF CheckQuota, table, request, Live
  <2> QED  BY <1>4, <2>2, <2>3 DEF CheckQuota, Return
<1>5. ASSUME NEW c \in Calls, InsertRow(c) PROVE QuotaInv'
  <2>1. CallInv(c) /\ pc[c] = "insert" /\ pc'[c] # "insert" /\ \A d \in Calls \ {c} : pc'[d] = pc[d]
    BY <1>a, <1>5 DEF TypeOK, InsertRow, Goto, Return
  <2>2. CASE UNCHANGED table
    <3>1. \A d \in Calls : pc'[d] = "insert" => pc[d] = "insert"
      BY <2>1
    <3> QED  BY <1>a, <1>b, <1>c, <1>5, <2>2, <3>1, QuotaFrame DEF InsertRow, table, request, Live
  <2>3. CASE Insert(c)
    BY <1>a, <1>5, <2>1, <2>3, QuotaInsert DEF InsertRow
  <2> QED  BY <1>5, <2>2, <2>3 DEF InsertRow
<1>6. ASSUME NEW c \in Calls, InsertRowFails(c) PROVE QuotaInv'
  <2>1. CallInv(c) /\ pc[c] = "insert" /\ pc'[c] # "insert" /\ \A d \in Calls \ {c} : pc'[d] = pc[d]
    BY <1>a, <1>6 DEF TypeOK, InsertRowFails, Goto, Return
  <2>2. CASE UNCHANGED table
    <3>1. \A d \in Calls : pc'[d] = "insert" => pc[d] = "insert"
      BY <2>1
    <3> QED  BY <1>a, <1>b, <1>c, <1>6, <2>2, <3>1, QuotaFrame DEF InsertRowFails, table, request, Live
  <2>3. CASE Insert(c)
    BY <1>a, <1>6, <2>1, <2>3, QuotaInsert DEF InsertRowFails
  <2> QED  BY <1>6, <2>2, <2>3 DEF InsertRowFails
<1>7. ASSUME NEW c \in Calls, UpdateConfig(c) PROVE QuotaInv'
  <2>1. row[c] \in Calls /\ arg' = arg /\ \A d \in Calls : pc'[d] = "insert" => pc[d] = "insert"
    BY <1>a, <1>7 DEF TypeOK, CallInv, UpdateConfig, Return, request
  <2>2. CASE Record(c)
    BY <1>a, <1>c, <1>7, <2>1, <2>2, QuotaRecord DEF UpdateConfig, request
  <2>3. CASE UNCHANGED <<table, excess>>
    BY <1>a, <1>b, <1>c, <1>7, <2>1, <2>3, QuotaFrame DEF UpdateConfig, table, request, Live
  <2> QED  BY <1>7, <2>2, <2>3 DEF UpdateConfig
<1>8. ASSUME NEW c \in Calls, UpdateConfigFails(c) PROVE QuotaInv'
  <2>1. row[c] \in Calls /\ arg' = arg /\ \A d \in Calls : pc'[d] = "insert" => pc[d] = "insert"
    BY <1>a, <1>8 DEF TypeOK, CallInv, UpdateConfigFails, Return, request
  <2>2. CASE Record(c)
    BY <1>a, <1>c, <1>8, <2>1, <2>2, QuotaRecord DEF UpdateConfigFails, request
  <2>3. CASE UNCHANGED <<table, excess>>
    BY <1>a, <1>b, <1>c, <1>8, <2>1, <2>3, QuotaFrame DEF UpdateConfigFails, table, request, Live
  <2> QED  BY <1>8, <2>2, <2>3 DEF UpdateConfigFails
<1>9. ASSUME NEW c \in Calls, CreateOnDaemon(c) PROVE QuotaInv'
  <2>1. \A d \in Calls : pc'[d] = "insert" => pc[d] = "insert"
    BY <1>a, <1>9 DEF TypeOK, CreateOnDaemon, Goto, Return
  <2>2. Live' \subseteq Live /\ cachedCpus' = cachedCpus
    BY <1>a, <1>9 DEF TypeOK, CreateOnDaemon, table, Live
  <2> QED  BY <1>a, <1>b, <1>c, <1>9, <2>1, <2>2, QuotaFrame DEF CreateOnDaemon, request
<1>10. ASSUME NEW c \in Calls, CreateOnDaemonFails(c) PROVE QuotaInv'
  <2>1. \A d \in Calls : pc'[d] = "insert" => pc[d] = "insert"
    BY <1>a, <1>10 DEF TypeOK, CreateOnDaemonFails, Goto, Return
  <2>2. Live' \subseteq Live /\ cachedCpus' = cachedCpus
    BY <1>a, <1>10 DEF TypeOK, CreateOnDaemonFails, table, Live
  <2> QED  BY <1>a, <1>b, <1>c, <1>10, <2>1, <2>2, QuotaFrame DEF CreateOnDaemonFails, request
<1>11. ASSUME NEW c \in Calls, CreateOnDaemonUnknown(c) PROVE QuotaInv'
  <2>1. \A d \in Calls : pc'[d] = "insert" => pc[d] = "insert"
    BY <1>a, <1>11 DEF TypeOK, CreateOnDaemonUnknown, Goto, Return
  <2>2. Live' \subseteq Live /\ cachedCpus' = cachedCpus
    BY <1>a, <1>11 DEF TypeOK, CreateOnDaemonUnknown, table, Live
  <2> QED  BY <1>a, <1>b, <1>c, <1>11, <2>1, <2>2, QuotaFrame DEF CreateOnDaemonUnknown, request
<1>12. ASSUME NEW c \in Calls, Discard(c) PROVE QuotaInv'
  <2>1. \A d \in Calls : pc'[d] = "insert" => pc[d] = "insert"
    BY <1>a, <1>12 DEF TypeOK, Discard, Goto, Return
  <2>2. Live' \subseteq Live /\ cachedCpus' = cachedCpus
    BY <1>a, <1>12 DEF TypeOK, Discard, MarkDeleted, table, Live
  <2> QED  BY <1>a, <1>b, <1>c, <1>12, <2>1, <2>2, QuotaFrame DEF Discard, request
<1>13. ASSUME NEW c \in Calls, DiscardFails(c) PROVE QuotaInv'
  <2>1. \A d \in Calls : pc'[d] = "insert" => pc[d] = "insert"
    BY <1>a, <1>13 DEF TypeOK, DiscardFails, Goto, Return
  <2>2. Live' \subseteq Live /\ cachedCpus' = cachedCpus
    BY <1>a, <1>13 DEF TypeOK, DiscardFails, MarkDeleted, table, Live
  <2> QED  BY <1>a, <1>b, <1>c, <1>13, <2>1, <2>2, QuotaFrame DEF DiscardFails, request
<1>14. ASSUME NEW c \in Calls, Act(c) PROVE QuotaInv'
  <2>1. \A d \in Calls : pc'[d] = "insert" => pc[d] = "insert"
    BY <1>a, <1>14 DEF TypeOK, Act, Goto, Return
  <2>2. Live' \subseteq Live /\ cachedCpus' = cachedCpus
    BY <1>a, <1>14 DEF TypeOK, Act, table, Live
  <2> QED  BY <1>a, <1>b, <1>c, <1>14, <2>1, <2>2, QuotaFrame DEF Act, request
<1>15. ASSUME NEW c \in Calls, ActFails(c) PROVE QuotaInv'
  <2>1. \A d \in Calls : pc'[d] = "insert" => pc[d] = "insert"
    BY <1>a, <1>15 DEF TypeOK, ActFails, Goto, Return
  <2>2. Live' \subseteq Live /\ cachedCpus' = cachedCpus
    BY <1>a, <1>15 DEF TypeOK, ActFails, table, Live
  <2> QED  BY <1>a, <1>b, <1>c, <1>15, <2>1, <2>2, QuotaFrame DEF ActFails, request
<1>16. ASSUME NEW c \in Calls, Probe(c) PROVE QuotaInv'
  <2>1. \A d \in Calls : pc'[d] = "insert" => pc[d] = "insert"
    BY <1>a, <1>16 DEF TypeOK, Probe, Goto, Return
  <2>2. Live' \subseteq Live /\ cachedCpus' = cachedCpus
    BY <1>a, <1>16 DEF TypeOK, Probe, table, Live
  <2> QED  BY <1>a, <1>b, <1>c, <1>16, <2>1, <2>2, QuotaFrame DEF Probe, request
<1>17. ASSUME NEW c \in Calls, ProbeFails(c) PROVE QuotaInv'
  <2>1. \A d \in Calls : pc'[d] = "insert" => pc[d] = "insert"
    BY <1>a, <1>17 DEF TypeOK, ProbeFails, Goto, Return
  <2>2. Live' \subseteq Live /\ cachedCpus' = cachedCpus
    BY <1>a, <1>17 DEF TypeOK, ProbeFails, table, Live
  <2> QED  BY <1>a, <1>b, <1>c, <1>17, <2>1, <2>2, QuotaFrame DEF ProbeFails, request
<1>18. ASSUME NEW c \in Calls, SetStatus(c) PROVE QuotaInv'
  <2>1. \A d \in Calls : pc'[d] = "insert" => pc[d] = "insert"
    BY <1>a, <1>18 DEF TypeOK, SetStatus, Goto, Return
  <2>2. Live' \subseteq Live /\ cachedCpus' = cachedCpus
    BY <1>a, <1>18 DEF TypeOK, SetStatus, CacheStatus, table, Live
  <2> QED  BY <1>a, <1>b, <1>c, <1>18, <2>1, <2>2, QuotaFrame DEF SetStatus, request
<1>19. ASSUME NEW c \in Calls, SetStatusFails(c) PROVE QuotaInv'
  <2>1. \A d \in Calls : pc'[d] = "insert" => pc[d] = "insert"
    BY <1>a, <1>19 DEF TypeOK, SetStatusFails, Goto, Return
  <2>2. Live' \subseteq Live /\ cachedCpus' = cachedCpus
    BY <1>a, <1>19 DEF TypeOK, SetStatusFails, CacheStatus, table, Live
  <2> QED  BY <1>a, <1>b, <1>c, <1>19, <2>1, <2>2, QuotaFrame DEF SetStatusFails, request
<1>20. ASSUME NEW c \in Calls, Remove(c) PROVE QuotaInv'
  <2>1. \A d \in Calls : pc'[d] = "insert" => pc[d] = "insert"
    BY <1>a, <1>20 DEF TypeOK, Remove, Goto, Return
  <2>2. Live' \subseteq Live /\ cachedCpus' = cachedCpus
    BY <1>a, <1>20 DEF TypeOK, Remove, table, Live
  <2> QED  BY <1>a, <1>b, <1>c, <1>20, <2>1, <2>2, QuotaFrame DEF Remove, request
<1>21. ASSUME NEW c \in Calls, RemoveFails(c) PROVE QuotaInv'
  <2>1. \A d \in Calls : pc'[d] = "insert" => pc[d] = "insert"
    BY <1>a, <1>21 DEF TypeOK, RemoveFails, Goto, Return
  <2>2. Live' \subseteq Live /\ cachedCpus' = cachedCpus
    BY <1>a, <1>21 DEF TypeOK, RemoveFails, table, Live
  <2> QED  BY <1>a, <1>b, <1>c, <1>21, <2>1, <2>2, QuotaFrame DEF RemoveFails, request
<1>22. ASSUME NEW c \in Calls, SoftDelete(c) PROVE QuotaInv'
  <2>1. \A d \in Calls : pc'[d] = "insert" => pc[d] = "insert"
    BY <1>a, <1>22 DEF TypeOK, SoftDelete, Goto, Return
  <2>2. Live' \subseteq Live /\ cachedCpus' = cachedCpus
    BY <1>a, <1>22 DEF TypeOK, SoftDelete, MarkDeleted, table, Live
  <2> QED  BY <1>a, <1>b, <1>c, <1>22, <2>1, <2>2, QuotaFrame DEF SoftDelete, request
<1>23. ASSUME NEW c \in Calls, SoftDeleteFails(c) PROVE QuotaInv'
  <2>1. \A d \in Calls : pc'[d] = "insert" => pc[d] = "insert"
    BY <1>a, <1>23 DEF TypeOK, SoftDeleteFails, Goto, Return
  <2>2. Live' \subseteq Live /\ cachedCpus' = cachedCpus
    BY <1>a, <1>23 DEF TypeOK, SoftDeleteFails, MarkDeleted, table, Live
  <2> QED  BY <1>a, <1>b, <1>c, <1>23, <2>1, <2>2, QuotaFrame DEF SoftDeleteFails, request
<1>24. ASSUME NEW c \in Calls, ReadLive(c) PROVE QuotaInv'
  <2>1. \A d \in Calls : pc'[d] = "insert" => pc[d] = "insert"
    BY <1>a, <1>24 DEF TypeOK, ReadLive, Goto, Return
  <2>2. Live' \subseteq Live /\ cachedCpus' = cachedCpus
    BY <1>a, <1>24 DEF TypeOK, ReadLive, table, Live
  <2> QED  BY <1>a, <1>b, <1>c, <1>24, <2>1, <2>2, QuotaFrame DEF ReadLive, request
<1>25. ASSUME NEW c \in Calls, ReadLiveFails(c) PROVE QuotaInv'
  <2>1. \A d \in Calls : pc'[d] = "insert" => pc[d] = "insert"
    BY <1>a, <1>25 DEF TypeOK, ReadLiveFails, Goto, Return
  <2>2. Live' \subseteq Live /\ cachedCpus' = cachedCpus
    BY <1>a, <1>25 DEF TypeOK, ReadLiveFails, table, Live
  <2> QED  BY <1>a, <1>b, <1>c, <1>25, <2>1, <2>2, QuotaFrame DEF ReadLiveFails, request
<1>26. ASSUME NEW c \in Calls, Put(c) PROVE QuotaInv'
  <2>1. \A d \in Calls : pc'[d] = "insert" => pc[d] = "insert"
    BY <1>a, <1>26 DEF TypeOK, Put, Goto, Return
  <2>2. Live' \subseteq Live /\ cachedCpus' = cachedCpus
    BY <1>a, <1>26 DEF TypeOK, Put, table, Live
  <2> QED  BY <1>a, <1>b, <1>c, <1>26, <2>1, <2>2, QuotaFrame DEF Put, request
<1>27. ASSUME NEW c \in Calls, PutFails(c) PROVE QuotaInv'
  <2>1. \A d \in Calls : pc'[d] = "insert" => pc[d] = "insert"
    BY <1>a, <1>27 DEF TypeOK, PutFails, Goto, Return
  <2>2. Live' \subseteq Live /\ cachedCpus' = cachedCpus
    BY <1>a, <1>27 DEF TypeOK, PutFails, table, Live
  <2> QED  BY <1>a, <1>b, <1>c, <1>27, <2>1, <2>2, QuotaFrame DEF PutFails, request
<1>28. ASSUME NEW c \in Calls, Crash(c) PROVE QuotaInv'
  <2>1. \A d \in Calls : pc'[d] = "insert" => pc[d] = "insert"
    BY <1>a, <1>28 DEF TypeOK, Crash, Goto, Return
  <2>2. Live' \subseteq Live /\ cachedCpus' = cachedCpus
    BY <1>a, <1>28 DEF TypeOK, Crash, table, Live
  <2> QED  BY <1>a, <1>b, <1>c, <1>28, <2>1, <2>2, QuotaFrame DEF Crash, request
<1>29. ASSUME NEW c \in Calls, NEW what \in Requests, Late(c, what) PROVE QuotaInv'
  BY <1>a, <1>b, <1>c, <1>29, QuotaFrame DEF Late, table, request, Live
<1>30. ASSUME NEW n \in Names, GuestStops(n) PROVE QuotaInv'
  BY <1>a, <1>b, <1>c, <1>30, QuotaFrame DEF GuestStops, table, request, Live
<1>31. ASSUME NEW c \in Calls, NEW r \in Calls,
             \/ \E a \in Actions : SetInstanceState(c, r, a)
             \/ \E f \in BOOLEAN : DeleteInstance(c, r, f)
             \/ \E k \in Cpus \cup {Keep} : UpdateInstance(c, r, k)
             \/ ReconcileInstance(c, r)
      PROVE  QuotaInv'
  BY <1>3, <1>31, OnRow
<1> QED
  BY <1>1, <1>2, <1>4, <1>5, <1>6, <1>7, <1>8, <1>9, <1>10, <1>11, <1>12, <1>13, <1>14,
     <1>15, <1>16, <1>17, <1>18, <1>19, <1>20, <1>21, <1>22, <1>23, <1>24, <1>25, <1>26,
     <1>27, <1>28, <1>29, <1>30, <1>31 DEF Next

(* The rows of a tenant ask for no more virtual CPUs than its quota, unless two creates checked it *)
(* together or a patch enlarged an instance.                                                       *)
THEOREM QuotaCorrect == Spec => []QuotaHolds
<1>1. QuotaInv => QuotaHolds
  BY DEF QuotaInv, QuotaHolds
<1> QED
  BY <1>1, TypeInit, TypeStep, QuotaInit, QuotaStep, PTL DEF Spec

-------------------------------------------------------------------------------
(* The rows and the instances.                                             *)

(* A step of a call after its first.                                       *)
Proceeds(c) ==
    \/ CheckQuota(c) \/ InsertRow(c) \/ InsertRowFails(c) \/ CreateOnDaemon(c)
    \/ CreateOnDaemonFails(c) \/ CreateOnDaemonUnknown(c) \/ Discard(c) \/ DiscardFails(c)
    \/ Act(c) \/ ActFails(c) \/ Probe(c) \/ ProbeFails(c) \/ SetStatus(c)
    \/ SetStatusFails(c) \/ Remove(c) \/ RemoveFails(c) \/ SoftDelete(c)
    \/ SoftDeleteFails(c) \/ ReadLive(c) \/ ReadLiveFails(c) \/ Put(c) \/ PutFails(c)
    \/ UpdateConfig(c) \/ UpdateConfigFails(c) \/ Crash(c)

(* Such a step concerns the call, its row and its name only.               *)
OnlyOf(c) ==
    /\ UNCHANGED <<op, row, name, arg>>
    /\ \A d \in Calls \ {c} : pc'[d] = pc[d] /\ late'[d] = late[d]
    /\ \A d \in Calls \ {c} : seenStatus'[d] = seenStatus[d] /\ seenCpus'[d] = seenCpus[d]
    /\ \A n \in Names \ {name[c]} : daemon'[n] = daemon[n] /\ hindered'[n] = hindered[n]
    /\ \A n \in Names \ {name[c]} : status'[n] = status[n] /\ cpus'[n] = cpus[n]
    /\ \A n \in Names : hindered[n] \subseteq hindered'[n]
    /\ \A r \in Calls \ {row[c]} : rows'[r] = rows[r]
    /\ \A r \in Calls \ {row[c]} :
          cachedStatus'[r] = cachedStatus[r] /\ cachedCpus'[r] = cachedCpus[r]
    /\ UNCHANGED rows \/ MarkDeleted(row[c]) \/ (pc[c] = "insert" /\ Insert(c))

LEMMA Locality ==
    ASSUME TypeInv, NEW c \in Calls, Proceeds(c)
    PROVE  /\ OnlyOf(c) /\ pc[c] # "idle" /\ Running(c)
           /\ name[c] \in Names /\ row[c] \in Calls /\ (op[c] = "create" => row[c] = c)
<1>1. TypeOK /\ CallInv(c)
  BY DEF TypeInv
<1>2. pc[c] # "idle" /\ Running(c)
  BY DEF Proceeds, CheckQuota, InsertRow, InsertRowFails, CreateOnDaemon, CreateOnDaemonFails,
     CreateOnDaemonUnknown, Discard, DiscardFails, Act, ActFails, Probe, ProbeFails,
     SetStatus, SetStatusFails, Remove, RemoveFails, SoftDelete, SoftDeleteFails,
     ReadLive, ReadLiveFails, Put, PutFails, UpdateConfig, UpdateConfigFails, Crash,
     Running
<1>3. name[c] \in Names /\ row[c] \in Calls /\ (op[c] = "create" => row[c] = c)
  BY <1>1, <1>2 DEF CallInv
<1>4. ASSUME CheckQuota(c) PROVE OnlyOf(c)
  BY <1>1, <1>3, <1>4
     DEF TypeOK, CallInv, OnlyOf, CheckQuota, Goto, Return, Mark, table, incus, request,
         read
<1>5. ASSUME InsertRow(c) PROVE OnlyOf(c)
  BY <1>1, <1>3, <1>5
     DEF TypeOK, CallInv, OnlyOf, InsertRow, Insert, Goto, Return, Mark, table, incus,
         request, read
<1>6. ASSUME InsertRowFails(c) PROVE OnlyOf(c)
  BY <1>1, <1>3, <1>6
     DEF TypeOK, CallInv, OnlyOf, InsertRowFails, Insert, Goto, Return, Mark, table,
         incus, request, read
<1>7. ASSUME CreateOnDaemon(c) PROVE OnlyOf(c)
  BY <1>1, <1>3, <1>7
     DEF TypeOK, CallInv, OnlyOf, CreateOnDaemon, Provision, Goto, Return, Mark, table,
         incus, request, read
<1>8. ASSUME CreateOnDaemonFails(c) PROVE OnlyOf(c)
  BY <1>1, <1>3, <1>8
     DEF TypeOK, CallInv, OnlyOf, CreateOnDaemonFails, Goto, Return, Mark, table, incus,
         request, read
<1>9. ASSUME CreateOnDaemonUnknown(c) PROVE OnlyOf(c)
  BY <1>1, <1>3, <1>9
     DEF TypeOK, CallInv, OnlyOf, CreateOnDaemonUnknown, Goto, Return, Mark, table,
         incus, request, read
<1>10. ASSUME Discard(c) PROVE OnlyOf(c)
  BY <1>1, <1>3, <1>10
     DEF TypeOK, CallInv, OnlyOf, Discard, MarkDeleted, Goto, Return, Mark, table,
         incus, request, read
<1>11. ASSUME DiscardFails(c) PROVE OnlyOf(c)
  BY <1>1, <1>3, <1>11
     DEF TypeOK, CallInv, OnlyOf, DiscardFails, MarkDeleted, Goto, Return, Mark, table,
         incus, request, read
<1>12. ASSUME Act(c) PROVE OnlyOf(c)
  BY <1>1, <1>3, <1>12
     DEF TypeOK, CallInv, OnlyOf, Act, ChangeState, Goto, Return, Mark, table, incus,
         request, read
<1>13. ASSUME ActFails(c) PROVE OnlyOf(c)
  BY <1>1, <1>3, <1>13
     DEF TypeOK, CallInv, OnlyOf, ActFails, Goto, Return, Mark, table, incus, request,
         read
<1>14. ASSUME Probe(c) PROVE OnlyOf(c)
  BY <1>1, <1>3, <1>14
     DEF TypeOK, CallInv, OnlyOf, Probe, Goto, Return, Mark, table, incus, request, read
<1>15. ASSUME ProbeFails(c) PROVE OnlyOf(c)
  BY <1>1, <1>3, <1>15
     DEF TypeOK, CallInv, OnlyOf, ProbeFails, Goto, Return, Mark, table, incus, request,
         read
<1>16. ASSUME SetStatus(c) PROVE OnlyOf(c)
  BY <1>1, <1>3, <1>16
     DEF TypeOK, CallInv, OnlyOf, SetStatus, CacheStatus, Goto, Return, Mark, table,
         incus, request, read
<1>17. ASSUME SetStatusFails(c) PROVE OnlyOf(c)
  BY <1>1, <1>3, <1>17
     DEF TypeOK, CallInv, OnlyOf, SetStatusFails, CacheStatus, Goto, Return, Mark,
         table, incus, request, read
<1>18. ASSUME Remove(c) PROVE OnlyOf(c)
  BY <1>1, <1>3, <1>18
     DEF TypeOK, CallInv, OnlyOf, Remove, RemoveInstance, Goto, Return, Mark, table,
         incus, request, read
<1>19. ASSUME RemoveFails(c) PROVE OnlyOf(c)
  BY <1>1, <1>3, <1>19
     DEF TypeOK, CallInv, OnlyOf, RemoveFails, Goto, Return, Mark, table, incus,
         request, read
<1>20. ASSUME SoftDelete(c) PROVE OnlyOf(c)
  BY <1>1, <1>3, <1>20
     DEF TypeOK, CallInv, OnlyOf, SoftDelete, MarkDeleted, Goto, Return, Mark, table,
         incus, request, read
<1>21. ASSUME SoftDeleteFails(c) PROVE OnlyOf(c)
  BY <1>1, <1>3, <1>21
     DEF TypeOK, CallInv, OnlyOf, SoftDeleteFails, MarkDeleted, Goto, Return, Mark,
         table, incus, request, read
<1>22. ASSUME ReadLive(c) PROVE OnlyOf(c)
  BY <1>1, <1>3, <1>22
     DEF TypeOK, CallInv, OnlyOf, ReadLive, Goto, Return, Mark, table, incus, request,
         read
<1>23. ASSUME ReadLiveFails(c) PROVE OnlyOf(c)
  BY <1>1, <1>3, <1>23
     DEF TypeOK, CallInv, OnlyOf, ReadLiveFails, Goto, Return, Mark, table, incus,
         request, read
<1>24. ASSUME Put(c) PROVE OnlyOf(c)
  BY <1>1, <1>3, <1>24
     DEF TypeOK, CallInv, OnlyOf, Put, Reconfigure, Goto, Return, Mark, table, incus,
         request, read
<1>25. ASSUME PutFails(c) PROVE OnlyOf(c)
  BY <1>1, <1>3, <1>25
     DEF TypeOK, CallInv, OnlyOf, PutFails, Goto, Return, Mark, table, incus, request,
         read
<1>26. ASSUME UpdateConfig(c) PROVE OnlyOf(c)
  BY <1>1, <1>3, <1>26
     DEF TypeOK, CallInv, OnlyOf, UpdateConfig, Record, Goto, Return, Mark, table,
         incus, request, read
<1>27. ASSUME UpdateConfigFails(c) PROVE OnlyOf(c)
  BY <1>1, <1>3, <1>27
     DEF TypeOK, CallInv, OnlyOf, UpdateConfigFails, Record, Goto, Return, Mark, table,
         incus, request, read
<1>28. ASSUME Crash(c) PROVE OnlyOf(c)
  BY <1>1, <1>3, <1>28
     DEF TypeOK, CallInv, OnlyOf, Crash, Goto, Return, Mark, table, incus, request, read
<1> QED
  BY <1>2, <1>3, <1>4, <1>5, <1>6, <1>7, <1>8, <1>9, <1>10, <1>11, <1>12, <1>13, <1>14,
     <1>15, <1>16, <1>17, <1>18, <1>19, <1>20, <1>21, <1>22, <1>23, <1>24, <1>25, <1>26,
     <1>27, <1>28 DEF Proceeds

(* No two live rows have one name.                                         *)
UniqueInv == \A r, q \in Calls : r \in Live /\ q \in Live /\ name[r] = name[q] => r = q

LEMMA UniqueFrame ==
    ASSUME UniqueInv, Live' \subseteq Live, \A r \in Live' : name'[r] = name[r]
    PROVE  UniqueInv'
BY DEF UniqueInv

(* The begin of a call changes the name of no row.                         *)
LEMMA BeginRows ==
    ASSUME TypeInv, NEW c \in Calls, pc[c] = "idle", UNCHANGED table,
           NEW o, NEW q, NEW m, NEW a, Ask(c, o, q, m, a)
    PROVE  /\ Live' = Live /\ c \notin Live
           /\ \A r \in Live : name'[r] = name[r]
           /\ \A d \in Calls \ {c} : name'[d] = name[d] /\ op'[d] = op[d] /\ row'[d] = row[d]
           /\ name'[c] = m /\ op'[c] = o /\ row'[c] = q
<1>1. CallInv(c) /\ TypeOK
  BY DEF TypeInv
<1>2. c \notin Live /\ Live' = Live
  BY <1>1 DEF CallInv, Live, table
<1> QED
  BY <1>1, <1>2 DEF TypeOK, Ask, Live

LEMMA UniqueStep == TypeInv /\ TypeInv' /\ UniqueInv /\ [Next]_vars => UniqueInv'
<1> SUFFICES ASSUME TypeInv, TypeInv', UniqueInv, [Next]_vars PROVE UniqueInv'
  OBVIOUS
<1>1. CASE UNCHANGED vars
  BY <1>1, UniqueFrame DEF vars, table, request, Live
<1>2. ASSUME NEW c \in Calls, NEW n \in Names, NEW k \in Cpus, BeginCreate(c, n, k)
      PROVE  UniqueInv'
  BY <1>2, BeginRows, UniqueFrame DEF BeginCreate
<1>3. ASSUME NEW c \in Calls, NEW r \in Calls,
             \/ \E a \in Actions : SetInstanceState(c, r, a)
             \/ \E f \in BOOLEAN : DeleteInstance(c, r, f)
             \/ \E k \in Cpus \cup {Keep} : UpdateInstance(c, r, k)
             \/ ReconcileInstance(c, r)
      PROVE  UniqueInv'
  BY <1>3, OnRow, BeginRows, UniqueFrame DEF BeginOnRow
<1>4. ASSUME NEW c \in Calls, Proceeds(c) PROVE UniqueInv'
  <2>1. OnlyOf(c) /\ TypeOK /\ CallInv(c)
    BY <1>4, Locality DEF TypeInv
  <2>2. CASE UNCHANGED rows
    BY <2>1, <2>2, UniqueFrame DEF OnlyOf, Live
  <2>3. CASE MarkDeleted(row[c])
    <3>1. Live' \subseteq Live
      BY <2>1, <2>3 DEF TypeOK, Live, MarkDeleted
    <3> QED  BY <2>1, <3>1, UniqueFrame DEF OnlyOf
  <2>4. CASE pc[c] = "insert" /\ Insert(c) /\ ~UNCHANGED rows
    <3>1. \A r \in Calls : ~NamesRow(name[c], r)
      BY <1>4, <2>4 DEF Proceeds, CheckQuota, InsertRow, InsertRowFails, CreateOnDaemon, CreateOnDaemonFails,
         CreateOnDaemonUnknown, Discard, DiscardFails, Act, ActFails, Probe, ProbeFails,
         SetStatus, SetStatusFails, Remove, RemoveFails, SoftDelete, SoftDeleteFails,
         ReadLive, ReadLiveFails, Put, PutFails, UpdateConfig, UpdateConfigFails, Crash,
         table
    <3>2. \A r \in Live' : r = c \/ r \in Live
      BY <2>1, <2>4 DEF TypeOK, Live, Insert
    <3> QED  BY <2>1, <3>1, <3>2 DEF UniqueInv, NamesRow, OnlyOf, Live
  <2> QED  BY <2>1, <2>2, <2>3, <2>4 DEF OnlyOf
<1>5. ASSUME NEW c \in Calls, NEW what \in Requests, Late(c, what) PROVE UniqueInv'
  BY <1>5, UniqueFrame DEF Late, table, request, Live
<1>6. ASSUME NEW n \in Names, GuestStops(n) PROVE UniqueInv'
  BY <1>6, UniqueFrame DEF GuestStops, table, request, Live
<1> QED
  BY <1>1, <1>2, <1>3, <1>4, <1>5, <1>6 DEF Next, Proceeds

Clean(n) == hindered[n] \cap {"race", "lost"} = {}
Holds(n, c) == Replacing(c) /\ name[c] = n

(* At most one call replaces the instance of a name; its row is there, and *)
(* the instance is there before its removal and not before its creation.   *)
Alone(n) == \A c, d \in Calls : Holds(n, c) /\ Holds(n, d) => c = d
Stage(n, c) ==
    Holds(n, c) =>
        /\ NamesRow(n, row[c])
        /\ daemon[n] = IF pc[c] \in {"act", "remove"} THEN row[c] ELSE None
Agrees(n) == ~ReplacingOn(n) => \A r \in Calls : NamesRow(n, r) <=> Exists(n) /\ daemon[n] = r
NothingLate(n) == \A c \in Calls : name[c] = n => late[c] \cap {"create", "remove"} = {}
InstInv(n) ==
    Clean(n) => Alone(n) /\ Agrees(n) /\ NothingLate(n) /\ \A c \in Calls : Stage(n, c)

(* What a step that does not concern a name leaves of its invariant.       *)
LEMMA InstFrame ==
    ASSUME NEW n \in Names, InstInv(n), hindered[n] \subseteq hindered'[n],
           daemon'[n] = daemon[n],
           \A r \in Calls : NamesRow(n, r)' <=> NamesRow(n, r),
           \A c \in Calls : Holds(n, c)' <=> Holds(n, c),
           \A c \in Calls : Holds(n, c)' =>
               row'[c] = row[c] /\ (pc'[c] \in {"act", "remove"} <=> pc[c] \in {"act", "remove"}),
           \A c \in Calls : Holds(n, c) => row[c] \in Calls,
           \A c \in Calls : name'[c] = n /\ Clean(n)' =>
               late'[c] \cap {"create", "remove"} = {} \/ (name[c] = n /\ late'[c] \subseteq late[c])
    PROVE  InstInv(n)'
<1> SUFFICES ASSUME Clean(n)'
             PROVE  /\ Alone(n)' /\ Agrees(n)' /\ NothingLate(n)'
                    /\ \A c \in Calls : Stage(n, c)'
  BY DEF InstInv
<1>1. Alone(n) /\ Agrees(n) /\ NothingLate(n) /\ \A c \in Calls : Stage(n, c)
  BY DEF InstInv, Clean
<1>2. Alone(n)'
  BY <1>1 DEF Alone
<1>3. Agrees(n)'
  BY <1>1 DEF Agrees, ReplacingOn, Holds, Exists
<1>4. NothingLate(n)'
  BY <1>1 DEF NothingLate
<1>5. ASSUME NEW c \in Calls PROVE Stage(n, c)'
  <2>1. Stage(n, c)
    BY <1>1
  <2> QED  BY <2>1 DEF Stage, NamesRow
<1> QED
  BY <1>2, <1>3, <1>4, <1>5

(* A step of a call on another name.                                       *)
LEMMA InstElsewhere ==
    ASSUME TypeInv, NEW c \in Calls, OnlyOf(c), pc[c] # "idle", name[c] \in Names, row[c] \in Calls,
           op[c] = "create" => row[c] = c, NEW n \in Names \ {name[c]}, InstInv(n)
    PROVE  InstInv(n)'
<1>1. TypeOK /\ CallInv(c) /\ RowInv(c) /\ \A d \in Calls : CallInv(d)
  BY DEF TypeInv
<1>2. rows' = rows \/ name[row[c]] = name[c]
  BY <1>1 DEF OnlyOf, RowInv, CallInv, Ops, TypeOK, RowOps, MarkDeleted
<1>3. ASSUME NEW r \in Calls PROVE NamesRow(n, r)' <=> NamesRow(n, r)
  BY <1>2 DEF OnlyOf, NamesRow, Live
<1>4. ASSUME NEW d \in Calls
      PROVE  /\ Holds(n, d)' <=> Holds(n, d)
             /\ Holds(n, d)' => row'[d] = row[d] /\ pc'[d] = pc[d]
             /\ Holds(n, d) => row[d] \in Calls
  <2>1. CallInv(d)
    BY <1>1
  <2> QED  BY <2>1 DEF OnlyOf, Holds, Replacing, CallInv
<1>5. ASSUME NEW d \in Calls, name'[d] = n PROVE name[d] = n /\ late'[d] = late[d]
  BY <1>5 DEF OnlyOf
<1> QED
  BY <1>3, <1>4, <1>5, InstFrame DEF OnlyOf

(* A step of a call that changes neither the rows nor the instances.  It   *)
(* may give the replacement up before the instance is touched.             *)
LEMMA InstMove ==
    ASSUME TypeInv, UniqueInv, NEW c \in Calls, OnlyOf(c), NEW n \in Names, n = name[c], row[c] \in Calls,
           InstInv(n), UNCHANGED <<rows, daemon>>,
           Clean(n)' => late'[c] \cap {"create", "remove"} \subseteq late[c],
           Clean(n)' /\ Replacing(c)' =>
               Replacing(c) /\ (pc'[c] \in {"act", "remove"} <=> pc[c] \in {"act", "remove"}),
           Clean(n)' /\ Replacing(c) => Replacing(c)' \/ pc[c] \in {"act", "remove"}
    PROVE  InstInv(n)'
<1> SUFFICES ASSUME Clean(n)'
             PROVE  /\ Alone(n)' /\ Agrees(n)' /\ NothingLate(n)'
                    /\ \A d \in Calls : Stage(n, d)'
  BY DEF InstInv, OnlyOf, Clean
<1>1. Alone(n) /\ Agrees(n) /\ NothingLate(n) /\ \A d \in Calls : Stage(n, d)
  BY DEF InstInv, Clean, OnlyOf
<1>2. ASSUME NEW d \in Calls
      PROVE  /\ Holds(n, d)' => Holds(n, d)
             /\ Holds(n, d)' => (pc'[d] \in {"act", "remove"} <=> pc[d] \in {"act", "remove"})
  BY DEF Holds, Replacing, OnlyOf
<1>3. \A r : NamesRow(n, r)' <=> NamesRow(n, r)
  BY DEF NamesRow, Live, OnlyOf
<1>4. Alone(n)'
  BY <1>1, <1>2 DEF Alone
<1>5. NothingLate(n)'
  BY <1>1 DEF NothingLate, OnlyOf
<1>6. ASSUME NEW d \in Calls PROVE Stage(n, d)'
  <2>1. Stage(n, d) /\ row'[d] = row[d] /\ daemon'[n] = daemon[n]
    BY <1>1 DEF OnlyOf
  <2> QED  BY <1>2, <1>3, <2>1 DEF Stage, NamesRow
<1>7. Agrees(n)'
  <2> SUFFICES ASSUME ~ReplacingOn(n)'
               PROVE  \A r \in Calls : NamesRow(n, r) <=> daemon[n] # None /\ daemon[n] = r
    BY <1>3 DEF Agrees, Exists
  <2>1. CASE Holds(n, c)
    <3>1. pc[c] \in {"act", "remove"}
      BY <2>1 DEF ReplacingOn, Holds, OnlyOf
    <3>2. NamesRow(n, row[c]) /\ daemon[n] = row[c]
      BY <1>1, <2>1, <3>1 DEF Stage
    <3>3. row[c] # None
      BY ConstantsAssumption
    <3>4. \A r \in Calls : NamesRow(n, r) => r = row[c]
      BY <3>2 DEF UniqueInv, NamesRow
    <3> QED  BY <3>2, <3>3, <3>4
  <2>2. CASE ~Holds(n, c)
    <3>1. ASSUME NEW d \in Calls, Holds(n, d) PROVE Holds(n, d)'
      BY <2>2, <3>1 DEF Holds, Replacing, OnlyOf
    <3>2. ~ReplacingOn(n)
      BY <3>1 DEF ReplacingOn, Holds
    <3> QED  BY <1>1, <3>2 DEF Agrees, Exists
  <2> QED  BY <2>1, <2>2
<1> QED
  BY <1>4, <1>5, <1>6, <1>7

(* The steps that change the row or the instance of their name.            *)
LEMMA InstInsert ==
    ASSUME TypeInv, NEW c \in Calls, OnlyOf(c), NEW n \in Names, n = name[c], row[c] = c,
           op[c] = "create", InstInv(n), pc[c] = "insert", pc'[c] = "create",
           \A r \in Calls : ~NamesRow(n, r), Insert(c), UNCHANGED <<daemon, late>>
    PROVE  InstInv(n)'
<1> SUFFICES ASSUME Clean(n)'
             PROVE  /\ Alone(n)' /\ Agrees(n)' /\ NothingLate(n)'
                    /\ \A d \in Calls : Stage(n, d)'
  BY DEF InstInv
<1>1. Agrees(n) /\ NothingLate(n) /\ \A d \in Calls : Stage(n, d)
  BY DEF InstInv, Clean, OnlyOf
<1>2. \A d \in Calls : ~Holds(n, d)
  BY <1>1 DEF Stage, NamesRow, Live
<1>3. daemon[n] = None
  BY <1>1, <1>2 DEF Agrees, ReplacingOn, Holds, Exists, TypeInv, TypeOK
<1>4. \A d \in Calls : Holds(n, d)' <=> d = c
  BY <1>2 DEF Holds, Replacing, OnlyOf
<1>5. NamesRow(n, c)'
  BY DEF NamesRow, Live, Insert, OnlyOf, TypeInv, TypeOK
<1>6. Alone(n)' /\ Agrees(n)'
  BY <1>4 DEF Alone, Agrees, ReplacingOn, Holds
<1>7. NothingLate(n)'
  BY <1>1 DEF NothingLate, OnlyOf
<1>8. ASSUME NEW d \in Calls PROVE Stage(n, d)'
  BY <1>3, <1>4, <1>5 DEF Stage, OnlyOf, NamesRow
<1> QED
  BY <1>6, <1>7, <1>8

LEMMA InstCreate ==
    ASSUME TypeInv, UniqueInv, NEW c \in Calls, OnlyOf(c), NEW n \in Names, n = name[c], row[c] = c,
           op[c] = "create", InstInv(n), pc[c] = "create", pc'[c] = "done",
           UNCHANGED <<rows, late>>, daemon'[n] = c
    PROVE  InstInv(n)'
<1> SUFFICES ASSUME Clean(n)'
             PROVE  /\ Alone(n)' /\ Agrees(n)' /\ NothingLate(n)'
                    /\ \A d \in Calls : Stage(n, d)'
  BY DEF InstInv
<1>1. Alone(n) /\ NothingLate(n) /\ \A d \in Calls : Stage(n, d)
  BY DEF InstInv, Clean, OnlyOf
<1>2. Holds(n, c)
  BY DEF Holds, Replacing
<1>3. \A d \in Calls : ~Holds(n, d)'
  BY <1>1, <1>2 DEF Alone, Holds, Replacing, OnlyOf
<1>4. NamesRow(n, c)
  BY <1>1, <1>2 DEF Stage
<1>5. \A r \in Calls : NamesRow(n, r)' <=> r = c
  BY <1>4 DEF NamesRow, UniqueInv, OnlyOf, Live
<1>6. Alone(n)' /\ \A d \in Calls : Stage(n, d)'
  BY <1>3 DEF Alone, Stage
<1>7. NothingLate(n)'
  BY <1>1 DEF NothingLate, OnlyOf
<1>8. Agrees(n)'
  BY <1>5, ConstantsAssumption DEF Agrees, Exists
<1> QED
  BY <1>6, <1>7, <1>8

LEMMA InstRemove ==
    ASSUME TypeInv, NEW c \in Calls, OnlyOf(c), NEW n \in Names, n = name[c], row[c] \in Calls,
           op[c] = "delete", InstInv(n), pc[c] = "remove", pc'[c] = "softdelete",
           UNCHANGED <<rows, late>>, daemon'[n] = None
    PROVE  InstInv(n)'
<1> SUFFICES ASSUME Clean(n)'
             PROVE  /\ Alone(n)' /\ Agrees(n)' /\ NothingLate(n)'
                    /\ \A d \in Calls : Stage(n, d)'
  BY DEF InstInv
<1>1. Alone(n) /\ NothingLate(n) /\ \A d \in Calls : Stage(n, d)
  BY DEF InstInv, Clean, OnlyOf
<1>2. Holds(n, c)
  BY DEF Holds, Replacing
<1>3. \A d \in Calls : Holds(n, d)' <=> d = c
  BY <1>1, <1>2 DEF Alone, Holds, Replacing, OnlyOf
<1>4. NamesRow(n, row[c])
  BY <1>1, <1>2 DEF Stage
<1>5. Alone(n)' /\ Agrees(n)'
  BY <1>3 DEF Alone, Agrees, ReplacingOn, Holds
<1>6. NothingLate(n)'
  BY <1>1 DEF NothingLate, OnlyOf
<1>7. ASSUME NEW d \in Calls PROVE Stage(n, d)'
  BY <1>3, <1>4 DEF Stage, NamesRow, Live, OnlyOf
<1> QED
  BY <1>5, <1>6, <1>7

LEMMA InstDiscard ==
    ASSUME TypeInv, UniqueInv, NEW c \in Calls, OnlyOf(c), NEW n \in Names, n = name[c],
           row[c] \in Calls, InstInv(n), Replacing(c), pc[c] \in {"discard", "softdelete"},
           pc'[c] = "done", UNCHANGED <<daemon, late>>, MarkDeleted(row[c])
    PROVE  InstInv(n)'
<1> SUFFICES ASSUME Clean(n)'
             PROVE  /\ Alone(n)' /\ Agrees(n)' /\ NothingLate(n)'
                    /\ \A d \in Calls : Stage(n, d)'
  BY DEF InstInv
<1>1. Alone(n) /\ NothingLate(n) /\ \A d \in Calls : Stage(n, d)
  BY DEF InstInv, Clean, OnlyOf
<1>2. Holds(n, c)
  BY DEF Holds
<1>3. \A d \in Calls : ~Holds(n, d)'
  BY <1>1, <1>2 DEF Alone, Holds, Replacing, OnlyOf
<1>4. NamesRow(n, row[c]) /\ daemon[n] = None
  BY <1>1, <1>2 DEF Stage
<1>5. row[c] \notin Live' /\ Live' \subseteq Live
  BY DEF MarkDeleted, Live, TypeInv, TypeOK
<1>6. \A r \in Calls : ~NamesRow(n, r)'
  BY <1>4, <1>5 DEF NamesRow, UniqueInv, OnlyOf, Live
<1>7. Alone(n)' /\ \A d \in Calls : Stage(n, d)'
  BY <1>3 DEF Alone, Stage
<1>8. NothingLate(n)'
  BY <1>1 DEF NothingLate, OnlyOf
<1>9. Agrees(n)'
  BY <1>4, <1>6 DEF Agrees, Exists
<1> QED
  BY <1>7, <1>8, <1>9

(* The begin of a call: a delete of a name that another call replaces      *)
(* leaves a mark.                                                          *)
LEMMA InstBegin ==
    ASSUME TypeInv, UniqueInv, NEW c \in Calls, CallInv(c), pc[c] = "idle",
           UNCHANGED <<rows, daemon, late>>, NEW n \in Names, NEW o, NEW q, NEW m, NEW a,
           Ask(c, o, q, m, a), UNCHANGED table,
           \A d \in Calls \ {c} : pc'[d] = pc[d], hindered[n] \subseteq hindered'[n], InstInv(n),
           Clean(n)' /\ Replacing(c)' /\ m = n =>
               /\ ~ReplacingOn(n) /\ NamesRow(n, q) /\ q \in Calls /\ pc'[c] \in {"act", "remove"}
    PROVE  InstInv(n)'
<1>1. /\ \A r \in Live : name'[r] = name[r]
      /\ Live' = Live
      /\ \A d \in Calls \ {c} : name'[d] = name[d] /\ op'[d] = op[d] /\ row'[d] = row[d]
      /\ name'[c] = m /\ op'[c] = o /\ row'[c] = q
  BY BeginRows
<1>2. \A r : NamesRow(n, r)' <=> NamesRow(n, r)
  BY <1>1 DEF NamesRow
<1>3. ~Holds(n, c) /\ late[c] = {}
  BY DEF Holds, Replacing, CallInv
<1>4. ASSUME NEW d \in Calls, d # c PROVE (Holds(n, d)' <=> Holds(n, d)) /\ pc'[d] = pc[d]
  BY <1>1, <1>4 DEF Holds, Replacing
<1> SUFFICES ASSUME Clean(n)'
             PROVE  /\ Alone(n)' /\ Agrees(n)' /\ NothingLate(n)'
                    /\ \A d \in Calls : Stage(n, d)'
  BY DEF InstInv
<1>5. Alone(n) /\ Agrees(n) /\ NothingLate(n) /\ \A d \in Calls : Stage(n, d)
  BY DEF InstInv, Clean
<1>6. NothingLate(n)'
  BY <1>1, <1>3, <1>5 DEF NothingLate
<1>7. CASE ~Holds(n, c)'
  <2>1. \A d \in Calls : Holds(n, d)' <=> Holds(n, d)
    BY <1>3, <1>4, <1>7
  <2>2. Alone(n)'
    BY <1>5, <2>1 DEF Alone
  <2>3. Agrees(n)'
    <3>1. ReplacingOn(n)' <=> ReplacingOn(n)
      BY <2>1 DEF ReplacingOn, Holds
    <3> QED  BY <1>2, <1>5, <3>1 DEF Agrees, Exists
  <2>4. ASSUME NEW d \in Calls PROVE Stage(n, d)'
    <3>1. CASE d = c
      BY <1>7, <3>1 DEF Stage
    <3>2. CASE d # c
      BY <1>1, <1>2, <1>4, <1>5, <3>2 DEF Stage, NamesRow
    <3> QED  BY <3>1, <3>2
  <2> QED  BY <1>6, <2>2, <2>3, <2>4
<1>8. CASE Holds(n, c)'
  <2>1. /\ ~ReplacingOn(n) /\ NamesRow(n, q) /\ q \in Calls /\ pc'[c] \in {"act", "remove"}
    BY <1>1, <1>8 DEF Holds
  <2>2. daemon[n] = q
    BY <1>5, <2>1 DEF Agrees
  <2>3. \A d \in Calls : Holds(n, d)' <=> d = c
    BY <1>4, <1>8, <2>1 DEF ReplacingOn, Holds
  <2>4. Alone(n)' /\ Agrees(n)'
    BY <1>8, <2>3 DEF Alone, Agrees, ReplacingOn, Holds
  <2>5. ASSUME NEW d \in Calls PROVE Stage(n, d)'
    BY <1>1, <1>2, <2>1, <2>2, <2>3 DEF Stage, NamesRow
  <2> QED  BY <1>6, <2>4, <2>5
<1> QED
  BY <1>7, <1>8

LEMMA InstInit == Init => UniqueInv /\ \A n \in Names : InstInv(n)
<1> SUFFICES ASSUME Init PROVE UniqueInv /\ \A n \in Names : InstInv(n)
  OBVIOUS
<1>1. UniqueInv
  BY DEF Init, UniqueInv, Live
<1>2. ASSUME NEW n \in Names PROVE InstInv(n)
  BY <1>2 DEF Init, InstInv, Alone, Agrees, NothingLate, Stage, Holds, Replacing, NamesRow, Live, Exists
<1> QED
  BY <1>1, <1>2

(* A step of a call, at its own name.                                      *)
LEMMA InstProceeds ==
    ASSUME TypeInv, UniqueInv, NEW c \in Calls, Proceeds(c), NEW n \in Names, n = name[c], InstInv(n)
    PROVE  InstInv(n)'
<1>1. /\ OnlyOf(c) /\ pc[c] # "idle" /\ row[c] \in Calls
      /\ (op[c] = "create" => row[c] = c)
      /\ CallInv(c) /\ TypeOK
  BY Locality DEF TypeInv
<1>2. ASSUME CheckQuota(c) PROVE InstInv(n)'
  <2>1. UNCHANGED <<rows, daemon>>
    BY <1>2 DEF CheckQuota, table, incus
  <2>2. Clean(n)' => late'[c] \cap {"create", "remove"} \subseteq late[c]
    BY <1>1, <1>2 DEF TypeOK, CheckQuota, Mark, MarkIf, Clean, Requests
  <2>3. Clean(n)' /\ Replacing(c)' =>
            Replacing(c) /\ (pc'[c] \in {"act", "remove"} <=> pc[c] \in {"act", "remove"})
    BY <1>1, <1>2 DEF TypeOK, CallInv, CheckQuota, OnlyOf, Goto, Return, Mark, MarkIf, Clean,
         Replacing
  <2>4. Clean(n)' /\ Replacing(c) => Replacing(c)' \/ pc[c] \in {"act", "remove"}
    BY <1>1, <1>2 DEF TypeOK, CallInv, CheckQuota, OnlyOf, Goto, Return, Mark, MarkIf, Clean,
         Replacing
  <2> QED  BY <1>1, <2>1, <2>2, <2>3, <2>4, InstMove
<1>3. ASSUME InsertRow(c) PROVE InstInv(n)'
  <2>1. CASE \A r \in Calls : ~NamesRow(name[c], r) /\ Insert(c) /\ Goto(c, "create")
    BY <1>1, <1>3, <2>1, InstInsert DEF TypeOK, CallInv, InsertRow, Goto, incus
  <2>2. CASE Return(c, "taken") /\ UNCHANGED table
    BY <1>1, <1>3, <2>2, InstMove DEF TypeOK, InsertRow, Return, Replacing, table, incus
  <2> QED  BY <1>3, <2>1, <2>2 DEF InsertRow
<1>4. ASSUME InsertRowFails(c) PROVE InstInv(n)'
  <2>1. CASE Mark(name[c], {"lost"})
    BY <2>1 DEF Mark, InstInv, Clean, TypeInv, TypeOK
  <2>2. CASE UNCHANGED <<table, hindered>>
    BY <1>1, <1>4, <2>2, InstMove DEF TypeOK, InsertRowFails, Return, Replacing, table, incus
  <2> QED  BY <1>4, <2>1, <2>2 DEF InsertRowFails
<1>5. ASSUME CreateOnDaemon(c) PROVE InstInv(n)'
  BY <1>1, <1>5, InstCreate DEF TypeOK, CallInv, CreateOnDaemon, Provision, Return, table
<1>6. ASSUME CreateOnDaemonFails(c) PROVE InstInv(n)'
  <2>1. UNCHANGED <<rows, daemon>>
    BY <1>6 DEF CreateOnDaemonFails, table, incus
  <2>2. Clean(n)' => late'[c] \cap {"create", "remove"} \subseteq late[c]
    BY <1>1, <1>6 DEF TypeOK, CreateOnDaemonFails, Mark, MarkIf, Clean, Requests
  <2>3. Clean(n)' /\ Replacing(c)' =>
            Replacing(c) /\ (pc'[c] \in {"act", "remove"} <=> pc[c] \in {"act", "remove"})
    BY <1>1, <1>6 DEF TypeOK, CallInv, CreateOnDaemonFails, OnlyOf, Goto, Return, Mark, MarkIf,
         Clean, Replacing
  <2>4. Clean(n)' /\ Replacing(c) => Replacing(c)' \/ pc[c] \in {"act", "remove"}
    BY <1>1, <1>6 DEF TypeOK, CallInv, CreateOnDaemonFails, OnlyOf, Goto, Return, Mark, MarkIf,
         Clean, Replacing
  <2> QED  BY <1>1, <2>1, <2>2, <2>3, <2>4, InstMove
<1>7. ASSUME CreateOnDaemonUnknown(c) PROVE InstInv(n)'
  BY <1>7 DEF CreateOnDaemonUnknown, Mark, InstInv, Clean, TypeInv, TypeOK
<1>8. ASSUME Discard(c) PROVE InstInv(n)'
  BY <1>1, <1>8, InstDiscard DEF TypeOK, CallInv, Discard, Return, Replacing, incus
<1>9. ASSUME DiscardFails(c) PROVE InstInv(n)'
  BY <1>9 DEF DiscardFails, Mark, InstInv, Clean, TypeInv, TypeOK
<1>10. ASSUME Act(c) PROVE InstInv(n)'
  <2>1. UNCHANGED <<rows, daemon>>
    BY <1>10 DEF Act, ChangeState, table, incus
  <2>2. Clean(n)' => late'[c] \cap {"create", "remove"} \subseteq late[c]
    BY <1>1, <1>10 DEF TypeOK, Act, Mark, MarkIf, Clean, Requests
  <2>3. Clean(n)' /\ Replacing(c)' =>
            Replacing(c) /\ (pc'[c] \in {"act", "remove"} <=> pc[c] \in {"act", "remove"})
    BY <1>1, <1>10 DEF TypeOK, CallInv, Act, OnlyOf, Goto, Return, Mark, MarkIf, Clean, Replacing
  <2>4. Clean(n)' /\ Replacing(c) => Replacing(c)' \/ pc[c] \in {"act", "remove"}
    BY <1>1, <1>10 DEF TypeOK, CallInv, Act, OnlyOf, Goto, Return, Mark, MarkIf, Clean, Replacing
  <2> QED  BY <1>1, <2>1, <2>2, <2>3, <2>4, InstMove
<1>11. ASSUME ActFails(c) PROVE InstInv(n)'
  <2>1. UNCHANGED <<rows, daemon>>
    BY <1>11 DEF ActFails, table, incus
  <2>2. Clean(n)' => late'[c] \cap {"create", "remove"} \subseteq late[c]
    BY <1>1, <1>11 DEF TypeOK, ActFails, Mark, MarkIf, Clean, Requests
  <2>3. Clean(n)' /\ Replacing(c)' =>
            Replacing(c) /\ (pc'[c] \in {"act", "remove"} <=> pc[c] \in {"act", "remove"})
    BY <1>1, <1>11 DEF TypeOK, CallInv, ActFails, OnlyOf, Goto, Return, Mark, MarkIf, Clean, Replacing
  <2>4. Clean(n)' /\ Replacing(c) => Replacing(c)' \/ pc[c] \in {"act", "remove"}
    BY <1>1, <1>11 DEF TypeOK, CallInv, ActFails, OnlyOf, Goto, Return, Mark, MarkIf, Clean, Replacing
  <2> QED  BY <1>1, <2>1, <2>2, <2>3, <2>4, InstMove
<1>12. ASSUME Probe(c) PROVE InstInv(n)'
  <2>1. UNCHANGED <<rows, daemon>>
    BY <1>12 DEF Probe, table, incus
  <2>2. Clean(n)' => late'[c] \cap {"create", "remove"} \subseteq late[c]
    BY <1>1, <1>12 DEF TypeOK, Probe, Mark, MarkIf, Clean, Requests
  <2>3. Clean(n)' /\ Replacing(c)' =>
            Replacing(c) /\ (pc'[c] \in {"act", "remove"} <=> pc[c] \in {"act", "remove"})
    BY <1>1, <1>12 DEF TypeOK, CallInv, Probe, OnlyOf, Goto, Return, Mark, MarkIf, Clean, Replacing
  <2>4. Clean(n)' /\ Replacing(c) => Replacing(c)' \/ pc[c] \in {"act", "remove"}
    BY <1>1, <1>12 DEF TypeOK, CallInv, Probe, OnlyOf, Goto, Return, Mark, MarkIf, Clean, Replacing
  <2> QED  BY <1>1, <2>1, <2>2, <2>3, <2>4, InstMove
<1>13. ASSUME ProbeFails(c) PROVE InstInv(n)'
  <2>1. UNCHANGED <<rows, daemon>>
    BY <1>13 DEF ProbeFails, table, incus
  <2>2. Clean(n)' => late'[c] \cap {"create", "remove"} \subseteq late[c]
    BY <1>1, <1>13 DEF TypeOK, ProbeFails, Mark, MarkIf, Clean, Requests
  <2>3. Clean(n)' /\ Replacing(c)' =>
            Replacing(c) /\ (pc'[c] \in {"act", "remove"} <=> pc[c] \in {"act", "remove"})
    BY <1>1, <1>13 DEF TypeOK, CallInv, ProbeFails, OnlyOf, Goto, Return, Mark, MarkIf, Clean,
         Replacing
  <2>4. Clean(n)' /\ Replacing(c) => Replacing(c)' \/ pc[c] \in {"act", "remove"}
    BY <1>1, <1>13 DEF TypeOK, CallInv, ProbeFails, OnlyOf, Goto, Return, Mark, MarkIf, Clean,
         Replacing
  <2> QED  BY <1>1, <2>1, <2>2, <2>3, <2>4, InstMove
<1>14. ASSUME SetStatus(c) PROVE InstInv(n)'
  <2>1. UNCHANGED <<rows, daemon>>
    BY <1>14 DEF SetStatus, CacheStatus, table, incus
  <2>2. Clean(n)' => late'[c] \cap {"create", "remove"} \subseteq late[c]
    BY <1>1, <1>14 DEF TypeOK, SetStatus, Mark, MarkIf, Clean, Requests
  <2>3. Clean(n)' /\ Replacing(c)' =>
            Replacing(c) /\ (pc'[c] \in {"act", "remove"} <=> pc[c] \in {"act", "remove"})
    BY <1>1, <1>14 DEF TypeOK, CallInv, SetStatus, OnlyOf, Goto, Return, Mark, MarkIf, Clean,
         Replacing
  <2>4. Clean(n)' /\ Replacing(c) => Replacing(c)' \/ pc[c] \in {"act", "remove"}
    BY <1>1, <1>14 DEF TypeOK, CallInv, SetStatus, OnlyOf, Goto, Return, Mark, MarkIf, Clean,
         Replacing
  <2> QED  BY <1>1, <2>1, <2>2, <2>3, <2>4, InstMove
<1>15. ASSUME SetStatusFails(c) PROVE InstInv(n)'
  <2>1. UNCHANGED <<rows, daemon>>
    BY <1>15 DEF SetStatusFails, CacheStatus, table, incus
  <2>2. Clean(n)' => late'[c] \cap {"create", "remove"} \subseteq late[c]
    BY <1>1, <1>15 DEF TypeOK, SetStatusFails, Mark, MarkIf, Clean, Requests
  <2>3. Clean(n)' /\ Replacing(c)' =>
            Replacing(c) /\ (pc'[c] \in {"act", "remove"} <=> pc[c] \in {"act", "remove"})
    BY <1>1, <1>15 DEF TypeOK, CallInv, SetStatusFails, OnlyOf, Goto, Return, Mark, MarkIf, Clean,
         Replacing
  <2>4. Clean(n)' /\ Replacing(c) => Replacing(c)' \/ pc[c] \in {"act", "remove"}
    BY <1>1, <1>15 DEF TypeOK, CallInv, SetStatusFails, OnlyOf, Goto, Return, Mark, MarkIf, Clean,
         Replacing
  <2> QED  BY <1>1, <2>1, <2>2, <2>3, <2>4, InstMove
<1>16. ASSUME Remove(c) PROVE InstInv(n)'
  BY <1>1, <1>16, InstRemove
     DEF TypeOK, CallInv, Remove, RemoveInstance, Goto, Exists, table, incus
<1>17. ASSUME RemoveFails(c) PROVE InstInv(n)'
  <2>1. UNCHANGED <<rows, daemon>>
    BY <1>17 DEF RemoveFails, table, incus
  <2>a. Clean(n)' => late' = late
    <3>1. late' = late \/ hindered' = [hindered EXCEPT ![name[c]] = @ \cup {"failure", "lost"}]
      BY <1>17 DEF RemoveFails, Mark
    <3>2. late' = late \/ "lost" \in hindered'[n]
      BY <1>1, <3>1 DEF TypeOK
    <3> QED  BY <3>2 DEF Clean
  <2>2. Clean(n)' => late'[c] \cap {"create", "remove"} \subseteq late[c]
    BY <2>a, <1>1, <1>17 DEF TypeOK, RemoveFails, Mark, MarkIf, Clean, Requests
  <2>3. Clean(n)' /\ Replacing(c)' =>
            Replacing(c) /\ (pc'[c] \in {"act", "remove"} <=> pc[c] \in {"act", "remove"})
    BY <2>a, <1>1, <1>17 DEF TypeOK, CallInv, RemoveFails, OnlyOf, Goto, Return, Mark, MarkIf, Clean,
         Replacing
  <2>4. Clean(n)' /\ Replacing(c) => Replacing(c)' \/ pc[c] \in {"act", "remove"}
    BY <2>a, <1>1, <1>17 DEF TypeOK, CallInv, RemoveFails, OnlyOf, Goto, Return, Mark, MarkIf, Clean,
         Replacing
  <2> QED  BY <1>1, <2>1, <2>2, <2>3, <2>4, InstMove
<1>18. ASSUME SoftDelete(c) PROVE InstInv(n)'
  BY <1>1, <1>18, InstDiscard DEF TypeOK, CallInv, SoftDelete, Return, Replacing, incus
<1>19. ASSUME SoftDeleteFails(c) PROVE InstInv(n)'
  BY <1>19 DEF SoftDeleteFails, Mark, InstInv, Clean, TypeInv, TypeOK
<1>20. ASSUME ReadLive(c) PROVE InstInv(n)'
  <2>1. UNCHANGED <<rows, daemon>>
    BY <1>20 DEF ReadLive, table, incus
  <2>2. Clean(n)' => late'[c] \cap {"create", "remove"} \subseteq late[c]
    BY <1>1, <1>20 DEF TypeOK, ReadLive, Mark, MarkIf, Clean, Requests
  <2>3. Clean(n)' /\ Replacing(c)' =>
            Replacing(c) /\ (pc'[c] \in {"act", "remove"} <=> pc[c] \in {"act", "remove"})
    BY <1>1, <1>20 DEF TypeOK, CallInv, ReadLive, OnlyOf, Goto, Return, Mark, MarkIf, Clean, Replacing
  <2>4. Clean(n)' /\ Replacing(c) => Replacing(c)' \/ pc[c] \in {"act", "remove"}
    BY <1>1, <1>20 DEF TypeOK, CallInv, ReadLive, OnlyOf, Goto, Return, Mark, MarkIf, Clean, Replacing
  <2> QED  BY <1>1, <2>1, <2>2, <2>3, <2>4, InstMove
<1>21. ASSUME ReadLiveFails(c) PROVE InstInv(n)'
  <2>1. UNCHANGED <<rows, daemon>>
    BY <1>21 DEF ReadLiveFails, table, incus
  <2>2. Clean(n)' => late'[c] \cap {"create", "remove"} \subseteq late[c]
    BY <1>1, <1>21 DEF TypeOK, ReadLiveFails, Mark, MarkIf, Clean, Requests
  <2>3. Clean(n)' /\ Replacing(c)' =>
            Replacing(c) /\ (pc'[c] \in {"act", "remove"} <=> pc[c] \in {"act", "remove"})
    BY <1>1, <1>21 DEF TypeOK, CallInv, ReadLiveFails, OnlyOf, Goto, Return, Mark, MarkIf, Clean,
         Replacing
  <2>4. Clean(n)' /\ Replacing(c) => Replacing(c)' \/ pc[c] \in {"act", "remove"}
    BY <1>1, <1>21 DEF TypeOK, CallInv, ReadLiveFails, OnlyOf, Goto, Return, Mark, MarkIf, Clean,
         Replacing
  <2> QED  BY <1>1, <2>1, <2>2, <2>3, <2>4, InstMove
<1>22. ASSUME Put(c) PROVE InstInv(n)'
  <2>1. UNCHANGED <<rows, daemon>>
    BY <1>22 DEF Put, Reconfigure, table, incus
  <2>2. Clean(n)' => late'[c] \cap {"create", "remove"} \subseteq late[c]
    BY <1>1, <1>22 DEF TypeOK, Put, Mark, MarkIf, Clean, Requests
  <2>3. Clean(n)' /\ Replacing(c)' =>
            Replacing(c) /\ (pc'[c] \in {"act", "remove"} <=> pc[c] \in {"act", "remove"})
    BY <1>1, <1>22 DEF TypeOK, CallInv, Put, OnlyOf, Goto, Return, Mark, MarkIf, Clean, Replacing
  <2>4. Clean(n)' /\ Replacing(c) => Replacing(c)' \/ pc[c] \in {"act", "remove"}
    BY <1>1, <1>22 DEF TypeOK, CallInv, Put, OnlyOf, Goto, Return, Mark, MarkIf, Clean, Replacing
  <2> QED  BY <1>1, <2>1, <2>2, <2>3, <2>4, InstMove
<1>23. ASSUME PutFails(c) PROVE InstInv(n)'
  <2>1. UNCHANGED <<rows, daemon>>
    BY <1>23 DEF PutFails, table, incus
  <2>2. Clean(n)' => late'[c] \cap {"create", "remove"} \subseteq late[c]
    BY <1>1, <1>23 DEF TypeOK, PutFails, Mark, MarkIf, Clean, Requests
  <2>3. Clean(n)' /\ Replacing(c)' =>
            Replacing(c) /\ (pc'[c] \in {"act", "remove"} <=> pc[c] \in {"act", "remove"})
    BY <1>1, <1>23 DEF TypeOK, CallInv, PutFails, OnlyOf, Goto, Return, Mark, MarkIf, Clean, Replacing
  <2>4. Clean(n)' /\ Replacing(c) => Replacing(c)' \/ pc[c] \in {"act", "remove"}
    BY <1>1, <1>23 DEF TypeOK, CallInv, PutFails, OnlyOf, Goto, Return, Mark, MarkIf, Clean, Replacing
  <2> QED  BY <1>1, <2>1, <2>2, <2>3, <2>4, InstMove
<1>24. ASSUME UpdateConfig(c) PROVE InstInv(n)'
  <2>1. UNCHANGED <<rows, daemon>>
    BY <1>24 DEF UpdateConfig, Record, table, incus
  <2>2. Clean(n)' => late'[c] \cap {"create", "remove"} \subseteq late[c]
    BY <1>1, <1>24 DEF TypeOK, UpdateConfig, Mark, MarkIf, Clean, Requests
  <2>3. Clean(n)' /\ Replacing(c)' =>
            Replacing(c) /\ (pc'[c] \in {"act", "remove"} <=> pc[c] \in {"act", "remove"})
    BY <1>1, <1>24 DEF TypeOK, CallInv, UpdateConfig, OnlyOf, Goto, Return, Mark, MarkIf, Clean,
         Replacing
  <2>4. Clean(n)' /\ Replacing(c) => Replacing(c)' \/ pc[c] \in {"act", "remove"}
    BY <1>1, <1>24 DEF TypeOK, CallInv, UpdateConfig, OnlyOf, Goto, Return, Mark, MarkIf, Clean,
         Replacing
  <2> QED  BY <1>1, <2>1, <2>2, <2>3, <2>4, InstMove
<1>25. ASSUME UpdateConfigFails(c) PROVE InstInv(n)'
  <2>1. UNCHANGED <<rows, daemon>>
    BY <1>25 DEF UpdateConfigFails, Record, table, incus
  <2>2. Clean(n)' => late'[c] \cap {"create", "remove"} \subseteq late[c]
    BY <1>1, <1>25 DEF TypeOK, UpdateConfigFails, Mark, MarkIf, Clean, Requests
  <2>3. Clean(n)' /\ Replacing(c)' =>
            Replacing(c) /\ (pc'[c] \in {"act", "remove"} <=> pc[c] \in {"act", "remove"})
    BY <1>1, <1>25 DEF TypeOK, CallInv, UpdateConfigFails, OnlyOf, Goto, Return, Mark, MarkIf, Clean,
         Replacing
  <2>4. Clean(n)' /\ Replacing(c) => Replacing(c)' \/ pc[c] \in {"act", "remove"}
    BY <1>1, <1>25 DEF TypeOK, CallInv, UpdateConfigFails, OnlyOf, Goto, Return, Mark, MarkIf, Clean,
         Replacing
  <2> QED  BY <1>1, <2>1, <2>2, <2>3, <2>4, InstMove
<1>26. ASSUME Crash(c) PROVE InstInv(n)'
  <2>1. UNCHANGED <<rows, daemon>>
    BY <1>26 DEF Crash, table, incus
  <2>a. Clean(n)' => pc[c] \notin {"create", "discard", "remove", "softdelete"}
    <3>1. {"failure", "lost"} \subseteq Marks
      BY DEF Marks
    <3>2. pc[c] \in {"create", "discard", "remove", "softdelete"} => "lost" \in hindered'[n]
      BY <1>1, <1>26, <3>1 DEF TypeOK, Crash, Mark, MarkIf
    <3> QED  BY <3>2 DEF Clean
  <2>2. Clean(n)' => late'[c] \cap {"create", "remove"} \subseteq late[c]
    BY <2>a, <1>1, <1>26 DEF TypeOK, Crash, Mark, MarkIf, Clean, Requests
  <2>3. Clean(n)' /\ Replacing(c)' =>
            Replacing(c) /\ (pc'[c] \in {"act", "remove"} <=> pc[c] \in {"act", "remove"})
    BY <2>a, <1>1, <1>26 DEF TypeOK, CallInv, Crash, OnlyOf, Goto, Return, Mark, MarkIf, Clean, Replacing
  <2>4. Clean(n)' /\ Replacing(c) => Replacing(c)' \/ pc[c] \in {"act", "remove"}
    BY <2>a, <1>1, <1>26 DEF TypeOK, CallInv, Crash, OnlyOf, Goto, Return, Mark, MarkIf, Clean, Replacing
  <2> QED  BY <1>1, <2>1, <2>2, <2>3, <2>4, InstMove
<1> QED
  BY <1>2, <1>3, <1>4, <1>5, <1>6, <1>7, <1>8, <1>9, <1>10, <1>11, <1>12, <1>13, <1>14,
     <1>15, <1>16, <1>17, <1>18, <1>19, <1>20, <1>21, <1>22, <1>23, <1>24, <1>25, <1>26
     DEF Proceeds

LEMMA InstStep ==
    ASSUME TypeInv, UniqueInv, [Next]_vars, NEW n \in Names, InstInv(n)
    PROVE  InstInv(n)'
<1>a. TypeOK /\ \A c \in Calls : CallInv(c)
  BY DEF TypeInv
<1>1. CASE UNCHANGED vars
  BY <1>1 DEF vars, table, incus, request, InstInv, Clean, Alone, Agrees, NothingLate, Stage, Holds,
     Replacing, ReplacingOn, NamesRow, Live, Exists
<1>2. ASSUME NEW c \in Calls, NEW m \in Names, NEW k \in Cpus, BeginCreate(c, m, k)
      PROVE  InstInv(n)'
  <2>1. hindered[n] \subseteq hindered'[n]
    BY <1>a, <1>2 DEF TypeOK, BeginCreate, Mark
  <2>2. ~Replacing(c)' /\ \A d \in Calls \ {c} : pc'[d] = pc[d]
    BY <1>a, <1>2 DEF TypeOK, BeginCreate, Goto, Return, Replacing
  <2> QED  BY <1>a, <1>2, <2>1, <2>2, InstBegin DEF BeginCreate, table, incus
<1>3. ASSUME NEW c \in Calls, NEW o \in RowOps, NEW r \in Calls, NEW a \in Args,
             BeginOnRow(c, o, r, a)
      PROVE  InstInv(n)'
  <2>1. hindered[n] \subseteq hindered'[n]
    BY <1>a, <1>3 DEF TypeOK, BeginOnRow, Mark
  <2>2. \A d \in Calls \ {c} : pc'[d] = pc[d]
    BY <1>a, <1>3 DEF TypeOK, BeginOnRow, Goto, Return
  <2>3. op'[c] = o /\ pc[c] = "idle" /\ Ask(c, o, r, name[r], a) /\ UNCHANGED table
    BY <1>a, <1>3 DEF TypeOK, BeginOnRow, Ask
  <2>4. ASSUME Clean(n)', Replacing(c)', name[r] = n
        PROVE  ~ReplacingOn(n) /\ NamesRow(n, r) /\ pc'[c] \in {"act", "remove"}
    <3>1. o = "delete"
      BY <2>3, <2>4 DEF Replacing, RowOps
    <3>2. pc'[c] # "done"
      BY <2>4 DEF Replacing
    <3>3. /\ rows[r] = "live" /\ Goto(c, First(o, cachedStatus[r]))
          /\ Mark(n, MarkIf(RunningOn(n), "overlap") \cup MarkIf(o = "delete" /\ ReplacingOn(n), "race"))
      BY <1>a, <1>3, <2>4, <3>2 DEF TypeOK, BeginOnRow, Return
    <3>4. ~ReplacingOn(n)
      BY <1>a, <2>4, <3>1, <3>3 DEF TypeOK, Clean, Mark, MarkIf
    <3>5. pc'[c] \in {"act", "remove"}
      BY <1>a, <3>1, <3>3 DEF TypeOK, Goto, First
    <3> QED  BY <2>4, <3>3, <3>4, <3>5 DEF NamesRow, Live
  <2>5. UNCHANGED <<rows, daemon, late>>
    BY <1>3 DEF BeginOnRow, table, incus
  <2> QED  BY <1>a, <2>1, <2>2, <2>3, <2>4, <2>5, InstBegin
<1>4. ASSUME NEW c \in Calls, NEW r \in Calls,
             \/ \E a \in Actions : SetInstanceState(c, r, a)
             \/ \E f \in BOOLEAN : DeleteInstance(c, r, f)
             \/ \E k \in Cpus \cup {Keep} : UpdateInstance(c, r, k)
             \/ ReconcileInstance(c, r)
      PROVE  InstInv(n)'
  BY <1>3, <1>4, OnRow
<1>5. ASSUME NEW c \in Calls, Proceeds(c) PROVE InstInv(n)'
  <2>1. CASE n = name[c]
    BY <1>5, <2>1, InstProceeds
  <2>2. CASE n # name[c]
    BY <1>5, <2>2, Locality, InstElsewhere
  <2> QED  BY <2>1, <2>2
<1>6. ASSUME NEW c \in Calls, NEW what \in Requests, Late(c, what) PROVE InstInv(n)'
  <2>1. late[c] # {} /\ name[c] \in Names /\ late'[c] \subseteq late[c]
        /\ \A d \in Calls \ {c} : late'[d] = late[d]
    BY <1>a, <1>6 DEF TypeOK, CallInv, Late
  <2>2. CASE Clean(n) /\ InstInv(n) /\ daemon'[n] = daemon[n]
    BY <1>a, <1>6, <2>1, <2>2, InstFrame
       DEF TypeOK, Late, table, request, NamesRow, Live, Holds, Replacing, CallInv
  <2>3. CASE ~Clean(n)
    BY <1>6, <2>3 DEF Late, Clean, InstInv
  <2>4. CASE Clean(n) /\ daemon'[n] # daemon[n]
    <3>1. n = name[c] /\ what \in {"create", "remove"}
      BY <1>a, <1>6, <2>1, <2>4
         DEF TypeOK, Late, Provision, RemoveInstance, ChangeState, Reconfigure, Requests
    <3>2. NothingLate(n)
      BY <2>4 DEF InstInv
    <3> QED  BY <1>6, <3>1, <3>2 DEF NothingLate, Late
  <2> QED  BY <2>2, <2>3, <2>4
<1>7. ASSUME NEW m \in Names, GuestStops(m) PROVE InstInv(n)'
  <2>1. hindered[n] \subseteq hindered'[n]
    BY <1>a, <1>7 DEF TypeOK, GuestStops, Mark
  <2> QED
    BY <1>a, <1>7, <2>1, InstFrame
       DEF GuestStops, table, request, NamesRow, Live, Holds, Replacing, CallInv
<1> QED
  BY <1>1, <1>2, <1>4, <1>5, <1>6, <1>7 DEF Next, Proceeds

(* When no create and no delete runs on a name, its live row and its instance belong together. *)
THEOREM InstancesCorrect == Spec => []RowsHaveInstances
<1> DEFINE Inv == UniqueInv /\ \A n \in Names : InstInv(n)
<1>1. Inv => RowsHaveInstances
  BY DEF InstInv, Clean, Agrees, RowsHaveInstances
<1>2. Init => Inv
  BY InstInit
<1>3. TypeInv /\ TypeInv' /\ Inv /\ [Next]_vars => Inv'
  BY UniqueStep, InstStep
<1> QED
  BY <1>1, <1>2, <1>3, TypeInit, TypeStep, PTL DEF Spec

-------------------------------------------------------------------------------
(* What a row shows of its instance.                                       *)

(* An instance is created stopped.                                         *)
StoppedInv == \A n \in Names : ~Exists(n) => status[n] = "Stopped"

On(n, c) == Running(c) /\ name[c] = n
Mirrored(n, r) == cachedStatus[r] = status[n] /\ cachedCpus[r] = cpus[n]

(* How far row and instance of a name agree, at each statement of the only *)
(* call on it.                                                             *)
At(n, c) ==
    /\ pc[c] \in {"quota", "insert"} => \A r \in Calls : ~NamesRow(n, r)
    /\ pc[c] \notin {"quota", "insert"} => NamesRow(n, row[c])
    /\ pc[c] = "create" => cachedStatus[c] = "Stopped" /\ cachedCpus[c] = arg[c].cpus
    /\ pc[c] \in {"act", "read", "put"} => Mirrored(n, row[c])
    /\ pc[c] = "probe" /\ op[c] = "reconcile" => Mirrored(n, row[c])
    /\ pc[c] \in {"probe", "cache"} => cachedCpus[row[c]] = cpus[n]
    /\ pc[c] = "cache" => seenStatus[c] = status[n]
    /\ pc[c] = "put" /\ arg[c].cpus = Keep => seenCpus[c] = cpus[n]
    /\ pc[c] = "config" => cachedStatus[row[c]] = status[n] /\ seenCpus[c] = cpus[n]

Sole(n) == \A c, d \in Calls : On(n, c) /\ On(n, d) => c = d
Idle(n) == ~RunningOn(n) => \A r \in Calls : NamesRow(n, r) => Mirrored(n, r)
Quiet(n) == \A c \in Calls : name[c] = n => late[c] = {}
MirrorInv(n) ==
    hindered[n] = {} => Sole(n) /\ Idle(n) /\ Quiet(n) /\ \A c \in Calls : On(n, c) => At(n, c)

LEMMA StoppedStep == TypeInv /\ StoppedInv /\ [Next]_vars => StoppedInv'
<1> SUFFICES ASSUME TypeInv, StoppedInv, [Next]_vars, NEW n \in Names, ~Exists(n)'
             PROVE  status'[n] = "Stopped"
  BY DEF StoppedInv
<1>1. ~Exists(n) => status[n] = "Stopped"
  BY DEF StoppedInv
<1>2. TypeOK
  BY DEF TypeInv
<1>3. CASE UNCHANGED incus
  BY <1>1, <1>3 DEF Exists, incus
<1>4. ASSUME NEW c \in Calls, Provision(c) \/ ChangeState(c) \/ Reconfigure(c)
      PROVE  status'[n] = "Stopped"
  BY <1>1, <1>2, <1>4, ConstantsAssumption
     DEF TypeOK, Exists, Provision, ChangeState, CanAct, Reconfigure
<1>5. ASSUME NEW m \in Names \cup {None}, Removable(m), RemoveInstance(m) PROVE status'[n] = "Stopped"
  BY <1>1, <1>2, <1>5 DEF TypeOK, Exists, Removable, RemoveInstance
<1>6. ASSUME NEW m \in Names, GuestStops(m) PROVE status'[n] = "Stopped"
  BY <1>1, <1>2, <1>6 DEF TypeOK, Exists, GuestStops
<1>7. ASSUME NEW c \in Calls, Proceeds(c) PROVE status'[n] = "Stopped"
  <2>1. UNCHANGED incus \/ Provision(c) \/ ChangeState(c) \/ Reconfigure(c)
        \/ (Removable(name[c]) /\ RemoveInstance(name[c]))
    BY <1>7 DEF Proceeds, CheckQuota, InsertRow, InsertRowFails, CreateOnDaemon,
         CreateOnDaemonFails, CreateOnDaemonUnknown, Discard, DiscardFails, Act,
         ActFails, Probe, ProbeFails, SetStatus, SetStatusFails, Remove, RemoveFails,
         SoftDelete, SoftDeleteFails, ReadLive, ReadLiveFails, Put, PutFails,
         UpdateConfig, UpdateConfigFails, Crash
  <2> QED  BY <1>2, <1>3, <1>4, <1>5, <2>1 DEF TypeOK
<1>8. ASSUME NEW c \in Calls, NEW what \in Requests, Late(c, what) PROVE status'[n] = "Stopped"
  BY <1>2, <1>4, <1>5, <1>8 DEF TypeOK, Late
<1>9. ASSUME NEW c \in Calls, NEW r \in Calls,
             \/ \E a \in Actions : SetInstanceState(c, r, a)
             \/ \E f \in BOOLEAN : DeleteInstance(c, r, f)
             \/ \E k \in Cpus \cup {Keep} : UpdateInstance(c, r, k)
             \/ ReconcileInstance(c, r)
      PROVE  UNCHANGED incus
  BY <1>9, OnRow DEF BeginOnRow
<1>10. ASSUME NEW c \in Calls, NEW m \in Names, NEW k \in Cpus, BeginCreate(c, m, k)
       PROVE  UNCHANGED incus
  BY <1>10 DEF BeginCreate
<1> QED
  BY <1>3, <1>6, <1>7, <1>8, <1>9, <1>10 DEF Next, Proceeds, vars

(* A step of a call on another name.                                       *)
LEMMA MirrorElsewhere ==
    ASSUME TypeInv, NEW c \in Calls, OnlyOf(c), pc[c] # "idle", name[c] \in Names, row[c] \in Calls,
           op[c] = "create" => row[c] = c, NEW n \in Names \ {name[c]}, MirrorInv(n)
    PROVE  MirrorInv(n)'
<1>1. TypeOK /\ CallInv(c) /\ RowInv(c) /\ \A d \in Calls : CallInv(d) /\ RowInv(d)
  BY DEF TypeInv
<1>2. rows' = rows \/ name[row[c]] = name[c]
  BY <1>1 DEF OnlyOf, RowInv, CallInv, Ops, TypeOK, RowOps, MarkDeleted
<1>3. ASSUME NEW r \in Calls PROVE NamesRow(n, r)' <=> NamesRow(n, r)
  BY <1>2 DEF OnlyOf, NamesRow, Live
<1>4. name[row[c]] = name[c]
  BY <1>1 DEF RowInv, CallInv, Ops, TypeOK, RowOps
<1>5. ASSUME NEW r \in Calls, NamesRow(n, r) PROVE Mirrored(n, r)' <=> Mirrored(n, r)
  BY <1>4, <1>5 DEF OnlyOf, NamesRow, Mirrored
<1>6. ASSUME NEW d \in Calls PROVE On(n, d)' <=> On(n, d)
  BY DEF OnlyOf, On, Running
<1> SUFFICES ASSUME hindered'[n] = {}
             PROVE  /\ Sole(n)' /\ Idle(n)' /\ Quiet(n)'
                    /\ \A d \in Calls : On(n, d)' => At(n, d)'
  BY DEF MirrorInv
<1>7. Sole(n) /\ Idle(n) /\ Quiet(n) /\ \A d \in Calls : On(n, d) => At(n, d)
  BY DEF MirrorInv, OnlyOf
<1>8. Sole(n)'
  BY <1>6, <1>7 DEF Sole
<1>9. Idle(n)'
  BY <1>3, <1>5, <1>6, <1>7 DEF Idle, RunningOn, On
<1>10. Quiet(n)'
  BY <1>7 DEF Quiet, OnlyOf
<1>11. ASSUME NEW d \in Calls, On(n, d)' PROVE At(n, d)'
  <2>1. d # c /\ At(n, d) /\ On(n, d) /\ CallInv(d) /\ RowInv(d)
    BY <1>1, <1>6, <1>7, <1>11 DEF OnlyOf, On
  <2>2. row[d] \in Calls /\ name[row[d]] = n /\ (op[d] = "create" => row[d] = d)
    BY <2>1, <1>1 DEF CallInv, RowInv, On, Running, RowOps, TypeOK, Ops
  <2>3. row[d] # row[c] /\ (pc[d] = "create" => d # row[c])
    BY <1>4, <2>1, <2>2 DEF CallInv
  <2>4. /\ pc'[d] = pc[d] /\ op'[d] = op[d] /\ row'[d] = row[d] /\ arg'[d] = arg[d]
        /\ seenStatus'[d] = seenStatus[d] /\ seenCpus'[d] = seenCpus[d]
        /\ cachedStatus'[row[d]] = cachedStatus[row[d]] /\ cachedCpus'[row[d]] = cachedCpus[row[d]]
        /\ status'[n] = status[n] /\ cpus'[n] = cpus[n]
        /\ pc[d] = "create" => cachedStatus'[d] = cachedStatus[d] /\ cachedCpus'[d] = cachedCpus[d]
    BY <2>1, <2>2, <2>3 DEF OnlyOf
  <2>5. NamesRow(n, row[d])' <=> NamesRow(n, row[d])
    BY <1>3, <2>2, <2>4 DEF NamesRow
  <2> QED  BY <1>3, <2>1, <2>4, <2>5 DEF At, Mirrored
<1> QED
  BY <1>8, <1>9, <1>10, <1>11

(* A step of the only call on a name.                                      *)
LEMMA MirrorSole ==
    ASSUME TypeInv, NEW c \in Calls, OnlyOf(c), Running(c), NEW n \in Names, n = name[c],
           MirrorInv(n),
           hindered[n] = {} /\ hindered'[n] = {} /\ At(n, c) =>
               /\ late'[c] \subseteq late[c]
               /\ Running(c)' => At(n, c)'
               /\ ~Running(c)' => \A r \in Calls : NamesRow(n, r)' => Mirrored(n, r)'
    PROVE  MirrorInv(n)'
<1> SUFFICES ASSUME hindered'[n] = {}
             PROVE  /\ Sole(n)' /\ Idle(n)' /\ Quiet(n)'
                    /\ \A d \in Calls : On(n, d)' => At(n, d)'
  BY DEF MirrorInv
<1>1. hindered[n] = {} /\ Sole(n) /\ Quiet(n) /\ On(n, c) /\ At(n, c)
  BY DEF MirrorInv, OnlyOf, On
<1>2. \A d \in Calls : On(n, d)' => d = c
  BY <1>1 DEF Sole, On, Running, OnlyOf
<1>3. Sole(n)'
  BY <1>2 DEF Sole
<1>4. Quiet(n)'
  BY <1>1 DEF Quiet, OnlyOf
<1>5. Idle(n)'
  BY <1>1 DEF Idle, RunningOn, OnlyOf
<1>6. \A d \in Calls : On(n, d)' => At(n, d)'
  BY <1>1, <1>2 DEF On
<1> QED
  BY <1>3, <1>4, <1>5, <1>6

LEMMA MirrorProceeds ==
    ASSUME TypeInv, UniqueInv, StoppedInv, NEW c \in Calls, Proceeds(c),
           NEW n \in Names, n = name[c], MirrorInv(n)
    PROVE  MirrorInv(n)'
<1>1. /\ OnlyOf(c) /\ Running(c) /\ row[c] \in Calls
      /\ (op[c] = "create" => row[c] = c)
      /\ CallInv(c) /\ TypeOK
  BY Locality DEF TypeInv
<1>2. ASSUME NEW r \in Calls, NamesRow(n, r), NamesRow(n, row[c]) PROVE r = row[c]
  BY <1>1, <1>2 DEF UniqueInv, NamesRow
<1>3. ~Exists(n) => status[n] = "Stopped"
  BY DEF StoppedInv
<1> SUFFICES ASSUME hindered[n] = {}, hindered'[n] = {}, At(n, c)
             PROVE  /\ late'[c] \subseteq late[c]
                    /\ Running(c)' => At(n, c)'
                    /\ ~Running(c)' => \A r \in Calls : NamesRow(n, r)' => Mirrored(n, r)'
  BY <1>1, MirrorSole
<1> DEFINE Goal == /\ late'[c] \subseteq late[c]
                   /\ Running(c)' => At(n, c)'
                   /\ ~Running(c)' => \A r \in Calls : NamesRow(n, r)' => Mirrored(n, r)'
<1>4. ASSUME NEW r \in Calls PROVE NamesRow(n, r)' <=> rows'[r] = "live" /\ name[r] = n
  BY <1>1 DEF NamesRow, Live, OnlyOf
<1>5. ~Mark(name[c], {"failure"}) /\ ~Mark(name[c], {"lost"}) /\ ~Mark(name[c], {"failure", "lost"})
  <2>1. ASSUME NEW why, Mark(name[c], why) PROVE why = {}
    <3>1. hindered'[n] = hindered[n] \cup why
      BY <1>1, <2>1 DEF Mark, TypeOK
    <3> QED  BY <3>1
  <2> QED  BY <2>1
<1>6. ASSUME CheckQuota(c) PROVE Goal
  BY <1>1, <1>2, <1>3, <1>4, <1>6
     DEF TypeOK, CallInv, OnlyOf, CheckQuota, Goto, Return, Mark, MarkIf, At, Mirrored,
         NamesRow, Live, Running, table, incus, request, read
<1>7. ASSUME InsertRow(c) PROVE Goal
  BY <1>1, <1>2, <1>3, <1>4, <1>7
     DEF TypeOK, CallInv, OnlyOf, InsertRow, Insert, Goto, Return, Mark, MarkIf, At,
         Mirrored, NamesRow, Live, Running, table, incus, request, read
<1>8. ASSUME InsertRowFails(c) PROVE Goal
  <2>1. UNCHANGED <<table, incus, late>> /\ pc[c] = "insert" /\ UNCHANGED <<request, read>>
    BY <1>1, <1>5, <1>8 DEF InsertRowFails
  <2>2. \E l \in {"done"} : pc' = [pc EXCEPT ![c] = l]
    BY <1>8 DEF InsertRowFails, Return
  <2> QED  BY <1>1, <1>2, <1>4, <2>1, <2>2
           DEF TypeOK, OnlyOf, At, Mirrored, NamesRow, Live, Running, table, incus, request, read
<1>9. ASSUME CreateOnDaemon(c) PROVE Goal
  BY <1>1, <1>2, <1>3, <1>4, <1>9
     DEF TypeOK, CallInv, OnlyOf, CreateOnDaemon, Provision, Goto, Return, Mark, MarkIf,
         At, Mirrored, NamesRow, Live, Running, table, incus, request, read
<1>10. ASSUME CreateOnDaemonFails(c) PROVE Goal
  BY <1>1, <1>2, <1>3, <1>4, <1>10
     DEF TypeOK, CallInv, OnlyOf, CreateOnDaemonFails, Goto, Return, Mark, MarkIf, At,
         Mirrored, NamesRow, Live, Running, table, incus, request, read
<1>11. ASSUME CreateOnDaemonUnknown(c) PROVE Goal
  BY <1>1, <1>2, <1>3, <1>4, <1>11
     DEF TypeOK, CallInv, OnlyOf, CreateOnDaemonUnknown, Goto, Return, Mark, MarkIf, At,
         Mirrored, NamesRow, Live, Running, table, incus, request, read
<1>12. ASSUME Discard(c) PROVE Goal
  BY <1>1, <1>2, <1>3, <1>4, <1>12
     DEF TypeOK, CallInv, OnlyOf, Discard, MarkDeleted, Goto, Return, Mark, MarkIf, At,
         Mirrored, NamesRow, Live, Running, table, incus, request, read
<1>13. ASSUME DiscardFails(c) PROVE Goal
  BY <1>1, <1>2, <1>3, <1>4, <1>13
     DEF TypeOK, CallInv, OnlyOf, DiscardFails, MarkDeleted, Goto, Return, Mark, MarkIf,
         At, Mirrored, NamesRow, Live, Running, table, incus, request, read
<1>14. ASSUME Act(c) PROVE Goal
  BY <1>1, <1>2, <1>3, <1>4, <1>14
     DEF TypeOK, CallInv, OnlyOf, Act, ChangeState, Goto, Return, Mark, MarkIf, At,
         Mirrored, NamesRow, Live, Running, table, incus, request, read
<1>15. ASSUME ActFails(c) PROVE Goal
  <2>1. UNCHANGED <<table, incus, late>> /\ pc[c] = "act" /\ UNCHANGED <<request, read>>
    BY <1>1, <1>5, <1>15 DEF ActFails
  <2>2. \E l \in {"remove", "done"} : pc' = [pc EXCEPT ![c] = l]
    BY <1>15 DEF ActFails, Goto, Return
  <2> QED  BY <1>1, <1>2, <1>4, <2>1, <2>2
           DEF TypeOK, OnlyOf, At, Mirrored, NamesRow, Live, Running, table, incus, request, read
<1>16. ASSUME Probe(c) PROVE Goal
  BY <1>1, <1>2, <1>3, <1>4, <1>16
     DEF TypeOK, CallInv, OnlyOf, Probe, Goto, Return, Mark, MarkIf, At, Mirrored,
         NamesRow, Live, Running, table, incus, request, read
<1>17. ASSUME ProbeFails(c) PROVE Goal
  <2>1. pc[c] = "probe" /\ op[c] = "reconcile" /\ Return(c, "ok") /\ UNCHANGED <<table, incus, late>>
    BY <1>1, <1>5, <1>17 DEF ProbeFails
  <2> QED  BY <1>1, <1>2, <1>4, <2>1
           DEF TypeOK, OnlyOf, Return, At, Mirrored, NamesRow, Live, Running, table, incus
<1>18. ASSUME SetStatus(c) PROVE Goal
  BY <1>1, <1>2, <1>3, <1>4, <1>18
     DEF TypeOK, CallInv, OnlyOf, SetStatus, CacheStatus, Goto, Return, Mark, MarkIf,
         At, Mirrored, NamesRow, Live, Running, table, incus, request, read
<1>19. ASSUME SetStatusFails(c) PROVE Goal
  BY <1>1, <1>2, <1>3, <1>4, <1>19
     DEF TypeOK, CallInv, OnlyOf, SetStatusFails, CacheStatus, Goto, Return, Mark,
         MarkIf, At, Mirrored, NamesRow, Live, Running, table, incus, request, read
<1>20. ASSUME Remove(c) PROVE Goal
  BY <1>1, <1>2, <1>3, <1>4, <1>20
     DEF TypeOK, CallInv, OnlyOf, Remove, RemoveInstance, Goto, Return, Mark, MarkIf,
         At, Mirrored, NamesRow, Live, Running, table, incus, request, read
<1>21. ASSUME RemoveFails(c) PROVE Goal
  BY <1>1, <1>5, <1>21 DEF RemoveFails
<1>22. ASSUME SoftDelete(c) PROVE Goal
  BY <1>1, <1>2, <1>3, <1>4, <1>22
     DEF TypeOK, CallInv, OnlyOf, SoftDelete, MarkDeleted, Goto, Return, Mark, MarkIf,
         At, Mirrored, NamesRow, Live, Running, table, incus, request, read
<1>23. ASSUME SoftDeleteFails(c) PROVE Goal
  BY <1>1, <1>2, <1>3, <1>4, <1>23
     DEF TypeOK, CallInv, OnlyOf, SoftDeleteFails, MarkDeleted, Goto, Return, Mark,
         MarkIf, At, Mirrored, NamesRow, Live, Running, table, incus, request, read
<1>24. ASSUME ReadLive(c) PROVE Goal
  BY <1>1, <1>2, <1>3, <1>4, <1>24
     DEF TypeOK, CallInv, OnlyOf, ReadLive, Asked, Goto, Return, Mark, MarkIf, At, Mirrored,
         NamesRow, Live, Running, table, incus, request, read
<1>25. ASSUME ReadLiveFails(c) PROVE Goal
  BY <1>1, <1>2, <1>3, <1>4, <1>25
     DEF TypeOK, CallInv, OnlyOf, ReadLiveFails, Goto, Return, Mark, MarkIf, At,
         Mirrored, NamesRow, Live, Running, table, incus, request, read
<1>26. ASSUME Put(c) PROVE Goal
  BY <1>1, <1>2, <1>3, <1>4, <1>26
     DEF TypeOK, CallInv, OnlyOf, Put, Reconfigure, Goto, Return, Mark, MarkIf, At,
         Mirrored, NamesRow, Live, Running, table, incus, request, read
<1>27. ASSUME PutFails(c) PROVE Goal
  <2>1. UNCHANGED <<table, incus, late>> /\ pc[c] = "put" /\ UNCHANGED <<request, read>>
    BY <1>1, <1>5, <1>27 DEF PutFails
  <2>2. \E l \in {"done"} : pc' = [pc EXCEPT ![c] = l]
    BY <1>27 DEF PutFails, Return
  <2> QED  BY <1>1, <1>2, <1>4, <2>1, <2>2
           DEF TypeOK, OnlyOf, At, Mirrored, NamesRow, Live, Running, table, incus, request, read
<1>28. ASSUME UpdateConfig(c) PROVE Goal
  BY <1>1, <1>2, <1>3, <1>4, <1>28
     DEF TypeOK, CallInv, OnlyOf, UpdateConfig, Record, Goto, Return, Mark, MarkIf, At,
         Mirrored, NamesRow, Live, Running, table, incus, request, read
<1>29. ASSUME UpdateConfigFails(c) PROVE Goal
  BY <1>1, <1>2, <1>3, <1>4, <1>29
     DEF TypeOK, CallInv, OnlyOf, UpdateConfigFails, Record, Goto, Return, Mark, MarkIf,
         At, Mirrored, NamesRow, Live, Running, table, incus, request, read
<1>30. ASSUME Crash(c) PROVE Goal
  BY <1>1, <1>2, <1>3, <1>4, <1>30
     DEF TypeOK, CallInv, OnlyOf, Crash, Goto, Return, Mark, MarkIf, At, Mirrored,
         NamesRow, Live, Running, table, incus, request, read
<1> QED
  BY <1>6, <1>7, <1>8, <1>9, <1>10, <1>11, <1>12, <1>13, <1>14, <1>15, <1>16, <1>17,
     <1>18, <1>19, <1>20, <1>21, <1>22, <1>23, <1>24, <1>25, <1>26, <1>27, <1>28, <1>29,
     <1>30 DEF Proceeds

(* The begin of a call: one that overlaps another leaves a mark.           *)
LEMMA MirrorBegin ==
    ASSUME TypeInv, NEW c \in Calls, pc[c] = "idle", UNCHANGED <<table, incus, late>>,
           NEW n \in Names, NEW o, NEW q, NEW m, NEW a, Ask(c, o, q, m, a),
           \A d \in Calls \ {c} :
               pc'[d] = pc[d] /\ seenStatus'[d] = seenStatus[d] /\ seenCpus'[d] = seenCpus[d],
           hindered[n] \subseteq hindered'[n], MirrorInv(n),
           hindered'[n] = {} /\ Running(c)' /\ m = n =>
               ~RunningOn(n) /\ (Idle(n) => At(n, c)')
    PROVE  MirrorInv(n)'
<1>1. /\ \A r \in Live : name'[r] = name[r]
      /\ Live' = Live
      /\ \A d \in Calls \ {c} : name'[d] = name[d] /\ op'[d] = op[d] /\ row'[d] = row[d]
      /\ name'[c] = m /\ op'[c] = o /\ row'[c] = q
  BY BeginRows
<1>2. \A r : NamesRow(n, r)' <=> NamesRow(n, r)
  BY <1>1 DEF NamesRow
<1>3. late[c] = {} /\ ~Running(c) /\ TypeOK
  BY DEF TypeInv, CallInv, Running
<1>4. \A r \in Calls : Mirrored(n, r)' <=> Mirrored(n, r)
  BY DEF Mirrored, table, incus
<1>5. ASSUME NEW d \in Calls, d # c PROVE (On(n, d)' <=> On(n, d)) /\ arg'[d] = arg[d] /\ pc'[d] = pc[d]
  BY <1>1, <1>3, <1>5 DEF On, Running, Ask, TypeOK
<1> SUFFICES ASSUME hindered'[n] = {}
             PROVE  /\ Sole(n)' /\ Idle(n)' /\ Quiet(n)'
                    /\ \A d \in Calls : On(n, d)' => At(n, d)'
  BY DEF MirrorInv
<1>6. Sole(n) /\ Idle(n) /\ Quiet(n) /\ \A d \in Calls : On(n, d) => At(n, d)
  BY DEF MirrorInv
<1>7. Quiet(n)'
  BY <1>1, <1>3, <1>6 DEF Quiet
<1>8. CASE On(n, c)'
  <2>1. m = n /\ Running(c)'
    BY <1>1, <1>8 DEF On
  <2>2. ~RunningOn(n) /\ At(n, c)'
    BY <1>6, <2>1
  <2>3. \A d \in Calls : On(n, d)' <=> d = c
    BY <1>5, <1>8, <2>2 DEF RunningOn, On
  <2>4. Sole(n)' /\ Idle(n)'
    BY <2>3 DEF Sole, Idle, RunningOn, On
  <2> QED  BY <1>7, <2>2, <2>3, <2>4
<1>9. CASE ~On(n, c)'
  <2>1. \A d \in Calls : On(n, d)' <=> On(n, d)
    BY <1>3, <1>5, <1>9 DEF On
  <2>2. Sole(n)'
    BY <1>6, <2>1 DEF Sole
  <2>3. Idle(n)'
    BY <1>2, <1>4, <1>6, <2>1 DEF Idle, RunningOn, On
  <2>4. ASSUME NEW d \in Calls, On(n, d)' PROVE At(n, d)'
    <3>1. d # c /\ At(n, d)
      BY <1>6, <1>9, <2>1, <2>4
    <3>2. /\ pc'[d] = pc[d] /\ op'[d] = op[d] /\ row'[d] = row[d] /\ arg'[d] = arg[d]
          /\ seenStatus'[d] = seenStatus[d] /\ seenCpus'[d] = seenCpus[d]
          /\ cachedStatus' = cachedStatus /\ cachedCpus' = cachedCpus
          /\ status' = status /\ cpus' = cpus
      BY <1>1, <1>5, <3>1 DEF table, incus
    <3>3. NamesRow(n, row[d])' <=> NamesRow(n, row[d])
      BY <1>1, <3>2 DEF NamesRow
    <3> QED  BY <1>2, <3>1, <3>2, <3>3 DEF At, Mirrored
  <2> QED  BY <1>7, <2>2, <2>3, <2>4
<1> QED
  BY <1>8, <1>9

LEMMA MirrorStep ==
    ASSUME TypeInv, UniqueInv, StoppedInv, [Next]_vars, NEW n \in Names, MirrorInv(n)
    PROVE  MirrorInv(n)'
<1>a. TypeOK /\ \A c \in Calls : CallInv(c)
  BY DEF TypeInv
<1>1. CASE UNCHANGED vars
  BY <1>1 DEF vars, table, incus, request, read, MirrorInv, Sole, Idle, Quiet, On, At, Mirrored,
     Running, RunningOn, NamesRow, Live
<1>2. ASSUME NEW c \in Calls, NEW m \in Names, NEW k \in Cpus, BeginCreate(c, m, k)
      PROVE  MirrorInv(n)'
  <2>1. hindered[n] \subseteq hindered'[n]
    BY <1>a, <1>2 DEF TypeOK, BeginCreate, Mark
  <2>2. \A d \in Calls \ {c} : pc'[d] = pc[d]
    BY <1>a, <1>2 DEF TypeOK, BeginCreate, Goto, Return
  <2>3. /\ pc[c] = "idle" /\ UNCHANGED <<table, incus, late, seenStatus, seenCpus>>
        /\ Ask(c, "create", c, m, [NoArg EXCEPT !.cpus = k])
    BY <1>2 DEF BeginCreate, read
  <2>4. ASSUME hindered'[n] = {}, Running(c)', m = n PROVE ~RunningOn(n) /\ At(n, c)'
    <3>1. /\ \A r \in Calls : ~NamesRow(n, r)
          /\ pc' = [pc EXCEPT ![c] = "quota"]
          /\ Mark(n, MarkIf(RunningOn(n), "overlap"))
      BY <1>a, <1>2, <2>4 DEF TypeOK, BeginCreate, Goto, Return, Running
    <3>2. ~RunningOn(n)
      BY <1>a, <2>4, <3>1 DEF TypeOK, Mark, MarkIf
    <3>3. \A r \in Calls : ~NamesRow(n, r)'
      BY <2>3, <3>1, BeginRows DEF NamesRow
    <3> QED  BY <1>a, <3>1, <3>2, <3>3 DEF At, TypeOK
  <2> QED  BY <2>1, <2>2, <2>3, <2>4, MirrorBegin
<1>3. ASSUME NEW c \in Calls, NEW o \in RowOps, NEW r \in Calls, NEW a \in Args,
             BeginOnRow(c, o, r, a)
      PROVE  MirrorInv(n)'
  <2>1. hindered[n] \subseteq hindered'[n]
    BY <1>a, <1>3 DEF TypeOK, BeginOnRow, Mark
  <2>2. \A d \in Calls \ {c} :
            pc'[d] = pc[d] /\ seenStatus'[d] = seenStatus[d] /\ seenCpus'[d] = seenCpus[d]
    BY <1>a, <1>3 DEF TypeOK, BeginOnRow, Goto, Return, read
  <2>3. pc[c] = "idle" /\ Ask(c, o, r, name[r], a) /\ UNCHANGED <<table, incus, late>>
    BY <1>3 DEF BeginOnRow
  <2>4. ASSUME hindered'[n] = {}, Running(c)', name[r] = n
        PROVE  ~RunningOn(n) /\ (Idle(n) => At(n, c)')
    <3>1. /\ rows[r] = "live" /\ pc' = [pc EXCEPT ![c] = First(o, cachedStatus[r])]
          /\ Mark(n, MarkIf(RunningOn(n), "overlap") \cup MarkIf(o = "delete" /\ ReplacingOn(n), "race"))
      BY <1>a, <1>3, <2>4 DEF TypeOK, BeginOnRow, Goto, Return, Running
    <3>2. ~RunningOn(n)
      BY <1>a, <2>4, <3>1 DEF TypeOK, Mark, MarkIf
    <3>3. NamesRow(n, r)' /\ NamesRow(n, r) /\ row'[c] = r /\ op'[c] = o
      BY <2>3, <2>4, <3>1, BeginRows DEF NamesRow, Live
    <3>4. pc'[c] = First(o, cachedStatus[r])
      BY <1>a, <3>1 DEF TypeOK
    <3>5. First(o, cachedStatus[r]) \in {"act", "remove", "read", "probe"}
          /\ (First(o, cachedStatus[r]) = "probe" => o = "reconcile")
      BY DEF First, RowOps
    <3>6. ASSUME Idle(n) PROVE Mirrored(n, r)'
      <4>1. Mirrored(n, r)
        BY <3>2, <3>3, <3>6 DEF Idle
      <4> QED  BY <2>3, <4>1 DEF Mirrored, table, incus
    <3>7. NamesRow(n, row[c])'
      BY <3>3 DEF NamesRow
    <3>8. ASSUME Idle(n) PROVE At(n, c)'
      <4>1. Mirrored(n, row[c])'
        BY <3>3, <3>6, <3>8 DEF Mirrored
      <4> QED  BY <3>4, <3>5, <3>7, <4>1 DEF At, Mirrored
    <3> QED  BY <3>2, <3>8
  <2> QED  BY <2>1, <2>2, <2>3, <2>4, MirrorBegin
<1>4. ASSUME NEW c \in Calls, NEW r \in Calls,
             \/ \E a \in Actions : SetInstanceState(c, r, a)
             \/ \E f \in BOOLEAN : DeleteInstance(c, r, f)
             \/ \E k \in Cpus \cup {Keep} : UpdateInstance(c, r, k)
             \/ ReconcileInstance(c, r)
      PROVE  MirrorInv(n)'
  BY <1>3, <1>4, OnRow
<1>5. ASSUME NEW c \in Calls, Proceeds(c) PROVE MirrorInv(n)'
  <2>1. CASE n = name[c]
    BY <1>5, <2>1, MirrorProceeds
  <2>2. CASE n # name[c]
    BY <1>5, <2>2, Locality, MirrorElsewhere
  <2> QED  BY <2>1, <2>2
<1>6. ASSUME NEW c \in Calls, NEW what \in Requests, Late(c, what) PROVE MirrorInv(n)'
  <2>1. late[c] # {} /\ name[c] \in Names /\ \A d \in Calls : late'[d] \subseteq late[d]
    BY <1>a, <1>6 DEF TypeOK, CallInv, Late
  <2>2. CASE hindered[n] # {}
    BY <1>6, <2>2 DEF Late, MirrorInv
  <2>3. CASE hindered[n] = {} /\ n = name[c]
    BY <2>1, <2>3 DEF MirrorInv, Quiet
  <2>4. CASE hindered[n] = {} /\ n # name[c]
    <3>1. daemon'[n] = daemon[n] /\ status'[n] = status[n] /\ cpus'[n] = cpus[n]
      BY <1>a, <1>6, <2>1, <2>4
         DEF TypeOK, Late, Provision, ChangeState, RemoveInstance, Reconfigure
    <3>2. UNCHANGED <<table, request, read, pc, hindered>>
      BY <1>6 DEF Late
    <3>3. Sole(n) /\ Idle(n) /\ Quiet(n) /\ \A d \in Calls : On(n, d) => At(n, d)
      BY <2>4 DEF MirrorInv
    <3>4. Sole(n)' /\ Idle(n)' /\ Quiet(n)'
      BY <2>1, <3>1, <3>2, <3>3
         DEF table, request, Sole, Idle, Quiet, On, Running, RunningOn, NamesRow, Live, Mirrored
    <3>5. \A d \in Calls : On(n, d)' => At(n, d)'
      BY <3>1, <3>2, <3>3 DEF table, request, read, On, Running, At, NamesRow, Live, Mirrored
    <3> QED  BY <3>4, <3>5 DEF MirrorInv
  <2> QED  BY <2>2, <2>3, <2>4
<1>7. ASSUME NEW m \in Names, GuestStops(m) PROVE MirrorInv(n)'
  <2>1. CASE n = m
    BY <1>a, <1>7, <2>1 DEF TypeOK, GuestStops, Mark, MirrorInv
  <2>2. CASE n # m
    <3>1. daemon'[n] = daemon[n] /\ status'[n] = status[n] /\ cpus'[n] = cpus[n]
          /\ hindered'[n] = hindered[n]
      BY <1>a, <1>7, <2>2 DEF TypeOK, GuestStops, Mark
    <3>2. UNCHANGED <<table, request, read, pc, late>>
      BY <1>7 DEF GuestStops
    <3>3. \A d \in Calls : (On(n, d)' <=> On(n, d)) /\ (At(n, d) => At(n, d)')
      BY <3>1, <3>2 DEF table, request, read, On, Running, At, NamesRow, Live, Mirrored
    <3>4. (Sole(n) => Sole(n)') /\ (Idle(n) => Idle(n)') /\ (Quiet(n) => Quiet(n)')
      BY <3>1, <3>2
         DEF table, request, Sole, Idle, Quiet, On, Running, RunningOn, NamesRow, Live, Mirrored
    <3> QED  BY <3>1, <3>3, <3>4 DEF MirrorInv
  <2> QED  BY <2>1, <2>2
<1> QED
  BY <1>1, <1>2, <1>4, <1>5, <1>6, <1>7 DEF Next, Proceeds

(* Everything above together.                                              *)
FullInv ==
    /\ TypeInv /\ UniqueInv /\ StoppedInv
    /\ \A n \in Names : InstInv(n) /\ MirrorInv(n)

LEMMA FullCorrect == Spec => []FullInv
<1>1. Init => FullInv
  <2> SUFFICES ASSUME Init PROVE FullInv
    OBVIOUS
  <2>1. StoppedInv
    BY DEF Init, StoppedInv
  <2>2. ASSUME NEW n \in Names PROVE MirrorInv(n)
    BY DEF Init, MirrorInv, Sole, Idle, Quiet, On, Running, NamesRow, Live
  <2> QED  BY <2>1, <2>2, TypeInit, InstInit DEF FullInv
<1>2. FullInv /\ [Next]_vars => FullInv'
  BY TypeStep, UniqueStep, StoppedStep, InstStep, MirrorStep DEF FullInv
<1> QED
  BY <1>1, <1>2, PTL DEF Spec

(* Where calls ran one at a time and to their end, the row shows the status and the configuration *)
(* of its instance.                                                                               *)
THEOREM MirrorCorrect == Spec => []RowsMirrorInstances
<1>1. FullInv => RowsMirrorInstances
  <2> SUFFICES ASSUME FullInv, NEW n \in Names, NEW r \in Calls, hindered[n] = {}, ~RunningOn(n),
                      NamesRow(n, r)
               PROVE  Exists(n) /\ Mirrored(n, r)
    BY DEF RowsMirrorInstances, Mirrored
  <2>1. ~ReplacingOn(n)
    BY DEF RunningOn, Running, ReplacingOn, Replacing
  <2>2. Exists(n)
    BY <2>1 DEF FullInv, InstInv, Clean, Agrees
  <2>3. Mirrored(n, r)
    BY DEF FullInv, MirrorInv, Idle
  <2> QED  BY <2>2, <2>3
<1> QED
  BY <1>1, FullCorrect, PTL

(* A patch that omits the configuration and runs alone on its name puts back the one it found. *)
THEOREM PatchKeeps == Spec => OmittedIsKept
<1>1. ASSUME FullInv, [Next]_vars
      PROVE  \A c \in Calls :
                 pc[c] = "put" /\ pc'[c] = "config" /\ arg[c].cpus = Keep
                 /\ hindered[name[c]] = {} /\ Exists(name[c]) =>
                     cpus'[name[c]] = cpus[name[c]]
  <2> SUFFICES ASSUME NEW c \in Calls, pc[c] = "put", pc'[c] = "config", arg[c].cpus = Keep,
                      hindered[name[c]] = {}
               PROVE  cpus'[name[c]] = cpus[name[c]]
    OBVIOUS
  <2>1. TypeOK /\ CallInv(c) /\ name[c] \in Names /\ MirrorInv(name[c])
    BY <1>1 DEF FullInv, TypeInv, CallInv
  <2>2. seenCpus[c] = cpus[name[c]]
    BY <2>1 DEF MirrorInv, At, On, Running
  <2>3. Put(c)
    <3>1. ASSUME NEW d \in Calls, Proceeds(d) PROVE Put(c)
      <4>1. d = c
        BY <1>1, <3>1, Locality DEF OnlyOf, FullInv
      <4>2. CASE Put(d)
        BY <4>1, <4>2
      <4>3. CASE PutFails(d) \/ Crash(d)
        BY <2>1, <4>1, <4>3 DEF TypeOK, PutFails, Crash, Return
      <4> QED
        BY <3>1, <4>1, <4>2, <4>3
           DEF Proceeds, CheckQuota, InsertRow, InsertRowFails, CreateOnDaemon,
               CreateOnDaemonFails, CreateOnDaemonUnknown, Discard, DiscardFails, Act,
               ActFails, Probe, ProbeFails, SetStatus, SetStatusFails, Remove,
               RemoveFails, SoftDelete, SoftDeleteFails, ReadLive, ReadLiveFails,
               UpdateConfig, UpdateConfigFails
    <3>2. ASSUME NEW d \in Calls, NEW m \in Names, NEW k \in Cpus, BeginCreate(d, m, k) PROVE FALSE
      BY <2>1, <3>2 DEF TypeOK, BeginCreate, Goto, Return
    <3>3. ASSUME NEW d \in Calls, NEW o \in RowOps, NEW r \in Calls, NEW a \in Args,
                 BeginOnRow(d, o, r, a)
          PROVE  FALSE
      BY <2>1, <3>3 DEF TypeOK, BeginOnRow, Goto, Return
    <3>4. ASSUME NEW d \in Calls, NEW r \in Calls,
                 \/ \E a \in Actions : SetInstanceState(d, r, a)
                 \/ \E f \in BOOLEAN : DeleteInstance(d, r, f)
                 \/ \E k \in Cpus \cup {Keep} : UpdateInstance(d, r, k)
                 \/ ReconcileInstance(d, r)
          PROVE  FALSE
      BY <3>3, <3>4, OnRow
    <3>5. ~UNCHANGED pc
      OBVIOUS
    <3> QED
      BY <1>1, <3>1, <3>2, <3>4, <3>5 DEF Next, Proceeds, Late, GuestStops, vars
  <2> QED  BY <2>1, <2>2, <2>3 DEF Put, Reconfigure, TypeOK
<1> QED
  BY <1>1, FullCorrect, PTL DEF Spec, OmittedIsKept
================================================================================
