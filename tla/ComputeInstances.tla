---------------------------- MODULE ComputeInstances ----------------------------
(***************************************************************************)
(* The instances of one tenant (compute/instances.go, compute/quota.go):   *)
(* the rows of compute_instances and the instances of the Incus daemon     *)
(* they stand for.  Every call is a sequence of single statements and      *)
(* requests to the daemon, without a lock or a transaction; the daemon     *)
(* knows an instance by its name, the database by its row.                 *)
(*                                                                         *)
(* A row is named by the call that inserted it, and so is the instance     *)
(* created for it.  Of the configuration only the number of virtual CPUs   *)
(* is kept: it is what the quota adds up.                                  *)
(***************************************************************************)
EXTENDS Naturals, FiniteSets

CONSTANTS
    Calls,      \* requests handled by the server
    Names,      \* instance names
    Cpus,       \* values of limits.cpu that requests carry
    MaxVCPUs,   \* the quota
    Actions,    \* lifecycle actions that requests ask for
    Keep,       \* a patch that omits the configuration
    None        \* no row, no name, no instance

(* What incusAction accepts.                                               *)
LifecycleActions == {"start", "stop", "restart", "freeze", "unfreeze"}

(* VCPUs: the number a configuration without limits.cpu counts for.        *)
DefaultVCPUs == 1
VCPUs == Cpus \cup {DefaultVCPUs}

Statuses == {"Stopped", "Running", "Frozen"}
(* The status of a finished operation, which no instance has.              *)
OpStatus == "Success"

ASSUME ConstantsAssumption ==
    /\ IsFiniteSet(Calls)
    /\ Cpus \subseteq Nat \ {0}
    /\ MaxVCPUs \in Nat
    /\ Actions \subseteq LifecycleActions
    /\ Keep \notin Nat
    /\ None \notin Calls \cup Names

VARIABLES
    rows,           \* compute_instances: absent, live or deleted,
    cachedStatus,   \*   status,
    cachedCpus,     \*   limits.cpu of config_json
    daemon,         \* the instance of each name, named by its create,
    status,         \*   its status
    cpus,           \*   and its configuration
    late,           \* of each call, unanswered requests the daemon may yet execute
    op,             \* what each call does,
    row,            \*   to which row,
    name,           \*   to which instance,
    arg,            \*   with which arguments
    seenStatus,     \* the status a call has read
    seenCpus,       \* the configuration an update puts
    pc,             \* the statement or request a call executes next
    answer,         \* how a call ended
    hindered,       \* history: on a name, why its row and its instance may differ
    excess          \* history: why the quota may be exceeded

table == <<rows, cachedStatus, cachedCpus>>
incus == <<daemon, status, cpus>>
request == <<op, row, name, arg>>
read == <<seenStatus, seenCpus>>
vars == <<table, incus, late, request, read, pc, answer, hindered, excess>>

RowStates == {"absent", "live", "deleted"}
CachedStatuses == Statuses \cup {OpStatus}
RowOps == {"state", "delete", "update", "reconcile"}
Ops == {"none", "create"} \cup RowOps
Args == [cpus : Cpus \cup {Keep}, action : LifecycleActions, force : BOOLEAN]
NoArg == [cpus |-> Keep, action |-> "start", force |-> FALSE]

(* The requests to the daemon that change something.                       *)
Requests == {"create", "act", "remove", "put"}
PCs == {"idle", "quota", "insert", "create", "discard", "act", "probe", "cache",
        "remove", "softdelete", "read", "put", "config", "done"}
Answers == {"none", "ok", "taken", "quota", "notfound", "error", "crashed"}
Marks == {"race", "lost", "overlap", "failure", "guest"}

Live == {r \in Calls : rows[r] = "live"}
Exists(n) == daemon[n] # None
NamesRow(n, r) == r \in Live /\ name[r] = n

Running(c) == pc[c] \notin {"idle", "done"}
RunningOn(n) == \E c \in Calls : Running(c) /\ name[c] = n
(* A create that has its row, or a delete.                                 *)
Replacing(c) ==
    /\ pc[c] \in {"create", "discard", "act", "remove", "softdelete"}
    /\ op[c] \in {"create", "delete"}
ReplacingOn(n) == \E c \in Calls : Replacing(c) /\ name[c] = n

(* The virtual CPUs the rows ask for, one by one: computeUsage adds up the *)
(* rows that are not deleted.                                              *)
VCPUsOf(r) == {r} \X (1 .. cachedCpus[r])
Usage == Cardinality(UNION {VCPUsOf(r) : r \in Live})

Ask(c, o, r, n, a) ==
    /\ op' = [op EXCEPT ![c] = o]
    /\ row' = [row EXCEPT ![c] = r]
    /\ name' = [name EXCEPT ![c] = n]
    /\ arg' = [arg EXCEPT ![c] = a]

Goto(c, label) ==
    /\ pc' = [pc EXCEPT ![c] = label]
    /\ UNCHANGED answer

Return(c, v) ==
    /\ pc' = [pc EXCEPT ![c] = "done"]
    /\ answer' = [answer EXCEPT ![c] = v]

Mark(n, why) == hindered' = [hindered EXCEPT ![n] = @ \cup why]
MarkIf(condition, why) == IF condition THEN {why} ELSE {}

Init ==
    /\ rows = [c \in Calls |-> "absent"]
    /\ cachedStatus = [c \in Calls |-> "Stopped"]
    /\ cachedCpus = [c \in Calls |-> DefaultVCPUs]
    /\ daemon = [n \in Names |-> None]
    /\ status = [n \in Names |-> "Stopped"]
    /\ cpus = [n \in Names |-> DefaultVCPUs]
    /\ late = [c \in Calls |-> {}]
    /\ op = [c \in Calls |-> "none"]
    /\ row = [c \in Calls |-> None]
    /\ name = [c \in Calls |-> None]
    /\ arg = [c \in Calls |-> NoArg]
    /\ seenStatus = [c \in Calls |-> "Stopped"]
    /\ seenCpus = [c \in Calls |-> DefaultVCPUs]
    /\ pc = [c \in Calls |-> "idle"]
    /\ answer = [c \in Calls |-> "none"]
    /\ hindered = [n \in Names |-> {}]
    /\ excess = {}

-------------------------------------------------------------------------------
(* CreateInstance: name, quota, row, daemon.                               *)

(* The lookup of the name, which the unique index repeats.                 *)
BeginCreate(c, n, k) ==
    /\ pc[c] = "idle"
    /\ Ask(c, "create", c, n, [NoArg EXCEPT !.cpus = k])
    /\ \/ /\ \E r \in Calls : NamesRow(n, r)
          /\ Return(c, "taken")
          /\ UNCHANGED hindered
       \/ /\ \A r \in Calls : ~NamesRow(n, r)
          /\ Goto(c, "quota")
          /\ Mark(n, MarkIf(RunningOn(n), "overlap"))
       \/ Return(c, "error") /\ UNCHANGED hindered
    /\ UNCHANGED <<table, incus, late, read, excess>>

(* Mutant: the new instance is not counted. *)
Fits_WithoutNew(k) == Usage < MaxVCPUs

(* checkNewInstance.                                                       *)
Fits(k) == MaxVCPUs = 0 \/ Usage + k <= MaxVCPUs

(* The quota is that of the rows of this moment: a create that has checked *)
(* it and not inserted its row yet is not in them.  EnsureProject, which   *)
(* follows, can only fail.                                                 *)
CheckQuota(c) ==
    /\ pc[c] = "quota"
    /\ \/ /\ Fits(arg[c].cpus)
          /\ excess' = excess \cup MarkIf(\E d \in Calls : pc[d] = "insert", "overlap")
          /\ Goto(c, "insert")
       \/ ~Fits(arg[c].cpus) /\ Return(c, "quota") /\ UNCHANGED excess
       \/ Return(c, "error") /\ UNCHANGED excess
    /\ UNCHANGED <<table, incus, late, request, read, hindered>>

Insert(c) ==
    /\ rows' = [rows EXCEPT ![c] = "live"]
    /\ cachedStatus' = [cachedStatus EXCEPT ![c] = "Stopped"]
    /\ cachedCpus' = [cachedCpus EXCEPT ![c] = arg[c].cpus]

InsertRow(c) ==
    /\ pc[c] = "insert"
    /\ \/ /\ \E r \in Calls : NamesRow(name[c], r)
          /\ Return(c, "taken")
          /\ UNCHANGED table
       \/ /\ \A r \in Calls : ~NamesRow(name[c], r)
          /\ Insert(c)
          /\ Goto(c, "create")
    /\ UNCHANGED <<incus, late, request, read, hindered, excess>>

(* The insert fails, or commits and its acknowledgement is lost.           *)
InsertRowFails(c) ==
    /\ pc[c] = "insert"
    /\ \/ UNCHANGED <<table, hindered>>
       \/ /\ \A r \in Calls : ~NamesRow(name[c], r)
          /\ Insert(c)
          /\ Mark(name[c], {"lost"})
    /\ Return(c, "error")
    /\ UNCHANGED <<incus, late, request, read, excess>>

Provision(c) ==
    /\ ~Exists(name[c])
    /\ daemon' = [daemon EXCEPT ![name[c]] = c]
    /\ cpus' = [cpus EXCEPT ![name[c]] = arg[c].cpus]
    /\ UNCHANGED status

(* The operation has succeeded.  The image fingerprint and the member of   *)
(* the cluster, cached next, are left out.                                 *)
CreateOnDaemon(c) ==
    /\ pc[c] = "create"
    /\ Provision(c)
    /\ Return(c, "ok")
    /\ UNCHANGED <<table, late, request, read, hindered, excess>>

(* Mutant: the row of a failed operation stays. *)
CreateOnDaemonFails_KeepsRow(c) ==
    /\ pc[c] = "create"
    /\ Return(c, "error")
    /\ UNCHANGED <<table, incus, late, request, read, hindered, excess>>

(* The daemon has accepted the operation and reports that it failed.       *)
CreateOnDaemonFails(c) ==
    /\ pc[c] = "create"
    /\ Goto(c, "discard")
    /\ UNCHANGED <<table, incus, late, request, read, hindered, excess>>

(* No member of the cluster was found, the daemon refused the request, or  *)
(* its answer was lost: the row stays in each case.                        *)
CreateOnDaemonUnknown(c) ==
    /\ pc[c] = "create"
    /\ late' \in {late, [late EXCEPT ![c] = @ \cup {"create"}]}
    /\ Mark(name[c], {"lost"})
    /\ Return(c, "error")
    /\ UNCHANGED <<table, incus, request, read, excess>>

(* SoftDelete.  Nothing reads the status of a deleted row.                 *)
MarkDeleted(r) ==
    /\ rows' = [rows EXCEPT ![r] = IF @ = "live" THEN "deleted" ELSE @]
    /\ UNCHANGED <<cachedStatus, cachedCpus>>

Discard(c) ==
    /\ pc[c] = "discard"
    /\ MarkDeleted(c)
    /\ Return(c, "error")
    /\ UNCHANGED <<incus, late, request, read, hindered, excess>>

(* The error of this SoftDelete is dropped.                                *)
DiscardFails(c) ==
    /\ pc[c] = "discard"
    /\ UNCHANGED table \/ MarkDeleted(c)
    /\ Mark(name[c], {"lost"})
    /\ Return(c, "error")
    /\ UNCHANGED <<incus, late, request, read, excess>>

-------------------------------------------------------------------------------
(* The calls on a row: SetInstanceState, DeleteInstance, UpdateInstance    *)
(* and ReconcileInstance.                                                  *)

First(o, s) ==
    CASE o = "state" -> "act"
      [] o = "delete" -> IF s = "Running" THEN "act" ELSE "remove"
      [] o = "update" -> "read"
      [] o = "reconcile" -> "probe"

(* Get.  What the call has read of the row stays with it.                  *)
BeginOnRow(c, o, r, a) ==
    /\ pc[c] = "idle"
    /\ rows[r] # "absent"
    /\ Ask(c, o, r, name[r], a)
    /\ \/ /\ rows[r] = "live"
          /\ seenStatus' = [seenStatus EXCEPT ![c] = cachedStatus[r]]
          /\ UNCHANGED seenCpus
          /\ Goto(c, First(o, cachedStatus[r]))
          /\ Mark(name[r], MarkIf(RunningOn(name[r]), "overlap")
                           \cup MarkIf(o = "delete" /\ ReplacingOn(name[r]), "race"))
       \/ rows[r] # "live" /\ Return(c, "notfound") /\ UNCHANGED <<read, hindered>>
       \/ Return(c, "error") /\ UNCHANGED <<read, hindered>>
    /\ UNCHANGED <<table, incus, late, excess>>

SetInstanceState(c, r, a) == BeginOnRow(c, "state", r, [NoArg EXCEPT !.action = a])
DeleteInstance(c, r, f) == BeginOnRow(c, "delete", r, [NoArg EXCEPT !.force = f])
UpdateInstance(c, r, k) == BeginOnRow(c, "update", r, [NoArg EXCEPT !.cpus = k])
ReconcileInstance(c, r) == BeginOnRow(c, "reconcile", r, NoArg)

ActionOf(c) == IF op[c] = "delete" THEN "stop" ELSE arg[c].action

Applicable(action, s) ==
    CASE action = "start" -> s = "Stopped"
      [] action = "stop" -> s # "Stopped"
      [] action = "unfreeze" -> s = "Frozen"
      [] action \in {"restart", "freeze"} -> s = "Running"

Outcome(action) ==
    CASE action = "stop" -> "Stopped"
      [] action = "freeze" -> "Frozen"
      [] action \in {"start", "restart", "unfreeze"} -> "Running"

(* The daemon's own check and effect of a change of state.                 *)
CanAct(c) == Exists(name[c]) /\ Applicable(ActionOf(c), status[name[c]])
ChangeState(c) ==
    /\ CanAct(c)
    /\ status' = [status EXCEPT ![name[c]] = Outcome(ActionOf(c))]
    /\ UNCHANGED <<daemon, cpus>>

(* The step after a change of state that succeeded: a delete has stopped   *)
(* the instance in order to remove it.                                     *)
Act(c) ==
    /\ pc[c] = "act"
    /\ ChangeState(c)
    /\ Goto(c, IF op[c] = "delete" THEN "remove" ELSE "probe")
    /\ UNCHANGED <<table, late, request, read, hindered, excess>>

(* The daemon refuses, or its answer is lost: a delete with force goes on. *)
ActFails(c) ==
    /\ pc[c] = "act"
    /\ \/ UNCHANGED <<late, hindered>>
       \/ late' = [late EXCEPT ![c] = @ \cup {"act"}] /\ Mark(name[c], {"failure"})
    /\ IF op[c] = "delete" /\ arg[c].force THEN Goto(c, "remove") ELSE Return(c, "error")
    /\ UNCHANGED <<table, incus, request, read, excess>>

(* GetInstanceState of a change of state, GetInstance of a reconciliation. *)
Probe(c) ==
    /\ pc[c] = "probe"
    /\ Exists(name[c])
    /\ seenStatus' = [seenStatus EXCEPT ![c] = status[name[c]]]
    /\ Goto(c, "cache")
    /\ UNCHANGED <<table, incus, late, request, seenCpus, hindered, excess>>

(* A change of state falls back on the status of its operation, a          *)
(* reconciliation answers with the row it has read.                        *)
ProbeFails(c) ==
    /\ pc[c] = "probe"
    /\ \/ /\ op[c] = "state"
          /\ seenStatus' = [seenStatus EXCEPT ![c] = OpStatus]
          /\ Mark(name[c], {"failure"})
          /\ Goto(c, "cache")
       \/ /\ op[c] = "reconcile"
          /\ Return(c, "ok")
          /\ UNCHANGED <<seenStatus, hindered>>
    /\ UNCHANGED <<table, incus, late, request, seenCpus, excess>>

(* Mutant: the status read before the change of state is written back. *)
SetStatus_Old(c) ==
    /\ pc[c] = "cache"
    /\ Return(c, "ok")
    /\ UNCHANGED <<table, incus, late, request, read, hindered, excess>>

CacheStatus(c) ==
    /\ cachedStatus' = [cachedStatus EXCEPT ![row[c]] =
                           IF rows[row[c]] = "live" THEN seenStatus[c] ELSE @]
    /\ UNCHANGED <<rows, cachedCpus>>

SetStatus(c) ==
    /\ pc[c] = "cache"
    /\ CacheStatus(c)
    /\ Return(c, "ok")
    /\ UNCHANGED <<incus, late, request, read, hindered, excess>>

(* The error of SetStatus is dropped.                                      *)
SetStatusFails(c) ==
    /\ pc[c] = "cache"
    /\ UNCHANGED table \/ CacheStatus(c)
    /\ Mark(name[c], {"failure"})
    /\ Return(c, "ok")
    /\ UNCHANGED <<incus, late, request, read, excess>>

-------------------------------------------------------------------------------
(* The rest of DeleteInstance.                                             *)

(* The daemon removes a stopped instance; one it does not find is the      *)
(* outcome the call wants.                                                 *)
Removable(n) == Exists(n) /\ status[n] = "Stopped"

RemoveInstance(n) ==
    /\ daemon' = [daemon EXCEPT ![n] = None]
    /\ cpus' = [cpus EXCEPT ![n] = DefaultVCPUs]
    /\ UNCHANGED status

Remove(c) ==
    /\ pc[c] = "remove"
    /\ \/ ~Exists(name[c]) /\ UNCHANGED incus
       \/ Removable(name[c]) /\ RemoveInstance(name[c])
    /\ Goto(c, "softdelete")
    /\ UNCHANGED <<table, late, request, read, hindered, excess>>

(* The row keeps the status it had before the instance was stopped.        *)
RemoveFails(c) ==
    /\ pc[c] = "remove"
    /\ \/ UNCHANGED late /\ Mark(name[c], {"failure"})
       \/ late' = [late EXCEPT ![c] = @ \cup {"remove"}] /\ Mark(name[c], {"failure", "lost"})
    /\ Return(c, "error")
    /\ UNCHANGED <<table, incus, request, read, excess>>

(* Mutant: the row is left to a later pass. *)
SoftDelete_Skipped(c) ==
    /\ pc[c] = "softdelete"
    /\ Return(c, "ok")
    /\ UNCHANGED <<table, incus, late, request, read, hindered, excess>>

SoftDelete(c) ==
    /\ pc[c] = "softdelete"
    /\ MarkDeleted(row[c])
    /\ Return(c, "ok")
    /\ UNCHANGED <<incus, late, request, read, hindered, excess>>

SoftDeleteFails(c) ==
    /\ pc[c] = "softdelete"
    /\ UNCHANGED table \/ MarkDeleted(row[c])
    /\ Mark(name[c], {"lost"})
    /\ Return(c, "error")
    /\ UNCHANGED <<incus, late, request, read, excess>>

-------------------------------------------------------------------------------
(* The rest of UpdateInstance.                                             *)

(* Mutant: an omitted field is put as it is. *)
Asked_Verbatim(c, live) == arg[c].cpus

Asked(c, live) == IF arg[c].cpus = Keep THEN live ELSE arg[c].cpus

(* Mutant: a field the patch omits is not filled in. *)
ReadLive_NotFilled(c) ==
    /\ pc[c] = "read"
    /\ Exists(name[c])
    /\ seenCpus' = [seenCpus EXCEPT ![c] = Asked(c, DefaultVCPUs)]
    /\ Goto(c, "put")
    /\ UNCHANGED <<table, incus, late, request, seenStatus, hindered, excess>>

(* What the patch omits is taken from the instance.                        *)
ReadLive(c) ==
    /\ pc[c] = "read"
    /\ Exists(name[c])
    /\ seenCpus' = [seenCpus EXCEPT ![c] = Asked(c, cpus[name[c]])]
    /\ Goto(c, "put")
    /\ UNCHANGED <<table, incus, late, request, seenStatus, hindered, excess>>

(* The instance cannot be read: an omitted configuration is put as an      *)
(* empty one.                                                              *)
ReadLiveFails(c) ==
    /\ pc[c] = "read"
    /\ seenCpus' = [seenCpus EXCEPT ![c] = Asked(c, DefaultVCPUs)]
    /\ Mark(name[c], MarkIf(arg[c].cpus = Keep, "failure"))
    /\ Goto(c, "put")
    /\ UNCHANGED <<table, incus, late, request, seenStatus, excess>>

Reconfigure(c) ==
    /\ Exists(name[c])
    /\ cpus' = [cpus EXCEPT ![name[c]] = seenCpus[c]]
    /\ UNCHANGED <<daemon, status>>

(* The PUT replaces the configuration; the quota is not checked again.     *)
Put(c) ==
    /\ pc[c] = "put"
    /\ Reconfigure(c)
    /\ Goto(c, "config")
    /\ UNCHANGED <<table, late, request, read, hindered, excess>>

PutFails(c) ==
    /\ pc[c] = "put"
    /\ \/ UNCHANGED <<late, hindered>>
       \/ late' = [late EXCEPT ![c] = @ \cup {"put"}] /\ Mark(name[c], {"failure"})
    /\ Return(c, "error")
    /\ UNCHANGED <<table, incus, request, read, excess>>

Record(c) ==
    /\ cachedCpus' = [cachedCpus EXCEPT ![row[c]] =
                         IF rows[row[c]] = "live" THEN seenCpus[c] ELSE @]
    /\ excess' = excess \cup MarkIf(seenCpus[c] > cachedCpus[row[c]], "patch")
    /\ UNCHANGED <<rows, cachedStatus>>

UpdateConfig(c) ==
    /\ pc[c] = "config"
    /\ Record(c)
    /\ Return(c, "ok")
    /\ UNCHANGED <<incus, late, request, read, hindered>>

UpdateConfigFails(c) ==
    /\ pc[c] = "config"
    /\ UNCHANGED <<table, excess>> \/ Record(c)
    /\ Mark(name[c], {"failure"})
    /\ Return(c, "error")
    /\ UNCHANGED <<incus, late, request, read>>

-------------------------------------------------------------------------------
(* The daemon executes a request nobody waits for any more, if it can.     *)
Late(c, what) ==
    /\ what \in late[c]
    /\ late' = [late EXCEPT ![c] = @ \ {what}]
    /\ \/ what = "create" /\ Provision(c)
       \/ what = "act" /\ ChangeState(c)
       \/ what = "remove" /\ Removable(name[c]) /\ RemoveInstance(name[c])
       \/ what = "put" /\ Reconfigure(c)
    /\ UNCHANGED <<table, request, read, pc, answer, hindered, excess>>

(* An instance halts by itself.                                            *)
GuestStops(n) ==
    /\ Exists(n) /\ status[n] = "Running"
    /\ status' = [status EXCEPT ![n] = "Stopped"]
    /\ Mark(n, {"guest"})
    /\ UNCHANGED <<table, daemon, cpus, late, request, read, pc, answer, excess>>

(* The server stops between two steps of a call, or while the daemon has   *)
(* its request.                                                            *)
Crash(c) ==
    /\ Running(c)
    /\ late' \in {late, [late EXCEPT ![c] = @ \cup (Requests \cap {pc[c]})]}
    /\ Mark(name[c], {"failure"}
                     \cup MarkIf(pc[c] \in {"create", "discard", "remove", "softdelete"}, "lost"))
    /\ Return(c, "crashed")
    /\ UNCHANGED <<table, incus, request, read, excess>>

Next ==
    \/ \E c \in Calls :
          \/ \E n \in Names, k \in Cpus : BeginCreate(c, n, k)
          \/ \E r \in Calls :
                \/ \E a \in Actions : SetInstanceState(c, r, a)
                \/ \E f \in BOOLEAN : DeleteInstance(c, r, f)
                \/ \E k \in Cpus \cup {Keep} : UpdateInstance(c, r, k)
                \/ ReconcileInstance(c, r)
          \/ CheckQuota(c)
          \/ InsertRow(c) \/ InsertRowFails(c)
          \/ CreateOnDaemon(c) \/ CreateOnDaemonFails(c) \/ CreateOnDaemonUnknown(c)
          \/ Discard(c) \/ DiscardFails(c)
          \/ Act(c) \/ ActFails(c)
          \/ Probe(c) \/ ProbeFails(c)
          \/ SetStatus(c) \/ SetStatusFails(c)
          \/ Remove(c) \/ RemoveFails(c)
          \/ SoftDelete(c) \/ SoftDeleteFails(c)
          \/ ReadLive(c) \/ ReadLiveFails(c)
          \/ Put(c) \/ PutFails(c)
          \/ UpdateConfig(c) \/ UpdateConfigFails(c)
          \/ Crash(c)
          \/ \E what \in Requests : Late(c, what)
    \/ \E n \in Names : GuestStops(n)

Spec == Init /\ [][Next]_vars

-------------------------------------------------------------------------------
TypeOK ==
    /\ rows \in [Calls -> RowStates]
    /\ cachedStatus \in [Calls -> CachedStatuses]
    /\ cachedCpus \in [Calls -> VCPUs]
    /\ daemon \in [Names -> Calls \cup {None}]
    /\ status \in [Names -> Statuses]
    /\ cpus \in [Names -> VCPUs]
    /\ late \in [Calls -> SUBSET Requests]
    /\ op \in [Calls -> Ops]
    /\ row \in [Calls -> Calls \cup {None}]
    /\ name \in [Calls -> Names \cup {None}]
    /\ arg \in [Calls -> Args]
    /\ seenStatus \in [Calls -> CachedStatuses]
    /\ seenCpus \in [Calls -> VCPUs]
    /\ pc \in [Calls -> PCs]
    /\ answer \in [Calls -> Answers]
    /\ hindered \in [Names -> SUBSET Marks]
    /\ excess \subseteq {"overlap", "patch"}

(* The rows of a tenant ask for no more virtual CPUs than its quota, as    *)
(* long as no two creates have checked it before either inserted its row   *)
(* and no patch has enlarged an instance, which the quota is not asked for *)
(* (checkNewInstance, computeUsage; a row counts from its insert to its    *)
(* soft delete, whatever its instance does).                               *)
QuotaHolds == MaxVCPUs # 0 /\ excess = {} => Usage <= MaxVCPUs

(* When no create and no delete is running on a name, the tenant has a     *)
(* live row of that name exactly when the daemon has the instance that was *)
(* created for this row: no orphan runs unseen, no row stands for nothing, *)
(* and a delete has not removed the instance of a namesake.  It may fail   *)
(* after a delete that overlapped the create or another delete ("race"),   *)
(* and after a request without an answer or a statement that failed        *)
(* between row and instance ("lost").                                      *)
RowsHaveInstances ==
    \A n \in Names :
        hindered[n] \cap {"race", "lost"} = {} /\ ~ReplacingOn(n) =>
            \A r \in Calls : NamesRow(n, r) <=> Exists(n) /\ daemon[n] = r

(* On a name where calls have run one at a time and to their end, and no   *)
(* instance halted by itself, the row shows the status and the             *)
(* configuration the instance has (SetStatus and UpdateConfig follow what  *)
(* the daemon answered).                                                   *)
RowsMirrorInstances ==
    \A n \in Names, r \in Calls :
        hindered[n] = {} /\ ~RunningOn(n) /\ NamesRow(n, r) =>
            /\ Exists(n)
            /\ cachedStatus[r] = status[n]
            /\ cachedCpus[r] = cpus[n]

(* A patch that omits the configuration leaves that of the instance alone, *)
(* when it runs alone on its name and could read the instance: the PUT     *)
(* replaces it wholesale, so the call has to carry it over.                *)
OmittedIsKept ==
    [][\A c \in Calls :
          pc[c] = "put" /\ pc'[c] = "config" /\ arg[c].cpus = Keep
          /\ hindered[name[c]] = {} /\ Exists(name[c]) =>
              cpus'[name[c]] = cpus[name[c]]]_vars

(* The status a row shows is one an instance can have: "so we record the   *)
(* daemon's view, not the operation's view" (SetInstanceState).            *)
StatusOfInstance == \A r \in Live : cachedStatus[r] # OpStatus

(* A create or a patch never takes a tenant above its quota.               *)
PatchWithinQuota == excess = {"patch"} => Usage <= MaxVCPUs
================================================================================
