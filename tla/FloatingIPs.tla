------------------------------ MODULE FloatingIPs ------------------------------
(***************************************************************************)
(* Floating IPs and their pools (compute.Service: Allocate-, Attach-,      *)
(* Detach- and ReleaseFloatingIP, DeleteIPPool, UpdateIPPool and the range *)
(* operations) over the tables ip_pools, ip_pool_ranges and floating_ips   *)
(* and the network forwards of the Incus daemon.                           *)
(*                                                                         *)
(* A call is one execution of an operation by a tenant; calls of all       *)
(* tenants and replicas interleave between statements, nothing runs in a   *)
(* transaction and no lock is taken. An allocation inserts at most one     *)
(* row, which is identified with it. Reverse DNS and metering, which       *)
(* neither guard nor undo anything, are left out.                          *)
(***************************************************************************)
EXTENDS Integers, Sequences

CONSTANTS
    Calls,        \* executions of an operation
    Tenants,
    Instances,
    Owner,        \* the tenant of each instance
    NoInstance,   \* instance_id NULL
    Pools,
    Ranges,       \* the ranges each pool may have, as ListAllForPool orders
                  \*   them: sequences of sets of host addresses
    NoAddress,
    NoRequest     \* the request of a call that has not been made

Addresses == UNION {UNION {Ranges[p][i] : i \in DOMAIN Ranges[p]} : p \in Pools}

Allocations == [op : {"allocate"}, tenant : Tenants, pool : Pools]
Attachments == [op : {"attach"}, tenant : Tenants, ip : Calls, instance : Instances]
Removals    == [op : {"detach", "release"}, tenant : Tenants, ip : Calls]
Deletions   == [op : {"deletepool"}, pool : Pools]
Requests    == Allocations \cup Attachments \cup Removals \cup Deletions

PushStatuses == {"pending", "pushed", "failed", "unsupported"}

(* network_name is set exactly when the status is "pushed".                *)
Row == [state : {"none", "live", "released"}, address : Addresses \cup {NoAddress},
        instance : Instances \cup {NoInstance}, status : PushStatuses]

NoRow == [state |-> "none", address |-> NoAddress, instance |-> NoInstance, status |-> "pending"]

ASSUME OwnerAssumption == Owner \in [Instances -> Tenants]
ASSUME RangesAssumption == Ranges \in [Pools -> Seq(SUBSET Nat)]
ASSUME NoAddressAssumption == NoAddress \notin Nat
ASSUME NoInstanceAssumption == NoInstance \notin Instances
ASSUME NoRequestAssumption == NoRequest \notin Requests

VARIABLES
    pools,        \* ip_pools: is_active, or soft-deleted
    registered,   \* ip_pool_ranges: the indices of the ranges each pool has
    rows,         \* floating_ips: the row each allocation inserted
    instances,    \* compute_instances that are not soft-deleted
    forwards,     \* Incus: the forwards, by project (tenant) and listen address
    request,      \* the arguments of each call
    pc,           \* the statement a call executes next
    answer,       \* how a call ended
    seen,         \* the row a call read or is about to write
    hindered      \* history: what befell the forward of an address

vars == <<pools, registered, rows, instances, forwards, request, pc, answer, seen, hindered>>
tables == <<pools, registered, rows, instances>>

PCs == {"idle", "pick", "insert", "findinstance", "push", "unpush", "set", "softdelete",
        "listpool", "droppool", "done"}

Answers == {"none", "ok", "notfound", "inactive", "exhausted", "taken", "conflict",
            "error", "crashed"}

Running(c) == pc[c] \notin {"idle", "done"}

Live(r) == rows[r].state = "live"

TenantOf(r) == request[r].tenant

(* The row and the address an attach, a detach or a release is about.      *)
OnRow(c) == pc[c] \in {"findinstance", "push", "unpush", "set", "softdelete"}
AddressOf(c) == rows[request[c].ip].address

(* SELECT ... WHERE tenant_id = $1 AND id = $2 AND deleted_at IS NULL      *)
Visible(q) == Live(q.ip) /\ TenantOf(q.ip) = q.tenant

Goto(c, label) ==
    /\ pc' = [pc EXCEPT ![c] = label]
    /\ UNCHANGED answer

Return(c, v) ==
    /\ pc' = [pc EXCEPT ![c] = "done"]
    /\ answer' = [answer EXCEPT ![c] = v]

Mark(a, why) == hindered' = [hindered EXCEPT ![a] = @ \cup {why}]

Init ==
    /\ pools \in [Pools -> {"active", "inactive"}]
    /\ registered = [p \in Pools |-> DOMAIN Ranges[p]]
    /\ rows = [c \in Calls |-> NoRow]
    /\ instances = Instances
    /\ forwards = {}
    /\ request = [c \in Calls |-> NoRequest]
    /\ pc = [c \in Calls |-> "idle"]
    /\ answer = [c \in Calls |-> "none"]
    /\ seen = [c \in Calls |-> NoRow]
    /\ hindered = [a \in Addresses |-> {}]

-------------------------------------------------------------------------------
(* AllocateFloatingIP: look the pool up; it must be active.                *)
BeginAllocate(c, q) ==
    /\ pc[c] = "idle"
    /\ request' = [request EXCEPT ![c] = q]
    /\ \/ pools[q.pool] = "active" /\ Goto(c, "pick")
       \/ pools[q.pool] = "inactive" /\ Return(c, "inactive")
       \/ pools[q.pool] = "deleted" /\ Return(c, "notfound")
       \/ Return(c, "error")
    /\ UNCHANGED <<tables, forwards, seen, hindered>>

(* The addresses the pool's live rows hold, whatever their tenant.         *)
Held(p) == {rows[r].address : r \in {x \in Calls : Live(x) /\ request[x].pool = p}}

(* firstFreeInPrefix of the i-th range (module IPAllocation).              *)
IsFirstFree(a, p, i) ==
    /\ a \in Ranges[p][i] \ Held(p)
    /\ \A b \in Ranges[p][i] \ Held(p) : a <= b

Full(p, i) == Ranges[p][i] \subseteq Held(p)

(* pickNextFreeAddress: the first range with a free address decides.       *)
Pick(c) ==
    LET p == request[c].pool IN
    /\ pc[c] = "pick"
    /\ \/ \E i \in registered[p] :
            /\ \A j \in registered[p] : j < i => Full(p, j)
            /\ \E a \in Ranges[p][i] :
                 /\ IsFirstFree(a, p, i)
                 /\ seen' = [seen EXCEPT ![c] = [NoRow EXCEPT !.state = "live", !.address = a]]
            /\ Goto(c, "insert")
       \/ /\ \A i \in registered[p] : Full(p, i)
          /\ Return(c, "exhausted")
          /\ UNCHANGED seen
       \/ Return(c, "error") /\ UNCHANGED seen
    /\ UNCHANGED <<tables, forwards, request, hindered>>

(* Mutant: the unique index does not span the tenants. *)
Taken_SameTenant(c) ==
    \E r \in Calls : Live(r) /\ rows[r].address = seen[c].address /\ TenantOf(r) = TenantOf(c)

(* uq_floating_ips_address *)
Taken(c) == \E r \in Calls : Live(r) /\ rows[r].address = seen[c].address

Insert(c) ==
    /\ pc[c] = "insert"
    /\ IF Taken(c)
       THEN Return(c, "taken") /\ UNCHANGED rows
       ELSE Return(c, "ok") /\ rows' = [rows EXCEPT ![c] = seen[c]]
    /\ UNCHANGED <<pools, registered, instances, forwards, request, seen, hindered>>

(* The INSERT fails, or commits and its acknowledgement is lost.           *)
InsertFails(c) ==
    /\ pc[c] = "insert"
    /\ Return(c, "error")
    /\ \/ UNCHANGED rows
       \/ ~Taken(c) /\ rows' = [rows EXCEPT ![c] = seen[c]]
    /\ UNCHANGED <<pools, registered, instances, forwards, request, seen, hindered>>

-------------------------------------------------------------------------------
(* History: this call overlaps another one on the same address.            *)
NoteOverlap(c, a) ==
    IF \E x \in Calls : OnRow(x) /\ AddressOf(x) = a
    THEN Mark(a, "overlap")
    ELSE UNCHANGED hindered

(* The first read of an operation on a row: it goes on at label, or is     *)
(* refused.                                                                *)
Proceed(c, q, label) ==
    /\ seen' = [seen EXCEPT ![c] = rows[q.ip]]
    /\ Goto(c, label)
    /\ NoteOverlap(c, rows[q.ip].address)

Refuse(c, v) == Return(c, v) /\ UNCHANGED <<seen, hindered>>

Attached(r) == rows[r].instance # NoInstance

BeginAttach(c, q) ==
    /\ pc[c] = "idle"
    /\ request' = [request EXCEPT ![c] = q]
    /\ \/ ~Visible(q) /\ Refuse(c, "notfound")
       \/ Visible(q) /\ Attached(q.ip) /\ Refuse(c, "conflict")
       \/ Visible(q) /\ ~Attached(q.ip) /\ Proceed(c, q, "findinstance")
       \/ Refuse(c, "error")
    /\ UNCHANGED <<tables, forwards>>

BeginDetach(c, q) ==
    /\ pc[c] = "idle"
    /\ request' = [request EXCEPT ![c] = q]
    /\ \/ ~Visible(q) /\ Refuse(c, "notfound")
       \/ Visible(q) /\ ~Attached(q.ip) /\ Refuse(c, "conflict")
       \/ /\ Visible(q) /\ Attached(q.ip)
          /\ Proceed(c, q, IF rows[q.ip].status = "pushed" THEN "unpush" ELSE "set")
       \/ Refuse(c, "error")
    /\ UNCHANGED <<tables, forwards>>

(* Mutant: releasing does not detach first. *)
BeginRelease_NoDetach(c, q) ==
    /\ pc[c] = "idle"
    /\ request' = [request EXCEPT ![c] = q]
    /\ \/ ~Visible(q) /\ Refuse(c, "notfound")
       \/ Visible(q) /\ Proceed(c, q, "softdelete")
       \/ Refuse(c, "error")
    /\ UNCHANGED <<tables, forwards>>

BeginRelease(c, q) ==
    /\ pc[c] = "idle"
    /\ request' = [request EXCEPT ![c] = q]
    /\ \/ ~Visible(q) /\ Refuse(c, "notfound")
       \/ /\ Visible(q)
          /\ Proceed(c, q, IF Attached(q.ip) /\ rows[q.ip].status = "pushed"
                           THEN "unpush" ELSE "softdelete")
       \/ Refuse(c, "error")
    /\ UNCHANGED <<tables, forwards>>

(* Mutant: the instance is looked up by id alone. *)
FindInstance_AnyTenant(c) ==
    LET i == request[c].instance IN
    /\ pc[c] = "findinstance"
    /\ \/ i \in instances /\ Goto(c, "push")
       \/ i \notin instances /\ Return(c, "notfound")
    /\ UNCHANGED <<tables, forwards, request, seen, hindered>>

(* The instance, within the caller's tenant. Without a forward network the *)
(* push is skipped; a restart may have changed that setting.               *)
FindInstance(c) ==
    LET i == request[c].instance IN
    /\ pc[c] = "findinstance"
    /\ \/ /\ i \in instances /\ Owner[i] = request[c].tenant
          /\ \/ Goto(c, "push") /\ UNCHANGED seen
             \/ Goto(c, "set") /\ seen' = [seen EXCEPT ![c].status = "unsupported"]
       \/ /\ ~(i \in instances /\ Owner[i] = request[c].tenant)
          /\ Return(c, "notfound") /\ UNCHANGED seen
       \/ Return(c, "error") /\ UNCHANGED seen
    /\ UNCHANGED <<tables, forwards, request, hindered>>

ForwardOf(c) == <<request[c].tenant, AddressOf(c)>>

(* Incus refuses a second forward for one listen address.                  *)
Push(c) ==
    /\ pc[c] = "push"
    /\ ForwardOf(c) \notin forwards
    /\ forwards' = forwards \cup {ForwardOf(c)}
    /\ seen' = [seen EXCEPT ![c].status = "pushed"]
    /\ Goto(c, "set")
    /\ UNCHANGED <<tables, request, hindered>>

(* The push is refused, or fails after the daemon applied it.              *)
PushFails(c) ==
    /\ pc[c] = "push"
    /\ seen' = [seen EXCEPT ![c].status = "failed"]
    /\ Goto(c, "set")
    /\ \/ UNCHANGED <<forwards, hindered>>
       \/ /\ forwards' = forwards \cup {ForwardOf(c)}
          /\ Mark(AddressOf(c), "failure")
    /\ UNCHANGED <<tables, request>>

AfterUnpush(c) == IF request[c].op = "detach" THEN "set" ELSE "softdelete"

Unpush(c) ==
    /\ pc[c] = "unpush"
    /\ forwards' = forwards \ {ForwardOf(c)}
    /\ Goto(c, AfterUnpush(c))
    /\ UNCHANGED <<tables, request, seen, hindered>>

(* The error is noted in the audit log, and the operation goes on.         *)
UnpushFails(c) ==
    /\ pc[c] = "unpush"
    /\ Goto(c, AfterUnpush(c))
    /\ Mark(AddressOf(c), "failure")
    /\ UNCHANGED <<tables, forwards, request, seen>>

-------------------------------------------------------------------------------
(* SetInstance: UPDATE ... WHERE the row is still visible, whatever is     *)
(* attached to it; an update that matches no row is a success.             *)
WithInstance(c) ==
    LET r == request[c].ip IN
    IF ~Visible(request[c]) THEN rows
    ELSE IF request[c].op = "attach"
    THEN [rows EXCEPT ![r].instance = request[c].instance, ![r].status = seen[c].status]
    ELSE [rows EXCEPT ![r].instance = NoInstance, ![r].status = "pending"]

(* Mutant: the detach forgets to report. *)
SetInstance_NoAnswer(c) ==
    /\ pc[c] = "set"
    /\ rows' = WithInstance(c)
    /\ Goto(c, "done")
    /\ UNCHANGED <<pools, registered, instances, forwards, request, seen, hindered>>

SetInstance(c) ==
    /\ pc[c] = "set"
    /\ rows' = WithInstance(c)
    /\ Return(c, "ok")
    /\ UNCHANGED <<pools, registered, instances, forwards, request, seen, hindered>>

Released(c) ==
    LET r == request[c].ip IN
    IF Visible(request[c])
    THEN [rows EXCEPT ![r].state = "released", ![r].instance = NoInstance,
                      ![r].status = "pending"]
    ELSE rows

SoftDelete(c) ==
    /\ pc[c] = "softdelete"
    /\ rows' = Released(c)
    /\ Return(c, "ok")
    /\ UNCHANGED <<pools, registered, instances, forwards, request, seen, hindered>>

(* The last write fails, or commits and its acknowledgement is lost.       *)
WriteFails(c) ==
    /\ pc[c] \in {"set", "softdelete"}
    /\ rows' \in {rows, IF pc[c] = "set" THEN WithInstance(c) ELSE Released(c)}
    /\ Return(c, "error")
    /\ Mark(AddressOf(c), "failure")
    /\ UNCHANGED <<pools, registered, instances, forwards, request, seen>>

-------------------------------------------------------------------------------
BeginDeletePool(c, q) ==
    /\ pc[c] = "idle"
    /\ request' = [request EXCEPT ![c] = q]
    /\ \/ pools[q.pool] # "deleted" /\ Goto(c, "listpool")
       \/ pools[q.pool] = "deleted" /\ Return(c, "notfound")
       \/ Return(c, "error")
    /\ UNCHANGED <<tables, forwards, seen, hindered>>

ListPool(c) ==
    /\ pc[c] = "listpool"
    /\ \/ Held(request[c].pool) = {} /\ Goto(c, "droppool")
       \/ Held(request[c].pool) # {} /\ Return(c, "conflict")
       \/ Return(c, "error")
    /\ UNCHANGED <<tables, forwards, request, seen, hindered>>

DropPool(c) ==
    /\ pc[c] = "droppool"
    /\ \/ pools' = [pools EXCEPT ![request[c].pool] = "deleted"] /\ Return(c, "ok")
       \/ pools' \in {pools, [pools EXCEPT ![request[c].pool] = "deleted"]} /\ Return(c, "error")
    /\ UNCHANGED <<registered, rows, instances, forwards, request, seen, hindered>>

UpdateIPPool(p) ==
    /\ pools[p] # "deleted"
    /\ \E s \in {"active", "inactive"} \ {pools[p]} : pools' = [pools EXCEPT ![p] = s]
    /\ UNCHANGED <<registered, rows, instances, forwards, request, pc, answer, seen, hindered>>

AddIPPoolRange(p, i) ==
    /\ pools[p] # "deleted" /\ i \notin registered[p]
    /\ registered' = [registered EXCEPT ![p] = @ \cup {i}]
    /\ UNCHANGED <<pools, rows, instances, forwards, request, pc, answer, seen, hindered>>

DeleteIPPoolRange(p, i) ==
    /\ pools[p] # "deleted" /\ i \in registered[p]
    /\ registered' = [registered EXCEPT ![p] = @ \ {i}]
    /\ UNCHANGED <<pools, rows, instances, forwards, request, pc, answer, seen, hindered>>

(* The end of DeleteInstance: the row is soft-deleted, so ON DELETE SET    *)
(* NULL does not fire.                                                     *)
DeleteInstance(i) ==
    /\ i \in instances
    /\ instances' = instances \ {i}
    /\ UNCHANGED <<pools, registered, rows, forwards, request, pc, answer, seen, hindered>>

(* The process dies, or the request is cut off, between two statements.    *)
Crash(c) ==
    /\ Running(c)
    /\ Return(c, "crashed")
    /\ IF OnRow(c) THEN Mark(AddressOf(c), "failure") ELSE UNCHANGED hindered
    /\ UNCHANGED <<tables, forwards, request, seen>>

(* Callers know the ids of the rows that were inserted.                    *)
Begin(c) ==
    \/ \E q \in Allocations : BeginAllocate(c, q)
    \/ \E q \in Attachments : rows[q.ip] # NoRow /\ BeginAttach(c, q)
    \/ \E q \in Removals : rows[q.ip] # NoRow /\ q.op = "detach" /\ BeginDetach(c, q)
    \/ \E q \in Removals : rows[q.ip] # NoRow /\ q.op = "release" /\ BeginRelease(c, q)
    \/ \E q \in Deletions : BeginDeletePool(c, q)

Step(c) ==
    \/ Pick(c) \/ Insert(c) \/ InsertFails(c)
    \/ FindInstance(c) \/ Push(c) \/ PushFails(c) \/ Unpush(c) \/ UnpushFails(c)
    \/ SetInstance(c) \/ SoftDelete(c) \/ WriteFails(c)
    \/ ListPool(c) \/ DropPool(c)

Operator(p) ==
    \/ UpdateIPPool(p)
    \/ \E i \in DOMAIN Ranges[p] : AddIPPoolRange(p, i) \/ DeleteIPPoolRange(p, i)

Next ==
    \/ \E c \in Calls : Begin(c) \/ Step(c) \/ Crash(c)
    \/ \E p \in Pools : Operator(p)
    \/ \E i \in Instances : DeleteInstance(i)

Spec == Init /\ [][Next]_vars

-------------------------------------------------------------------------------
(* Type correctness of the tables, of Incus and of the calls' local state; *)
(* a call has an answer exactly when it has returned, a request from its   *)
(* first step on, and only an allocation has a row.                        *)
TypeOK ==
    /\ pools \in [Pools -> {"active", "inactive", "deleted"}]
    /\ registered \in [Pools -> SUBSET Nat]
    /\ \A p \in Pools : registered[p] \subseteq DOMAIN Ranges[p]
    /\ rows \in [Calls -> Row]
    /\ instances \subseteq Instances
    /\ forwards \subseteq Tenants \X Addresses
    /\ request \in [Calls -> Requests \cup {NoRequest}]
    /\ pc \in [Calls -> PCs]
    /\ answer \in [Calls -> Answers]
    /\ seen \in [Calls -> Row]
    /\ hindered \in [Addresses -> SUBSET {"overlap", "failure"}]
    /\ \A c \in Calls : /\ pc[c] = "idle" <=> request[c] = NoRequest
                        /\ pc[c] = "done" <=> answer[c] # "none"
                        /\ rows[c] # NoRow => request[c] \in Allocations

(* One live allocation per public address, over all tenants and pools,     *)
(* whoever raced: uq_floating_ips_address backs the unlocked pick.         *)
AddressUnique ==
    \A r, x \in Calls : Live(r) /\ Live(x) /\ rows[r].address = rows[x].address => r = x

(* A floating IP is only ever attached to an instance of its own tenant,   *)
(* although the instance is checked statements before the row is written.  *)
AttachedWithinTenant ==
    \A r \in Calls : Live(r) /\ Attached(r) => Owner[rows[r].instance] = TenantOf(r)

(* ADR-0037: the Incus forward is derived from the row. An address whose   *)
(* operations never overlapped, failed or were cut off has a forward       *)
(* exactly when the live row that holds it says "pushed", through any      *)
(* sequence of attaches, detaches, releases and re-allocations.            *)
ForwardsFollowRows ==
    \A t \in Tenants, a \in Addresses :
        /\ hindered[a] = {}
        /\ ~ \E c \in Calls : OnRow(c) /\ AddressOf(c) = a
        => (<<t, a>> \in forwards <=>
              \E r \in Calls : /\ Live(r) /\ rows[r].status = "pushed"
                               /\ rows[r].address = a /\ TenantOf(r) = t)

(* The comment on ReleaseFloatingIP: "Any current attach is detached       *)
(* first". When nothing failed and nothing is running, no forward is left  *)
(* for an address that was given back.                                     *)
ReleaseDetaches ==
    (\A c \in Calls : ~Running(c)) =>
        \A t \in Tenants, a \in Addresses :
            <<t, a>> \in forwards /\ "failure" \notin hindered[a] =>
                \E r \in Calls : Live(r) /\ rows[r].address = a /\ TenantOf(r) = t

(* The comment on AttachFloatingIP: the instance "must not already have a  *)
(* floating IP attached".                                                  *)
OneAddressPerInstance ==
    \A r, x \in Calls :
        Live(r) /\ Live(x) /\ Attached(r) /\ rows[r].instance = rows[x].instance => r = x

(* The comment on DeleteIPPool: "the service refuses to delete a pool that *)
(* still has live allocations".                                            *)
DeletedPoolIsEmpty == \A p \in Pools : pools[p] = "deleted" => Held(p) = {}

(* Migration 0048 on instance_id: "deleting the instance detaches the      *)
(* floating IP".                                                           *)
DeleteInstanceDetaches ==
    \A r \in Calls : Live(r) /\ Attached(r) => rows[r].instance \in instances

(* The comment on pickNextFreeAddress: it "returns the lowest free host    *)
(* address across every range in the pool".                                *)
PicksLowest ==
    [][\A c \in Calls : pc[c] = "pick" /\ pc'[c] = "insert" =>
          LET p == request[c].pool IN
          \A i \in registered[p] : \A b \in Ranges[p][i] \ Held(p) : seen'[c].address <= b]_vars
================================================================================
