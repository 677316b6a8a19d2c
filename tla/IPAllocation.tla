------------------------------ MODULE IPAllocation ------------------------------
(***************************************************************************)
(* firstFreeInPrefix (compute/ip_allocation.go): the walk over the host    *)
(* addresses of one range. Addresses are numbers; a prefix is its family,  *)
(* its network address and how many addresses it has, a power of two.      *)
(***************************************************************************)
EXTENDS Integers

CONSTANTS
    Space,      \* the number of addresses of each family (2^32 and 2^128)
    Prefixes,   \* the ranges an operator may register
    MaxIter,    \* maxIter
    None        \* ok = false

ASSUME SpaceAssumption == Space \in [{4, 6} -> Nat]
ASSUME PrefixesAssumption ==
    \A p \in Prefixes : /\ p.family \in {4, 6} /\ p.net \in Nat /\ p.size \in Nat \ {0}
                        /\ p.net + p.size <= Space[p.family]
ASSUME MaxIterAssumption == MaxIter \in Nat
ASSUME NoneAssumption == None \notin Nat

VARIABLES
    prefix,
    taken,      \* excluded and allocated, as ranges of the family's addresses
    cur,
    looked,
    walking,    \* FALSE when the function has returned
    result

walkVars == <<prefix, taken, cur, looked, walking, result>>

Last(p) == p.net + p.size - 1

WalkInit ==
    /\ prefix \in Prefixes
    /\ taken \in SUBSET (prefix.net .. Last(prefix))
    /\ cur = prefix.net
    /\ looked = 0
    /\ walking = TRUE
    /\ result = None

(* hostBits >= 2 *)
SkipNetwork == prefix.size > 2
SkipBroadcast == prefix.family = 4 /\ prefix.size > 2

(* Mutant: the broadcast address is a candidate. *)
Candidate_Broadcast == (looked # 0 \/ ~SkipNetwork) /\ cur \notin taken

Candidate ==
    /\ looked # 0 \/ ~SkipNetwork
    /\ cur \notin taken
    /\ ~(SkipBroadcast /\ cur = Last(prefix))

Yield(v) ==
    /\ walking' = FALSE
    /\ result' = v
    /\ UNCHANGED <<prefix, taken, cur, looked>>

(* A /32 or /128 is its own host. *)
Single ==
    /\ walking /\ prefix.size = 1
    /\ Yield(IF cur \in taken THEN None ELSE cur)

Found ==
    /\ walking /\ prefix.size # 1 /\ looked < MaxIter
    /\ Candidate
    /\ Yield(cur)

(* Mutant: the walk leaves the prefix by one address. *)
HasNext_OffByOne == cur + 1 < Space[prefix.family] /\ cur <= Last(prefix)

(* Addr.Next is invalid after the last address of the family. *)
HasNext == cur + 1 < Space[prefix.family] /\ cur + 1 <= Last(prefix)

Advance ==
    /\ walking /\ prefix.size # 1 /\ looked < MaxIter
    /\ ~Candidate /\ HasNext
    /\ cur' = cur + 1
    /\ looked' = looked + 1
    /\ UNCHANGED <<prefix, taken, walking, result>>

Exhausted ==
    /\ walking /\ prefix.size # 1
    /\ looked >= MaxIter \/ (~Candidate /\ ~HasNext)
    /\ Yield(None)

WalkNext == Single \/ Found \/ Advance \/ Exhausted

WalkSpec == WalkInit /\ [][WalkNext]_walkVars

-------------------------------------------------------------------------------
(* The walk stays inside its range and its iterations under the cap.       *)
WalkTypeOK ==
    /\ prefix \in Prefixes
    /\ taken \subseteq prefix.net .. Last(prefix)
    /\ cur \in prefix.net .. Last(prefix)
    /\ looked \in 0 .. MaxIter
    /\ walking \in BOOLEAN
    /\ result \in Nat \cup {None}

(* What may be handed out, by the comment on firstFreeInPrefix: for        *)
(* prefixes wider than /31 and /127 not the network address and, in IPv4,  *)
(* not the broadcast address.                                              *)
Usable ==
    {a \in (prefix.net .. Last(prefix)) \ taken :
        prefix.size > 2 => /\ a # prefix.net
                           /\ prefix.family = 4 => a # Last(prefix)}

(* The walk returns the least usable address, and reports an exhausted     *)
(* range only when none of the addresses it may look at is usable: it      *)
(* looks at MaxIter addresses at most.                                     *)
ReturnsFirstFree ==
    ~walking =>
        /\ result = None => \A a \in Usable : prefix.size # 1 /\ a >= prefix.net + MaxIter
        /\ result # None => result \in Usable /\ \A a \in Usable : result <= a
================================================================================
