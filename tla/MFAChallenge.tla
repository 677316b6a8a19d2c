----------------------------- MODULE MFAChallenge -----------------------------
(***************************************************************************)
(* The second factors of one user (auth/mfa/mfa.go and the handlers of     *)
(* api/mfa_handlers.go): pending logins and their challenges, enrolment    *)
(* of the TOTP secret, and recovery codes.  Every call is a sequence of    *)
(* single statements on the tables mfa_pending_sessions,                   *)
(* user_totp_secrets and user_recovery_codes, without a transaction.       *)
(*                                                                         *)
(* A TOTP secret and a batch of recovery codes are named by the call that  *)
(* generated them; what the user types is either right or wrong for the    *)
(* row a call has read.  The user has no passkey.                          *)
(***************************************************************************)
EXTENDS Naturals, FiniteSets

CONSTANTS
    Calls,        \* requests handled by the server
    Tokens,       \* pending session tokens
    MaxAttempts,  \* failures after which a pending session is revoked
    BatchSize,    \* recovery codes in a batch
    Initial,      \* names the secret and the codes of an earlier enrolment
    None          \* no secret, no token, no code

ASSUME ConstantsAssumption ==
    /\ IsFiniteSet(Calls)
    /\ MaxAttempts \in Nat \ {0}
    /\ BatchSize \in Nat \ {0}
    /\ Initial \notin Calls
    /\ None \notin Calls \cup Tokens \cup {Initial}

Secrets == Calls \cup {Initial}

(* VerifyTOTP mints a batch itself, and its handler then another one.      *)
Batches == Secrets \X {"service", "handler"}
Codes == Batches \X (1 .. BatchSize)
CodesOf(b) == {b} \X (1 .. BatchSize)
InitialBatch == <<Initial, "handler">>

ASSUME NoCodeAssumption == None \notin Codes

VARIABLES
    issued,     \* mfa_pending_sessions: the tokens that have a row,
    expired,    \*   those past expires_at,
    consumed,   \*   with consumed_at,
    revoked,    \*   with revoked_at,
    failed,     \*   and failed_attempts
    secret,     \* user_totp_secrets: the secret
    confirmed,  \*   and whether it has confirmed_at
    unused,     \* user_recovery_codes: the codes without
    used,       \*   and with used_at
    pc,         \* the statement a call executes next
    answer,     \* how a call ended
    token,      \* of each challenge, its token
    code,       \*   and the recovery code it has found
    read,       \* the secret a verification has read
    minted,     \* the codes a call has inserted of its batch
    opened,     \* the challenges of each token that opened a session
    handed,     \* the batches returned to the user
    tries,      \* history: the wrong answers to each token,
    peak,       \*   the most challenges at once, and
    hindered,   \*   the tokens a failure or a crash kept from being counted
    shared,     \* history: codes found by two challenges at once
    dirty,      \* history: the last minting was overlapped or cut off
    proved,     \* history: secrets the user has typed a right code of
    raced,      \* history: enrolments in the middle of a verification,
    behind      \*   and verifications in the middle of an enrolment

pending == <<issued, expired, consumed, revoked, failed>>
totp == <<secret, confirmed>>
recovery == <<unused, used>>
local == <<token, code, read, minted>>
attempts == <<tries, peak, hindered>>
history == <<shared, dirty, proved, raced, behind>>
vars == <<pending, totp, recovery, pc, answer, local, opened, handed,
          attempts, history>>

ChallengePCs == {"factor", "spend", "consume", "open", "count", "recheck", "revoke"}
MintPCs == {"prewipe", "premint", "wipe", "mint"}
PCs == {"idle", "done", "upsert", "confirm"} \cup ChallengePCs \cup MintPCs
(* Which refusal, and whether an error reached the client, is left out.    *)
Answers == {"none", "ok", "refused", "error"}

Running(c) == pc[c] \notin {"idle", "done"}
ChallengesOf(t) == {c \in Calls : pc[c] \in ChallengePCs /\ token[c] = t}
Minting(c) == pc[c] \in {"premint", "mint"}
MintingCalls == {c \in Calls : Minting(c)}

Goto(c, label) ==
    /\ pc' = [pc EXCEPT ![c] = label]
    /\ UNCHANGED answer

Return(c, v) ==
    /\ pc' = [pc EXCEPT ![c] = "done"]
    /\ answer' = [answer EXCEPT ![c] = v]

(* A user who has never enrolled, or one who has.                          *)
Init ==
    /\ issued = {} /\ expired = {} /\ consumed = {} /\ revoked = {}
    /\ failed = [t \in Tokens |-> 0]
    /\ \/ secret = None /\ confirmed = FALSE /\ unused = {} /\ handed = {}
       \/ /\ secret = Initial /\ confirmed = TRUE
          /\ unused = CodesOf(InitialBatch) /\ handed = {InitialBatch}
    /\ used = {}
    /\ pc = [c \in Calls |-> "idle"]
    /\ answer = [c \in Calls |-> "none"]
    /\ token = [c \in Calls |-> None]
    /\ code = [c \in Calls |-> None]
    /\ read = [c \in Calls |-> None]
    /\ minted = [c \in Calls |-> 0]
    /\ opened = [t \in Tokens |-> {}]
    /\ tries = [t \in Tokens |-> 0]
    /\ peak = [t \in Tokens |-> 0]
    /\ hindered = {} /\ shared = {} /\ proved = {}
    /\ raced = {} /\ behind = {}
    /\ dirty = FALSE

-------------------------------------------------------------------------------
(* Login and its challenge.                                                *)

HasEnrolledFactor == confirmed

(* The user's password was right.  The token is sent once its row exists.  *)
BeginLogin(t) ==
    /\ t \notin issued
    /\ HasEnrolledFactor
    /\ issued' = issued \cup {t}
    /\ UNCHANGED <<expired, consumed, revoked, failed, totp, recovery, pc,
                   answer, local, opened, handed, attempts, history>>

(* The clock passes expires_at.                                            *)
Expire(t) ==
    /\ t \in issued \ expired
    /\ expired' = expired \cup {t}
    /\ UNCHANGED <<issued, consumed, revoked, failed, totp, recovery, pc,
                   answer, local, opened, handed, attempts, history>>

(* Mutant: only the expiry is checked on the row. *)
Usable_Revoked(t) == t \notin consumed \cup expired

(* Mutant: the row of an answered challenge passes. *)
Usable_Consumed(t) == t \notin revoked \cup expired

(* What Challenge checks on the row it has read.                           *)
Usable(t) == t \notin revoked \cup consumed \cup expired

Concurrent(t) == Cardinality(ChallengesOf(t)) + 1

(* The error of the Revoke of an expired row is dropped.                   *)
Challenge(c, t) ==
    /\ pc[c] = "idle"
    /\ t \in issued
    /\ token' = [token EXCEPT ![c] = t]
    /\ \/ /\ Usable(t)
          /\ Goto(c, "factor")
          /\ peak' = [peak EXCEPT ![t] = IF Concurrent(t) > @ THEN Concurrent(t) ELSE @]
          /\ UNCHANGED revoked
       \/ /\ ~Usable(t)
          /\ Return(c, "refused")
          /\ revoked' \in {revoked} \cup (IF t \in consumed THEN {} ELSE {revoked \cup {t}})
          /\ UNCHANGED peak
       \/ Return(c, "error") /\ UNCHANGED <<revoked, peak>>
    /\ UNCHANGED <<issued, expired, consumed, failed, totp, recovery, code,
                   read, minted, opened, handed, tries, hindered, history>>

(* A right TOTP code, also of a secret that is not confirmed.              *)
VerifyFactor(c) ==
    /\ pc[c] = "factor"
    /\ secret # None
    /\ Goto(c, "consume")
    /\ UNCHANGED <<pending, totp, recovery, local, opened, handed, attempts,
                   history>>

(* LookupUnused finds a recovery code.                                     *)
FindRecoveryCode(c) ==
    /\ pc[c] = "factor"
    /\ \E k \in unused :
          /\ code' = [code EXCEPT ![c] = k]
          /\ shared' = IF \E d \in Calls : pc[d] \in ChallengePCs /\ code[d] = k
                       THEN shared \cup {k} ELSE shared
    /\ Goto(c, "spend")
    /\ UNCHANGED <<pending, totp, recovery, token, read, minted, opened,
                   handed, attempts, dirty, proved, raced, behind>>

(* A wrong code, and any for a factor without a row.                       *)
RejectFactor(c) ==
    /\ pc[c] = "factor"
    /\ tries' = [tries EXCEPT ![token[c]] = @ + 1]
    /\ Goto(c, "count")
    /\ UNCHANGED <<pending, totp, recovery, local, opened, handed, peak,
                   hindered, history>>

VerifyFactorFails(c) ==
    /\ pc[c] = "factor"
    /\ Return(c, "error")
    /\ UNCHANGED <<pending, totp, recovery, local, opened, handed, attempts,
                   history>>

(* Mutant: the code is looked up and not marked. *)
Spend_Unmarked(k) == UNCHANGED recovery

(* ConsumeRecoveryCode: no row matched is no error.                        *)
Spend(k) ==
    /\ unused' = unused \ {k}
    /\ used' = IF k \in unused THEN used \cup {k} ELSE used

SpendCode(c) ==
    /\ pc[c] = "spend"
    /\ Spend(code[c])
    /\ Goto(c, "consume")
    /\ UNCHANGED <<pending, totp, local, opened, handed, attempts, history>>

(* The UPDATE fails, or commits and its acknowledgement is lost; so below. *)
SpendCodeFails(c) ==
    /\ pc[c] = "spend"
    /\ Spend(code[c]) \/ UNCHANGED recovery
    /\ Return(c, "error")
    /\ UNCHANGED <<pending, totp, local, opened, handed, attempts, history>>

(* ConsumeMFAPendingSession: no row matched is no error.                   *)
Consumed(t) == IF t \in revoked THEN consumed ELSE consumed \cup {t}

Consume(c) ==
    /\ pc[c] = "consume"
    /\ consumed' = Consumed(token[c])
    /\ Goto(c, "open")
    /\ UNCHANGED <<issued, expired, revoked, failed, totp, recovery, local,
                   opened, handed, attempts, history>>

ConsumeFails(c) ==
    /\ pc[c] = "consume"
    /\ consumed' \in {consumed, Consumed(token[c])}
    /\ Return(c, "error")
    /\ UNCHANGED <<issued, expired, revoked, failed, totp, recovery, local,
                   opened, handed, attempts, history>>

OpenForExistingUser(c) ==
    /\ pc[c] = "open"
    /\ opened' = [opened EXCEPT ![token[c]] = @ \cup {c}]
    /\ Return(c, "ok")
    /\ UNCHANGED <<pending, totp, recovery, local, handed, attempts, history>>

OpenFails(c) ==
    /\ pc[c] = "open"
    /\ opened' \in {opened, [opened EXCEPT ![token[c]] = @ \cup {c}]}
    /\ Return(c, "error")
    /\ UNCHANGED <<pending, totp, recovery, local, handed, attempts, history>>

IncFailures(c) ==
    /\ pc[c] = "count"
    /\ failed' = [failed EXCEPT ![token[c]] = @ + 1]
    /\ Goto(c, "recheck")
    /\ UNCHANGED <<issued, expired, consumed, revoked, totp, recovery, local,
                   opened, handed, attempts, history>>

(* The error is dropped.                                                   *)
IncFailuresFails(c) ==
    /\ pc[c] = "count"
    /\ failed' \in {failed, [failed EXCEPT ![token[c]] = @ + 1]}
    /\ hindered' = hindered \cup {token[c]}
    /\ Goto(c, "recheck")
    /\ UNCHANGED <<issued, expired, consumed, revoked, totp, recovery, local,
                   opened, handed, tries, peak, history>>

(* Mutant: one failure more than the limit. *)
Exhausted_OffByOne(t) == failed[t] > MaxAttempts

Exhausted(t) == failed[t] >= MaxAttempts

(* The counter is read again, after the increment.                         *)
Recheck(c) ==
    /\ pc[c] = "recheck"
    /\ \/ Exhausted(token[c]) /\ Goto(c, "revoke")
       \/ ~Exhausted(token[c]) /\ Return(c, "refused")
    /\ UNCHANGED <<pending, totp, recovery, local, opened, handed, attempts,
                   history>>

(* A failed re-read counts as a counter below the limit.                   *)
RecheckFails(c) ==
    /\ pc[c] = "recheck"
    /\ hindered' = hindered \cup {token[c]}
    /\ Return(c, "refused")
    /\ UNCHANGED <<pending, totp, recovery, local, opened, handed, tries,
                   peak, history>>

Revoke(c) ==
    /\ pc[c] = "revoke"
    /\ revoked' = revoked \cup {token[c]}
    /\ Return(c, "refused")
    /\ UNCHANGED <<issued, expired, consumed, failed, totp, recovery, local,
                   opened, handed, attempts, history>>

(* The error is dropped.                                                   *)
RevokeFails(c) ==
    /\ pc[c] = "revoke"
    /\ hindered' = hindered \cup {token[c]}
    /\ Return(c, "refused")
    /\ UNCHANGED <<pending, totp, recovery, local, opened, handed, tries,
                   peak, history>>

-------------------------------------------------------------------------------
(* Factors.                                                                *)

(* Mutant: a confirmed factor is enrolled over. *)
Enrollable_Always == TRUE

(* The check of EnrollTOTP on the row it has read.                         *)
Enrollable == secret = None \/ ~confirmed

EnrollTOTP(c) ==
    /\ pc[c] = "idle"
    /\ \/ Enrollable /\ Goto(c, "upsert")
       \/ ~Enrollable /\ Return(c, "refused")
       \/ Return(c, "error")
    /\ UNCHANGED <<pending, totp, recovery, local, opened, handed, attempts,
                   history>>

(* CreateTOTPSecret: a verification that has read the former secret        *)
(* confirms the new one.                                                   *)
Upsert(c) ==
    /\ secret' = c
    /\ confirmed' = FALSE
    /\ raced' = IF \E d \in Calls : pc[d] = "confirm" THEN raced \cup {c} ELSE raced
    /\ UNCHANGED behind

UpsertSecret(c) ==
    /\ pc[c] = "upsert"
    /\ Upsert(c)
    /\ Return(c, "ok")
    /\ UNCHANGED <<pending, recovery, local, opened, handed, attempts,
                   shared, dirty, proved>>

UpsertSecretFails(c) ==
    /\ pc[c] = "upsert"
    /\ Upsert(c) \/ UNCHANGED <<totp, raced, behind>>
    /\ Return(c, "error")
    /\ UNCHANGED <<pending, recovery, local, opened, handed, attempts,
                   shared, dirty, proved>>

(* Mutant: any code will do. *)
VerifyTOTP_Unchecked(c) ==
    /\ pc[c] = "idle"
    /\ secret # None
    /\ Goto(c, "confirm")
    /\ read' = [read EXCEPT ![c] = secret]
    /\ UNCHANGED <<pending, totp, recovery, token, code, minted, opened,
                   handed, attempts, history>>

(* The code is compared with the secret that was read.                     *)
VerifyTOTP(c) ==
    /\ pc[c] = "idle"
    /\ \/ /\ secret # None
          /\ read' = [read EXCEPT ![c] = secret]
          /\ proved' = proved \cup {secret}
          /\ Goto(c, "confirm")
       \/ /\ Return(c, "refused")
          /\ UNCHANGED <<read, proved>>
       \/ Return(c, "error") /\ UNCHANGED <<read, proved>>
    /\ UNCHANGED <<pending, totp, recovery, token, code, minted, opened,
                   handed, attempts, shared, dirty, raced, behind>>

(* Mutant: the row is inserted when it is gone. *)
Confirm_NoRow ==
    /\ confirmed' = TRUE
    /\ behind' = behind \cup {d \in Calls : pc[d] = "upsert"}
    /\ UNCHANGED <<secret, raced>>

(* ConfirmTOTPSecret: whichever secret the row holds by now.  An enrolment *)
(* that found it not confirmed still replaces it.                          *)
Confirm ==
    /\ confirmed' = (secret # None)
    /\ behind' = behind \cup {d \in Calls : pc[d] = "upsert"}
    /\ UNCHANGED <<secret, raced>>

ConfirmSecret(c) ==
    /\ pc[c] = "confirm"
    /\ Confirm
    /\ Goto(c, "prewipe")
    /\ UNCHANGED <<pending, recovery, local, opened, handed, attempts,
                   shared, dirty, proved>>

ConfirmSecretFails(c) ==
    /\ pc[c] = "confirm"
    /\ Confirm \/ UNCHANGED <<totp, raced, behind>>
    /\ Return(c, "error")
    /\ UNCHANGED <<pending, recovery, local, opened, handed, attempts,
                   shared, dirty, proved>>

DisableTOTP ==
    /\ secret # None
    /\ secret' = None
    /\ confirmed' = FALSE
    /\ UNCHANGED <<pending, recovery, pc, answer, local, opened, handed,
                   attempts, history>>

-------------------------------------------------------------------------------
(* Recovery codes: wipe the old ones, insert the new ones one by one.      *)

RegenerateRecoveryCodes(c) ==
    /\ pc[c] = "idle"
    /\ Goto(c, "wipe")
    /\ UNCHANGED <<pending, totp, recovery, local, opened, handed, attempts,
                   history>>

Batch(c) == <<c, IF pc[c] \in {"prewipe", "premint"} THEN "service" ELSE "handler">>

(* VerifyTOTP goes on without its own batch, its handler without codes.    *)
GiveUp(c) ==
    /\ minted' = [minted EXCEPT ![c] = 0]
    /\ IF pc[c] \in {"prewipe", "premint"} THEN Goto(c, "wipe")
       ELSE Return(c, IF read[c] = None THEN "error" ELSE "ok")

(* Between the two batches of a verification.                              *)
Unreturned(c) == pc[c] = "wipe" /\ read[c] # None

(* Mutant: the used codes of the old batch stay. *)
DeleteAllForUser_Unused == unused' = {} /\ UNCHANGED used

DeleteAllForUser == unused' = {} /\ used' = {}

Wipe(c) ==
    /\ pc[c] \in {"prewipe", "wipe"}
    /\ DeleteAllForUser
    /\ dirty' = (MintingCalls # {})
    /\ Goto(c, IF pc[c] = "prewipe" THEN "premint" ELSE "mint")
    /\ UNCHANGED <<pending, totp, local, opened, handed, attempts, shared,
                   proved, raced, behind>>

(* A delete whose acknowledgement is lost leaves the user without codes.   *)
WipeFails(c) ==
    /\ pc[c] \in {"prewipe", "wipe"}
    /\ \/ DeleteAllForUser /\ dirty' = TRUE
       \/ UNCHANGED recovery /\ dirty' = (dirty \/ Unreturned(c))
    /\ GiveUp(c)
    /\ UNCHANGED <<pending, totp, token, code, read, opened, handed,
                   attempts, shared, proved, raced, behind>>

Insert(c) == unused' = unused \cup {<<Batch(c), minted[c] + 1>>}

MintCode(c) ==
    /\ Minting(c)
    /\ minted[c] < BatchSize
    /\ Insert(c)
    /\ minted' = [minted EXCEPT ![c] = @ + 1]
    /\ UNCHANGED <<pending, totp, used, pc, answer, token, code, read, opened,
                   handed, attempts, history>>

(* Nor does the batch that was begun reach the user.                       *)
MintCodeFails(c) ==
    /\ Minting(c)
    /\ minted[c] < BatchSize
    /\ Insert(c) \/ UNCHANGED unused
    /\ dirty' = TRUE
    /\ GiveUp(c)
    /\ UNCHANGED <<pending, totp, used, token, code, read, opened, handed,
                   attempts, shared, proved, raced, behind>>

(* The codes VerifyTOTP minted are dropped, the handler's returned.        *)
ReturnCodes(c) ==
    /\ Minting(c)
    /\ minted[c] = BatchSize
    /\ minted' = [minted EXCEPT ![c] = 0]
    /\ \/ pc[c] = "premint" /\ Goto(c, "wipe") /\ UNCHANGED handed
       \/ pc[c] = "mint" /\ handed' = handed \cup {Batch(c)} /\ Return(c, "ok")
    /\ UNCHANGED <<pending, totp, recovery, token, code, read, opened,
                   attempts, history>>

-------------------------------------------------------------------------------
(* The process dies, or the client hangs up.                               *)
Crash(c) ==
    /\ Running(c)
    /\ Return(c, "error")
    /\ minted' = [minted EXCEPT ![c] = 0]
    /\ hindered' = IF pc[c] \in {"count", "recheck", "revoke"}
                   THEN hindered \cup {token[c]} ELSE hindered
    /\ dirty' = (dirty \/ Minting(c) \/ Unreturned(c))
    /\ UNCHANGED <<pending, totp, recovery, token, code, read, opened, handed,
                   tries, peak, shared, proved, raced, behind>>

Next ==
    \/ \E t \in Tokens : BeginLogin(t) \/ Expire(t)
    \/ \E c \in Calls :
          \/ \E t \in Tokens : Challenge(c, t)
          \/ VerifyFactor(c) \/ FindRecoveryCode(c)
          \/ RejectFactor(c) \/ VerifyFactorFails(c)
          \/ SpendCode(c) \/ SpendCodeFails(c)
          \/ Consume(c) \/ ConsumeFails(c)
          \/ OpenForExistingUser(c) \/ OpenFails(c)
          \/ IncFailures(c) \/ IncFailuresFails(c)
          \/ Recheck(c) \/ RecheckFails(c)
          \/ Revoke(c) \/ RevokeFails(c)
          \/ EnrollTOTP(c) \/ UpsertSecret(c) \/ UpsertSecretFails(c)
          \/ VerifyTOTP(c) \/ ConfirmSecret(c) \/ ConfirmSecretFails(c)
          \/ RegenerateRecoveryCodes(c)
          \/ Wipe(c) \/ WipeFails(c)
          \/ MintCode(c) \/ MintCodeFails(c) \/ ReturnCodes(c)
          \/ Crash(c)
    \/ DisableTOTP

Spec == Init /\ [][Next]_vars

-------------------------------------------------------------------------------
(* The tables, the local state of the calls and the history keep their     *)
(* types, a call has an answer exactly when it has returned, and only a    *)
(* minting call holds a part of a batch.                                   *)
TypeOK ==
    /\ consumed \cup revoked \cup expired \cup hindered \subseteq issued
    /\ issued \subseteq Tokens
    /\ failed \in [Tokens -> 0 .. Cardinality(Calls)]
    /\ secret \in Secrets \cup {None}
    /\ {confirmed, dirty} \subseteq BOOLEAN
    /\ confirmed => secret # None
    /\ unused \subseteq Codes /\ used \subseteq Codes \ unused
    /\ pc \in [Calls -> PCs] /\ answer \in [Calls -> Answers]
    /\ token \in [Calls -> Tokens \cup {None}]
    /\ code \in [Calls -> Codes \cup {None}]
    /\ read \in [Calls -> Secrets \cup {None}]
    /\ minted \in [Calls -> 0 .. BatchSize]
    /\ opened \in [Tokens -> SUBSET Calls]
    /\ handed \subseteq Batches
    /\ tries \in [Tokens -> 0 .. Cardinality(Calls)]
    /\ peak \in [Tokens -> 0 .. Cardinality(Calls)]
    /\ shared \subseteq Codes /\ proved \subseteq Secrets
    /\ raced \subseteq Calls /\ behind \subseteq Calls
    /\ \A c \in Calls :
          /\ answer[c] # "none" <=> pc[c] = "done"
          /\ minted[c] > 0 => Minting(c)

SessionsWithinPeak == \A t \in Tokens : Cardinality(opened[t]) <= peak[t]

OpenedWith(k) == {c \in UNION {opened[t] : t \in Tokens} : code[c] = k}

(* A pending token opens no more sessions than challenges of it ran at     *)
(* once: one, when the client sends them one after the other.  A recovery  *)
(* code opens one session, on whatever tokens it is presented, unless two  *)
(* challenges had found it at once.  Neither Consume says whether it       *)
(* matched its row.                                                        *)
OpensOnce ==
    /\ SessionsWithinPeak
    /\ \A k \in Codes \ shared : Cardinality(OpenedWith(k)) <= 1

LockedOut ==
    \A t \in Tokens \ hindered :
        tries[t] >= MaxAttempts /\ ChallengesOf(t) = {} => t \in revoked

TriesWithinPeak ==
    \A t \in Tokens \ hindered : tries[t] <= MaxAttempts - 1 + peak[t]

(* The lockout holds under overlap, because every challenge reads the      *)
(* counter again after its own increment.  When no challenge of it is      *)
(* running, a token that was tried MaxAttempts times is revoked; and no    *)
(* more wrong answers are ever examined than MaxAttempts - 1 and one for   *)
(* each challenge that ran at once.  Only a failed statement or a request  *)
(* that was cut off can lift either.                                       *)
Lockout == LockedOut /\ TriesWithinPeak

(* When no call is minting, the recovery codes of the user are those of    *)
(* one batch, all of them, and the user was given it: unless the last      *)
(* minting failed, was cut off or overlapped another.                      *)
OneBatch ==
    (\A c \in Calls : pc[c] \notin MintPCs) /\ ~dirty
        => unused \cup used \in {{}} \cup {CodesOf(b) : b \in handed}

(* A confirmed secret is one the user has typed a code of, unless an       *)
(* enrolment replaced the secret of a running verification.                *)
ConfirmedWasProved == confirmed => secret \in proved \cup raced \cup {Initial}

(* A confirmed secret is disabled before it is replaced, unless it was     *)
(* confirmed in the middle of the enrolment.                               *)
ConfirmedStays ==
    [][confirmed /\ secret' \notin {secret, None} => secret' \in behind]_vars

-------------------------------------------------------------------------------
(* A pending token is single-use (0016_mfa_pending_sessions.up.sql: "A     *)
(* second attempt with the same token is rejected").  Violated: two        *)
(* challenges of one token pass the check on its row together.             *)
SingleUse == \A t \in Tokens : Cardinality(opened[t]) <= 1

(* The old codes stop working the moment new ones are issued               *)
(* (recovery_codes_repo.go, DeleteAllForUser).  Violated: two mintings     *)
(* that both wipe first leave two batches.                                 *)
OldCodesStop ==
    (\A c \in Calls : pc[c] \notin MintPCs)
        => Cardinality({k[1] : k \in unused}) <= 1
===============================================================================
