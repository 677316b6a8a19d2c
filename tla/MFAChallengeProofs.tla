--------------------------- MODULE MFAChallengeProofs ---------------------------
(***************************************************************************)
(* Theorems about MFAChallenge, for every set of calls and tokens, every   *)
(* limit of attempts and every size of a batch, with their proofs.         *)
(***************************************************************************)
EXTENDS MFAChallenge, FiniteSetTheorems, TLAPS

(* The steps of a call, by the part of the system they belong to.          *)
Answering(c) ==
    \/ VerifyFactor(c) \/ FindRecoveryCode(c) \/ RejectFactor(c) \/ VerifyFactorFails(c)
    \/ SpendCode(c) \/ SpendCodeFails(c) \/ Consume(c) \/ ConsumeFails(c)
    \/ OpenForExistingUser(c) \/ OpenFails(c)
    \/ IncFailures(c) \/ IncFailuresFails(c) \/ Recheck(c) \/ RecheckFails(c)
    \/ Revoke(c) \/ RevokeFails(c)

Enrolling(c) ==
    \/ EnrollTOTP(c) \/ UpsertSecret(c) \/ UpsertSecretFails(c)
    \/ VerifyTOTP(c) \/ ConfirmSecret(c) \/ ConfirmSecretFails(c)

Renewing(c) ==
    \/ RegenerateRecoveryCodes(c) \/ Wipe(c) \/ WipeFails(c)
    \/ MintCode(c) \/ MintCodeFails(c) \/ ReturnCodes(c)

Step(c) ==
    \/ \E t \in Tokens : Challenge(c, t)
    \/ Answering(c) \/ Enrolling(c) \/ Renewing(c) \/ Crash(c)

Outside == DisableTOTP \/ \E t \in Tokens : BeginLogin(t) \/ Expire(t)

LEMMA Steps == Next => Outside \/ \E c \in Calls : Step(c)
BY DEF Next, Outside, Step, Answering, Enrolling, Renewing

-------------------------------------------------------------------------------
(* Types.                                                                  *)
TablesOK ==
    /\ consumed \cup revoked \cup expired \cup hindered \subseteq issued
    /\ issued \subseteq Tokens
    /\ failed \in [Tokens -> Nat]
    /\ secret \in Secrets \cup {None}
    /\ confirmed \in BOOLEAN
    /\ confirmed => secret # None
    /\ unused \subseteq Codes /\ used \subseteq Codes

ControlOK == pc \in [Calls -> PCs] /\ answer \in [Calls -> Answers]

LocalsOK ==
    /\ token \in [Calls -> Tokens \cup {None}]
    /\ code \in [Calls -> Codes \cup {None}]
    /\ read \in [Calls -> Secrets \cup {None}]
    /\ minted \in [Calls -> 0 .. BatchSize]

HistoryOK ==
    /\ opened \in [Tokens -> SUBSET Calls]
    /\ handed \subseteq Batches
    /\ tries \in [Tokens -> Nat] /\ peak \in [Tokens -> Nat]
    /\ shared \subseteq Codes /\ proved \subseteq Secrets
    /\ raced \subseteq Calls /\ behind \subseteq Calls
    /\ dirty \in BOOLEAN

(* What a call holds, by the statement it stands at.                       *)
CallInv(c) ==
    /\ answer[c] # "none" <=> pc[c] = "done"
    /\ minted[c] > 0 => Minting(c)
    /\ pc[c] \in ChallengePCs => token[c] \in issued
    /\ pc[c] \in {"idle", "factor"} => code[c] = None
    /\ pc[c] = "spend" => code[c] \in Codes
    /\ pc[c] \in {"confirm", "prewipe", "premint"} => read[c] # None

Types == TablesOK /\ ControlOK /\ LocalsOK /\ HistoryOK
TypeInv == Types /\ \A c \in Calls : CallInv(c)

(* A call moves itself only.                                               *)
Apart(c) ==
    \A x \in Calls \ {c} :
        /\ pc'[x] = pc[x] /\ answer'[x] = answer[x] /\ token'[x] = token[x]
        /\ code'[x] = code[x] /\ read'[x] = read[x] /\ minted'[x] = minted[x]

LEMMA Moves ==
    ASSUME ControlOK, NEW c \in Calls
    PROVE  /\ \A l : Goto(c, l) => pc'[c] = l /\ answer'[c] = answer[c]
           /\ \A v : Return(c, v) => pc'[c] = "done" /\ answer'[c] = v
           /\ \A l \in PCs : Goto(c, l) => ControlOK'
           /\ \A v \in Answers : Return(c, v) => ControlOK'
           /\ \A l : Goto(c, l) => \A x \in Calls \ {c} : pc'[x] = pc[x] /\ answer'[x] = answer[x]
           /\ \A v : Return(c, v) => \A x \in Calls \ {c} : pc'[x] = pc[x] /\ answer'[x] = answer[x]
<1> USE DEF ControlOK
<1>1. ASSUME NEW l, Goto(c, l)
      PROVE  /\ pc'[c] = l /\ answer'[c] = answer[c] /\ (l \in PCs => ControlOK')
             /\ \A x \in Calls \ {c} : pc'[x] = pc[x] /\ answer'[x] = answer[x]
  BY <1>1 DEF Goto
<1>2. ASSUME NEW v, Return(c, v)
      PROVE  /\ pc'[c] = "done" /\ answer'[c] = v /\ (v \in Answers => ControlOK')
             /\ \A x \in Calls \ {c} : pc'[x] = pc[x] /\ answer'[x] = answer[x]
  BY <1>2 DEF Return, PCs
<1> QED
  BY <1>1, <1>2

LEMMA StepApart == ASSUME Types, NEW c \in Calls, Step(c) PROVE Apart(c) /\ ControlOK'
<1> USE Moves DEF Types, LocalsOK, local, Apart
<1>1. ASSUME NEW t \in Tokens, Challenge(c, t) PROVE Apart(c) /\ ControlOK'
  BY <1>1 DEF Challenge, PCs, ChallengePCs, Answers
<1>2. CASE Answering(c)
  <2>1. UNCHANGED <<token, read, minted>> /\ \A x \in Calls \ {c} : code'[x] = code[x]
    BY <1>2 DEF Answering, VerifyFactor, FindRecoveryCode, RejectFactor, VerifyFactorFails,
       SpendCode, SpendCodeFails, Consume, ConsumeFails, OpenForExistingUser, OpenFails,
       IncFailures, IncFailuresFails, Recheck, RecheckFails, Revoke, RevokeFails
  <2>2. (\E l \in PCs : Goto(c, l)) \/ (\E v \in Answers : Return(c, v))
    BY <1>2 DEF Answering, VerifyFactor, FindRecoveryCode, RejectFactor, VerifyFactorFails,
       SpendCode, SpendCodeFails, Consume, ConsumeFails, OpenForExistingUser, OpenFails,
       IncFailures, IncFailuresFails, Recheck, RecheckFails, Revoke, RevokeFails, PCs, Answers,
       ChallengePCs
  <2> QED
    BY <2>1, <2>2
<1>3. CASE Enrolling(c)
  <2>1. UNCHANGED <<token, code, minted>> /\ \A x \in Calls \ {c} : read'[x] = read[x]
    BY <1>3 DEF Enrolling, EnrollTOTP, UpsertSecret, UpsertSecretFails, VerifyTOTP, ConfirmSecret,
       ConfirmSecretFails
  <2>2. (\E l \in PCs : Goto(c, l)) \/ (\E v \in Answers : Return(c, v))
    BY <1>3 DEF Enrolling, EnrollTOTP, UpsertSecret, UpsertSecretFails, VerifyTOTP, ConfirmSecret,
       ConfirmSecretFails, PCs, Answers, MintPCs
  <2> QED
    BY <2>1, <2>2
<1>4. CASE Renewing(c)
  <2>1. UNCHANGED <<token, code, read>> /\ \A x \in Calls \ {c} : minted'[x] = minted[x]
    BY <1>4 DEF Renewing, RegenerateRecoveryCodes, Wipe, WipeFails, MintCode, MintCodeFails,
       ReturnCodes, GiveUp
  <2>2. \/ UNCHANGED <<pc, answer>>
        \/ (\E l \in PCs : Goto(c, l)) \/ (\E v \in Answers : Return(c, v))
    BY <1>4 DEF Renewing, RegenerateRecoveryCodes, Wipe, WipeFails, MintCode, MintCodeFails,
       ReturnCodes, GiveUp, PCs, Answers, MintPCs
  <2> QED
    BY <2>1, <2>2 DEF ControlOK
<1>5. CASE Crash(c)
  BY <1>5 DEF Crash, Answers
<1> QED
  BY <1>1, <1>2, <1>3, <1>4, <1>5 DEF Step

LEMMA CodesOfType ==
    /\ \A b \in Batches : CodesOf(b) \subseteq Codes
    /\ InitialBatch \in Batches
    /\ \A c \in Calls : Batch(c) \in Batches
    /\ \A b \in Batches, n \in 1 .. BatchSize : <<b, n>> \in Codes
BY DEF CodesOf, Codes, Batches, Batch, InitialBatch, Secrets

LEMMA TypesInit == Init => TypeInv
<1> SUFFICES ASSUME Init PROVE TypeInv
  OBVIOUS
<1>1. TablesOK
  BY CodesOfType, ConstantsAssumption DEF Init, TablesOK, Secrets
<1>2. ControlOK /\ LocalsOK
  BY ConstantsAssumption DEF Init, ControlOK, LocalsOK, PCs, Answers
<1>3. HistoryOK
  BY CodesOfType DEF Init, HistoryOK
<1>4. \A c \in Calls : CallInv(c)
  BY DEF Init, CallInv, ChallengePCs
<1> QED
  BY <1>1, <1>2, <1>3, <1>4 DEF TypeInv, Types

LEMMA ChallengeTypes ==
    ASSUME TypeInv, NEW c \in Calls, NEW t \in Tokens, Challenge(c, t), IsFiniteSet(Calls)
    PROVE  TablesOK' /\ LocalsOK' /\ HistoryOK' /\ CallInv(c)' /\ issued \subseteq issued'
<1> USE DEF TypeInv, Types
<1>1. TablesOK'
  BY DEF Challenge, TablesOK, totp, recovery, attempts, history
<1>2. LocalsOK'
  BY DEF Challenge, LocalsOK
<1>3. Concurrent(t) \in Nat
  <2>1. IsFiniteSet(ChallengesOf(t))
    BY FS_Subset DEF ChallengesOf
  <2> QED
    BY <2>1, FS_CardinalityType DEF Concurrent
<1>4. HistoryOK'
  BY <1>3 DEF Challenge, HistoryOK, history
<1>5. CallInv(c)'
  BY Moves DEF Challenge, CallInv, LocalsOK, TablesOK, Minting, ChallengePCs, ControlOK, Answers
<1> QED
  BY <1>1, <1>2, <1>4, <1>5 DEF Challenge

LEMMA AnsweringTypes ==
    ASSUME TypeInv, NEW c \in Calls, Answering(c)
    PROVE  TablesOK' /\ LocalsOK' /\ HistoryOK' /\ CallInv(c)' /\ issued \subseteq issued'
<1> USE DEF TypeInv, Types
<1>1. token[c] \in issued /\ token[c] \in Tokens /\ pc[c] \in ChallengePCs
  BY DEF CallInv, TablesOK, Answering, VerifyFactor, FindRecoveryCode, RejectFactor,
     VerifyFactorFails, SpendCode, SpendCodeFails, Consume, ConsumeFails, OpenForExistingUser,
     OpenFails, IncFailures, IncFailuresFails, Recheck, RecheckFails, Revoke, RevokeFails,
     ChallengePCs
<1>2. TablesOK'
  BY <1>1 DEF TablesOK, Answering, VerifyFactor, FindRecoveryCode, RejectFactor,
     VerifyFactorFails, SpendCode, SpendCodeFails, Consume, ConsumeFails, OpenForExistingUser,
     OpenFails, IncFailures, IncFailuresFails, Recheck, RecheckFails, Revoke, RevokeFails,
     Spend, Consumed, CallInv, pending, totp, recovery, attempts
<1>3. LocalsOK'
  BY DEF LocalsOK, TablesOK, Answering, VerifyFactor, FindRecoveryCode, RejectFactor,
     VerifyFactorFails, SpendCode, SpendCodeFails, Consume, ConsumeFails, OpenForExistingUser,
     OpenFails, IncFailures, IncFailuresFails, Recheck, RecheckFails, Revoke, RevokeFails, local
<1>4. HistoryOK'
  BY <1>1 DEF HistoryOK, TablesOK, Answering, VerifyFactor, FindRecoveryCode, RejectFactor,
     VerifyFactorFails, SpendCode, SpendCodeFails, Consume, ConsumeFails, OpenForExistingUser,
     OpenFails, IncFailures, IncFailuresFails, Recheck, RecheckFails, Revoke, RevokeFails,
     attempts, history
<1>5. CallInv(c)'
  BY <1>1, Moves DEF CallInv, LocalsOK, TablesOK, Answering, VerifyFactor, FindRecoveryCode,
     RejectFactor, VerifyFactorFails, SpendCode, SpendCodeFails, Consume, ConsumeFails,
     OpenForExistingUser, OpenFails, IncFailures, IncFailuresFails, Recheck, RecheckFails, Revoke,
     RevokeFails, local, pending, Minting, ChallengePCs
<1> QED
  BY <1>2, <1>3, <1>4, <1>5 DEF Answering, VerifyFactor, FindRecoveryCode, RejectFactor,
     VerifyFactorFails, SpendCode, SpendCodeFails, Consume, ConsumeFails, OpenForExistingUser,
     OpenFails, IncFailures, IncFailuresFails, Recheck, RecheckFails, Revoke, RevokeFails, pending

LEMMA EnrollingTypes ==
    ASSUME TypeInv, NEW c \in Calls, Enrolling(c)
    PROVE  TablesOK' /\ LocalsOK' /\ HistoryOK' /\ CallInv(c)' /\ issued \subseteq issued'
<1> USE DEF TypeInv, Types
<1>1. TablesOK'
  <2>1. UNCHANGED <<issued, expired, consumed, revoked, failed, unused, used, hindered>>
    BY DEF Enrolling, EnrollTOTP, UpsertSecret, UpsertSecretFails, VerifyTOTP, ConfirmSecret,
       ConfirmSecretFails, pending, recovery, attempts
  <2>2. \/ UNCHANGED <<secret, confirmed>>
        \/ secret' = c /\ confirmed' = FALSE
        \/ secret' = secret /\ confirmed' \in BOOLEAN /\ (confirmed' => secret # None)
    BY DEF Enrolling, EnrollTOTP, UpsertSecret, UpsertSecretFails, VerifyTOTP, ConfirmSecret,
       ConfirmSecretFails, Upsert, Confirm, totp
  <2>3. /\ secret' \in Secrets \cup {None} /\ confirmed' \in BOOLEAN
        /\ confirmed' => secret' # None
    <3>1. c \in Secrets /\ FALSE \in BOOLEAN
      BY DEF Secrets
    <3>2. CASE UNCHANGED <<secret, confirmed>>
      BY <3>2 DEF TablesOK
    <3>3. CASE secret' = c /\ confirmed' = FALSE
      BY <3>1, <3>3
    <3> QED
      BY <2>2, <3>2, <3>3 DEF TablesOK
  <2> QED
    BY <2>1, <2>3 DEF TablesOK
<1>2. LocalsOK'
  BY DEF LocalsOK, TablesOK, Enrolling, EnrollTOTP, UpsertSecret, UpsertSecretFails,
     VerifyTOTP, ConfirmSecret, ConfirmSecretFails, local
<1>3. HistoryOK'
  BY DEF HistoryOK, TablesOK, Enrolling, EnrollTOTP, UpsertSecret, UpsertSecretFails,
     VerifyTOTP, ConfirmSecret, ConfirmSecretFails, Upsert, Confirm, attempts, history
<1>4. CallInv(c)'
  BY Moves DEF CallInv, LocalsOK, TablesOK, Enrolling, EnrollTOTP, UpsertSecret,
     UpsertSecretFails, VerifyTOTP, ConfirmSecret, ConfirmSecretFails, local, pending, Minting,
     ChallengePCs
<1> QED
  BY <1>1, <1>2, <1>3, <1>4 DEF Enrolling, EnrollTOTP, UpsertSecret, UpsertSecretFails,
     VerifyTOTP, ConfirmSecret, ConfirmSecretFails, pending

LEMMA RenewingTypes ==
    ASSUME TypeInv, NEW c \in Calls, Renewing(c)
    PROVE  TablesOK' /\ LocalsOK' /\ HistoryOK' /\ CallInv(c)' /\ issued \subseteq issued'
<1> USE DEF TypeInv, Types
<1>1. \A n \in 0 .. BatchSize : n < BatchSize => n + 1 \in 0 .. BatchSize /\ <<Batch(c), n + 1>> \in Codes
  BY CodesOfType, ConstantsAssumption
<1>2. TablesOK'
  BY <1>1 DEF TablesOK, LocalsOK, Renewing, RegenerateRecoveryCodes, Wipe, WipeFails, MintCode,
     MintCodeFails, ReturnCodes, DeleteAllForUser, Insert, pending, totp, recovery, attempts
<1>3. LocalsOK'
  BY <1>1, ConstantsAssumption DEF LocalsOK, Renewing, RegenerateRecoveryCodes, Wipe, WipeFails,
     MintCode, MintCodeFails, ReturnCodes, GiveUp, local
<1>4. HistoryOK'
  BY CodesOfType DEF HistoryOK, Renewing, RegenerateRecoveryCodes, Wipe, WipeFails,
     MintCode, MintCodeFails, ReturnCodes, attempts, history
<1>5. CallInv(c)'
  BY Moves DEF CallInv, LocalsOK, Renewing, RegenerateRecoveryCodes, Wipe, WipeFails,
     MintCode, MintCodeFails, ReturnCodes, GiveUp, local, pending, Minting, ChallengePCs
<1> QED
  BY <1>2, <1>3, <1>4, <1>5 DEF Renewing, RegenerateRecoveryCodes, Wipe, WipeFails, MintCode,
     MintCodeFails, ReturnCodes, pending

LEMMA CrashTypes ==
    ASSUME TypeInv, NEW c \in Calls, Crash(c)
    PROVE  TablesOK' /\ LocalsOK' /\ HistoryOK' /\ CallInv(c)' /\ issued \subseteq issued'
<1> USE DEF TypeInv, Types, Crash
<1>1. TablesOK'
  BY DEF TablesOK, CallInv, pending, totp, recovery, ChallengePCs
<1>2. LocalsOK' /\ HistoryOK'
  BY ConstantsAssumption DEF LocalsOK, HistoryOK
<1>3. CallInv(c)'
  BY Moves DEF CallInv, LocalsOK, ChallengePCs
<1> QED
  BY <1>1, <1>2, <1>3 DEF pending

LEMMA OutsideTypes ==
    ASSUME TypeInv, Outside
    PROVE  TypeInv' /\ issued \subseteq issued'
<1> USE DEF TypeInv, Types, Outside, DisableTOTP, BeginLogin, Expire
<1>1. TablesOK' /\ issued \subseteq issued'
  <2>1. CASE DisableTOTP
    BY <2>1 DEF TablesOK, recovery, attempts, pending
  <2>2. ASSUME NEW t \in Tokens, BeginLogin(t) \/ Expire(t)
        PROVE  TablesOK' /\ issued \subseteq issued'
    BY <2>2 DEF TablesOK, recovery, totp, attempts
  <2> QED
    BY <2>1, <2>2
<1>2. UNCHANGED <<pc, answer, token, code, read, minted>> /\ HistoryOK'
  BY DEF local, HistoryOK, attempts, history
<1> QED
  BY <1>1, <1>2 DEF ControlOK, LocalsOK, CallInv, Minting

LEMMA TypesStep == TypeInv /\ [Next]_vars => TypeInv' /\ issued \subseteq issued'
<1> SUFFICES ASSUME TypeInv, [Next]_vars PROVE TypeInv' /\ issued \subseteq issued'
  OBVIOUS
<1>1. CASE UNCHANGED vars
  BY <1>1 DEF vars, pending, totp, recovery, local, attempts, history, TypeInv, Types, TablesOK,
     ControlOK, LocalsOK, HistoryOK, CallInv, Minting
<1>2. ASSUME NEW c \in Calls, Step(c) PROVE TypeInv' /\ issued \subseteq issued'
  <2>1. TablesOK' /\ LocalsOK' /\ HistoryOK' /\ CallInv(c)' /\ issued \subseteq issued'
    BY <1>2, ChallengeTypes, AnsweringTypes, EnrollingTypes, RenewingTypes, CrashTypes,
       ConstantsAssumption DEF Step
  <2>2. Apart(c) /\ ControlOK'
    BY <1>2, StepApart DEF TypeInv
  <2>3. ASSUME NEW x \in Calls, x # c PROVE CallInv(x)'
    BY <2>1, <2>2, <2>3 DEF TypeInv, CallInv, Apart, Minting
  <2> QED
    BY <2>1, <2>2, <2>3 DEF TypeInv, Types
<1> QED
  BY <1>1, <1>2, OutsideTypes, Steps

-------------------------------------------------------------------------------
(* Recovery codes are minted once.  A written code is one that the call    *)
(* that names it has inserted by now.                                      *)
Written(k) ==
    LET c == k[1][1]
        n == k[2]
    IN  \/ c = Initial
        \/ /\ k[1][2] = "service"
           /\ pc[c] \in {"wipe", "mint", "done"} \/ (pc[c] = "premint" /\ n <= minted[c])
        \/ /\ k[1][2] = "handler"
           /\ pc[c] = "done" \/ (pc[c] = "mint" /\ n <= minted[c])

CodesInv ==
    /\ used \cap unused = {}
    /\ \A k \in unused \cup used : Written(k)
    /\ \A c \in Calls : code[c] # None => Written(code[c])

(* How a call goes through its minting. *)
LEMMA MintMoves ==
    ASSUME TypeInv, NEW c \in Calls, Step(c)
    PROVE  /\ pc[c] # "done"
           /\ pc[c] = "premint" => \/ pc'[c] \in {"wipe", "done"}
                                   \/ pc'[c] = "premint" /\ minted'[c] = minted[c] + 1
           /\ pc[c] = "wipe" => pc'[c] \in {"mint", "done"}
           /\ pc[c] = "mint" => \/ pc'[c] = "done"
                                \/ pc'[c] = "mint" /\ minted'[c] = minted[c] + 1
<1> USE Moves DEF TypeInv, Types, LocalsOK
<1>1. ASSUME NEW t \in Tokens, Challenge(c, t) PROVE pc[c] = "idle"
  BY <1>1 DEF Challenge
<1>2. CASE Answering(c)
  BY <1>2 DEF Answering, VerifyFactor, FindRecoveryCode, RejectFactor, VerifyFactorFails,
     SpendCode, SpendCodeFails, Consume, ConsumeFails, OpenForExistingUser, OpenFails,
     IncFailures, IncFailuresFails, Recheck, RecheckFails, Revoke, RevokeFails
<1>3. CASE Enrolling(c)
  BY <1>3 DEF Enrolling, EnrollTOTP, UpsertSecret, UpsertSecretFails, VerifyTOTP, ConfirmSecret,
     ConfirmSecretFails
<1>4. CASE Renewing(c)
  BY <1>4 DEF Renewing, RegenerateRecoveryCodes, Wipe, WipeFails, MintCode, MintCodeFails,
     ReturnCodes, GiveUp, Minting
<1>5. CASE Crash(c)
  BY <1>5 DEF Crash, Running
<1> QED
  BY <1>1, <1>2, <1>3, <1>4, <1>5 DEF Step

(* What a call does to the table of recovery codes. *)
LEMMA RecoveryMoves ==
    ASSUME TypeInv, NEW c \in Calls, Step(c)
    PROVE  \/ UNCHANGED recovery
           \/ DeleteAllForUser /\ pc[c] \in {"prewipe", "wipe"}
           \/ \E k \in Codes : Spend(k) /\ pc[c] = "spend" /\ k = code[c]
           \/ /\ Minting(c) /\ minted[c] < BatchSize
              /\ Insert(c) /\ used' = used
              /\ \/ pc' = pc /\ minted'[c] = minted[c] + 1
                 \/ pc[c] = "premint" /\ pc'[c] = "wipe"
                 \/ pc[c] = "mint" /\ pc'[c] = "done"
<1> USE Moves DEF TypeInv, Types, LocalsOK
<1>1. ASSUME NEW t \in Tokens, Challenge(c, t) PROVE UNCHANGED recovery
  BY <1>1 DEF Challenge
<1>2. CASE Answering(c)
  BY <1>2 DEF CallInv, Answering, VerifyFactor, FindRecoveryCode, RejectFactor, VerifyFactorFails,
     SpendCode, SpendCodeFails, Consume, ConsumeFails, OpenForExistingUser, OpenFails,
     IncFailures, IncFailuresFails, Recheck, RecheckFails, Revoke, RevokeFails
<1>3. CASE Enrolling(c)
  BY <1>3 DEF Enrolling, EnrollTOTP, UpsertSecret, UpsertSecretFails, VerifyTOTP, ConfirmSecret,
     ConfirmSecretFails
<1>4. CASE Renewing(c)
  BY <1>4 DEF Renewing, RegenerateRecoveryCodes, Wipe, WipeFails, MintCode, MintCodeFails,
     ReturnCodes, GiveUp, Minting, recovery
<1>5. CASE Crash(c)
  BY <1>5 DEF Crash
<1> QED
  BY <1>1, <1>2, <1>3, <1>4, <1>5 DEF Step

(* Only a challenge that has looked a code up holds it. *)
LEMMA CodeMoves ==
    ASSUME TypeInv, NEW c \in Calls, Step(c)
    PROVE  \/ code'[c] = code[c]
           \/ FindRecoveryCode(c) /\ code'[c] \in unused /\ UNCHANGED recovery
<1> USE DEF TypeInv, Types, LocalsOK, local
<1>1. ASSUME NEW t \in Tokens, Challenge(c, t) PROVE code'[c] = code[c]
  BY <1>1 DEF Challenge
<1>2. CASE Answering(c)
  BY <1>2 DEF Answering, VerifyFactor, FindRecoveryCode, RejectFactor, VerifyFactorFails,
     SpendCode, SpendCodeFails, Consume, ConsumeFails, OpenForExistingUser, OpenFails,
     IncFailures, IncFailuresFails, Recheck, RecheckFails, Revoke, RevokeFails
<1>3. CASE Enrolling(c)
  BY <1>3 DEF Enrolling, EnrollTOTP, UpsertSecret, UpsertSecretFails, VerifyTOTP, ConfirmSecret,
     ConfirmSecretFails
<1>4. CASE Renewing(c)
  BY <1>4 DEF Renewing, RegenerateRecoveryCodes, Wipe, WipeFails, MintCode, MintCodeFails,
     ReturnCodes
<1>5. CASE Crash(c)
  BY <1>5 DEF Crash
<1> QED
  BY <1>1, <1>2, <1>3, <1>4, <1>5 DEF Step

LEMMA CodeParts ==
    ASSUME NEW k \in Codes
    PROVE  /\ k[1][1] = Initial \/ k[1][1] \in Calls
           /\ k[1] \in Batches /\ k[2] \in 1 .. BatchSize /\ k = <<k[1], k[2]>>
BY DEF Codes, Batches, Secrets

(* What is written stays so. *)
LEMMA WrittenStays ==
    ASSUME TypeInv, NEW c \in Calls, Step(c), NEW k \in Codes, Written(k)
    PROVE  Written(k)'
<1>1. CASE k[1][1] = Initial
  BY <1>1 DEF Written
<1>2. CASE k[1][1] = c
  <2>1. k[2] \in Nat /\ minted[c] \in Nat
    BY CodeParts, ConstantsAssumption DEF TypeInv, Types, LocalsOK
  <2> QED
    BY <1>2, <2>1, MintMoves DEF Written
<1>3. CASE k[1][1] \in Calls \ {c}
  BY <1>3, StepApart DEF Written, Apart, TypeInv
<1> QED
  BY <1>1, <1>2, <1>3, CodeParts

(* What a call inserts is new, and written from then on. *)
LEMMA InsertsNew ==
    ASSUME TypeInv, NEW c \in Calls, Minting(c), minted[c] < BatchSize,
           NEW k, k = <<Batch(c), minted[c] + 1>>
    PROVE  /\ k \in Codes /\ ~Written(k)
           /\ \/ pc' = pc /\ minted'[c] = minted[c] + 1
              \/ pc[c] = "premint" /\ pc'[c] = "wipe"
              \/ pc[c] = "mint" /\ pc'[c] = "done"
              => Written(k)'
<1>1. minted[c] \in Nat /\ minted[c] + 1 \in 1 .. BatchSize
  BY ConstantsAssumption DEF TypeInv, Types, LocalsOK
<1>2. k[1] = <<c, IF pc[c] = "premint" THEN "service" ELSE "handler">> /\ c # Initial
  BY ConstantsAssumption DEF Batch, Minting
<1>3. k \in Codes /\ k[2] = minted[c] + 1
  BY <1>1, CodesOfType
<1>4. k[1][1] = c /\ k[1][2] = IF pc[c] = "premint" THEN "service" ELSE "handler"
  BY <1>2
<1>5. ~Written(k)
  BY <1>1, <1>2, <1>3, <1>4 DEF Minting, Written
<1>6. ASSUME \/ pc' = pc /\ minted'[c] = minted[c] + 1
             \/ pc[c] = "premint" /\ pc'[c] = "wipe"
             \/ pc[c] = "mint" /\ pc'[c] = "done"
      PROVE  Written(k)'
  BY <1>1, <1>3, <1>4, <1>6 DEF Minting, Written
<1> QED
  BY <1>3, <1>5, <1>6

LEMMA CodesStep == TypeInv /\ CodesInv /\ [Next]_vars => CodesInv'
<1> SUFFICES ASSUME TypeInv, CodesInv, [Next]_vars PROVE CodesInv'
  OBVIOUS
<1>1. CASE UNCHANGED <<unused, used, pc, minted, code>>
  BY <1>1 DEF CodesInv, Written
<1>2. ASSUME NEW c \in Calls, Step(c) PROVE CodesInv'
  <2>1. /\ unused \subseteq Codes /\ used \subseteq Codes
        /\ \A x \in Calls : code[x] # None => code[x] \in Codes
    BY DEF TypeInv, Types, TablesOK, LocalsOK
  <2>2. \A k \in Codes : Written(k) => Written(k)'
    BY <1>2, WrittenStays
  <2>3. ASSUME NEW x \in Calls, code'[x] # None PROVE Written(code[x])'
    <3>1. PICK k : k = code'[x]
      OBVIOUS
    <3>2. code'[x] = code[x] \/ code'[x] \in unused
      BY <1>2, CodeMoves, StepApart DEF Apart, TypeInv
    <3>3. k \in Codes /\ Written(k)
      BY <2>1, <2>3, <3>1, <3>2 DEF CodesInv
    <3>4. Written(k)'
      BY <2>2, <3>3
    <3> QED
      BY <3>1, <3>4 DEF Written
  <2>4. used' \cap unused' = {} /\ \A k \in unused' \cup used' : Written(k)'
    <3>1. CASE UNCHANGED recovery
      BY <2>1, <2>2, <3>1 DEF CodesInv, recovery
    <3>2. CASE DeleteAllForUser
      BY <3>2 DEF DeleteAllForUser
    <3>3. CASE \E k \in Codes : Spend(k)
      BY <2>1, <2>2, <3>3 DEF CodesInv, Spend
    <3>4. CASE /\ Minting(c) /\ minted[c] < BatchSize
               /\ Insert(c) /\ used' = used
               /\ \/ pc' = pc /\ minted'[c] = minted[c] + 1
                  \/ pc[c] = "premint" /\ pc'[c] = "wipe"
                  \/ pc[c] = "mint" /\ pc'[c] = "done"
      <4>k. PICK k : k = <<Batch(c), minted[c] + 1>>
        OBVIOUS
      <4>1. ~Written(k) /\ Written(k)' /\ unused' = unused \cup {k}
        BY <3>4, <4>k, InsertsNew DEF Insert
      <4>2. k \notin used
        BY <4>1 DEF CodesInv
      <4> QED
        BY <2>1, <2>2, <3>4, <4>1, <4>2 DEF CodesInv
    <3> QED
      BY <1>2, <3>1, <3>2, <3>3, <3>4, RecoveryMoves
  <2> QED
    BY <2>3, <2>4 DEF CodesInv
<1>3. CASE Outside
  BY <1>1, <1>3 DEF Outside, DisableTOTP, BeginLogin, Expire, recovery, local
<1> QED
  BY <1>1, <1>2, <1>3, Steps DEF vars, recovery, local

-------------------------------------------------------------------------------
(* Counting challenges.                                                    *)

(* The calls on token t that stand at one of the statements L.             *)
At(t, L) == {c \in Calls : pc[c] \in L /\ token[c] = t}

(* After the increment of the counter.                                     *)
Counted == {"recheck", "revoke"}

LEMMA CallsFinite ==
    ASSUME NEW S \in SUBSET Calls
    PROVE  /\ IsFiniteSet(S) /\ Cardinality(S) \in Nat
           /\ Cardinality(S) <= Cardinality(Calls) /\ Cardinality(Calls) \in Nat
           /\ \A T \in SUBSET S : Cardinality(T) <= Cardinality(S)
           /\ S # {} => Cardinality(S) > 0
<1>1. IsFiniteSet(S) /\ Cardinality(S) <= Cardinality(Calls)
  BY ConstantsAssumption, FS_Subset
<1>2. Cardinality(S) \in Nat /\ Cardinality(Calls) \in Nat
  BY <1>1, ConstantsAssumption, FS_CardinalityType
<1>3. \A T \in SUBSET S : Cardinality(T) <= Cardinality(S)
  BY <1>1, FS_Subset
<1>4. S # {} => Cardinality(S) # 0
  BY <1>1, FS_EmptySet
<1> QED
  BY <1>1, <1>2, <1>3, <1>4

(* Sets that differ in one call at most. *)
LEMMA DifferInOne ==
    ASSUME NEW S \in SUBSET Calls, NEW T \in SUBSET Calls, NEW c \in Calls, S \ {c} = T \ {c}
    PROVE  Cardinality(T) + (IF c \in S THEN 1 ELSE 0) = Cardinality(S) + (IF c \in T THEN 1 ELSE 0)
<1>1. /\ IsFiniteSet(S \ {c}) /\ IsFiniteSet(S) /\ IsFiniteSet(T)
      /\ Cardinality(S \ {c}) \in Nat /\ Cardinality(S) \in Nat /\ Cardinality(T) \in Nat
  BY CallsFinite
<1>2. ASSUME NEW U \in {S, T} PROVE Cardinality(U) = Cardinality(S \ {c}) + (IF c \in U THEN 1 ELSE 0)
  <2>1. CASE c \in U
    <3>1. U = (S \ {c}) \cup {c} /\ c \notin S \ {c}
      BY <1>2, <2>1
    <3> QED
      BY <1>1, <2>1, <3>1, FS_AddElement
  <2>2. CASE c \notin U
    <3>1. U = S \ {c}
      BY <1>2, <2>2
    <3> QED
      BY <1>1, <2>2, <3>1
  <2> QED
    BY <2>1, <2>2
<1> QED
  BY <1>1, <1>2

LEMMA AtStep ==
    ASSUME TypeInv, NEW c \in Calls, Step(c), NEW t, NEW L
    PROVE  /\ Cardinality(At(t, L)) \in Nat /\ Cardinality(At(t, L)') \in Nat
           /\ Cardinality(At(t, L)') + (IF pc[c] \in L /\ token[c] = t THEN 1 ELSE 0)
                 = Cardinality(At(t, L)) + (IF pc'[c] \in L /\ token'[c] = t THEN 1 ELSE 0)
<1>1. Apart(c)
  BY StepApart DEF TypeInv
<1>2. At(t, L) \in SUBSET Calls /\ At(t, L)' \in SUBSET Calls
  BY DEF At
<1>3. At(t, L) \ {c} = At(t, L)' \ {c}
  BY <1>1 DEF At, Apart
<1>4. /\ c \in At(t, L) <=> pc[c] \in L /\ token[c] = t
      /\ c \in At(t, L)' <=> pc'[c] \in L /\ token'[c] = t
  BY DEF At
<1> QED
  BY <1>2, <1>3, <1>4, DifferInOne, CallsFinite


(* How a challenge goes through its statements, and what it writes.        *)
LEMMA ChallengeMoves ==
    ASSUME TypeInv, NEW c \in Calls, Step(c), pc[c] \in ChallengePCs
    PROVE  /\ token' = token /\ peak' = peak
           /\ pc[c] = "factor" => pc'[c] \in {"spend", "consume", "count", "done"}
           /\ pc[c] = "spend" => pc'[c] \in {"consume", "done"}
           /\ pc[c] = "consume" => pc'[c] \in {"open", "done"}
           /\ pc[c] = "count" => pc'[c] \in {"recheck", "done"}
           /\ pc[c] = "recheck" => pc'[c] \in {"revoke", "done"}
           /\ pc[c] \in {"open", "revoke"} => pc'[c] = "done"
           /\ pc[c] # "factor" => code' = code
           /\ tries' = IF pc'[c] = "count" THEN [tries EXCEPT ![token[c]] = @ + 1] ELSE tries
           /\ failed' = failed \/ ( /\ pc'[c] = "recheck"
                                    /\ failed' = [failed EXCEPT ![token[c]] = @ + 1] )
           /\ hindered \subseteq hindered' /\ consumed \subseteq consumed'
           /\ \/ revoked' = revoked
              \/ pc[c] = "revoke" /\ revoked' = revoked \cup {token[c]}
           /\ pc'[c] = "open" => token[c] \in consumed' \cup revoked'
           /\ \/ opened' = opened
              \/ pc[c] = "open" /\ opened' = [opened EXCEPT ![token[c]] = @ \cup {c}]
           /\ token[c] \notin hindered' =>
                /\ pc[c] = "count" => /\ pc'[c] = "recheck"
                                      /\ failed' = [failed EXCEPT ![token[c]] = @ + 1]
                /\ pc[c] = "recheck" => pc'[c] = IF Exhausted(token[c]) THEN "revoke" ELSE "done"
                /\ pc[c] = "revoke" => token[c] \in revoked'
<1> USE Moves DEF TypeInv, Types
<1>1. CASE Answering(c)
  <2> USE DEF pending, local, attempts
  <2>1. CASE VerifyFactor(c) \/ VerifyFactorFails(c) \/ RejectFactor(c) \/ FindRecoveryCode(c)
    BY <2>1 DEF VerifyFactor, VerifyFactorFails, RejectFactor, FindRecoveryCode
  <2>2. CASE SpendCode(c) \/ SpendCodeFails(c)
    BY <2>2 DEF SpendCode, SpendCodeFails
  <2>3. CASE Consume(c) \/ ConsumeFails(c)
    BY <2>3 DEF Consume, ConsumeFails, Consumed
  <2>4. CASE OpenForExistingUser(c) \/ OpenFails(c)
    BY <2>4 DEF OpenForExistingUser, OpenFails
  <2>5. CASE IncFailures(c) \/ IncFailuresFails(c)
    BY <2>5 DEF IncFailures, IncFailuresFails
  <2>6. CASE Recheck(c) \/ RecheckFails(c)
    BY <2>6 DEF Recheck, RecheckFails
  <2>7. CASE Revoke(c) \/ RevokeFails(c)
    BY <2>7 DEF Revoke, RevokeFails
  <2> QED
    BY <1>1, <2>1, <2>2, <2>3, <2>4, <2>5, <2>6, <2>7 DEF Answering
<1>2. CASE Crash(c)
  BY <1>2 DEF Crash, pending, ChallengePCs
<1>3. ~Enrolling(c) /\ ~Renewing(c) /\ \A t \in Tokens : ~Challenge(c, t)
  BY DEF ChallengePCs, Enrolling, EnrollTOTP, UpsertSecret, UpsertSecretFails, VerifyTOTP,
     ConfirmSecret, ConfirmSecretFails, Renewing, RegenerateRecoveryCodes, Wipe, WipeFails,
     MintCode, MintCodeFails, ReturnCodes, Minting, Challenge
<1> QED
  BY <1>1, <1>2, <1>3 DEF Step

(* The other steps of a call: an admission, or nothing a challenge sees.   *)
Admits(c, t) ==
    /\ pc[c] = "idle" /\ pc'[c] = "factor" /\ token'[c] = t
    /\ Usable(t) /\ revoked' = revoked
    /\ peak' = [peak EXCEPT ![t] = IF Concurrent(t) > @ THEN Concurrent(t) ELSE @]

LEMMA OtherMoves ==
    ASSUME TypeInv, NEW c \in Calls, Step(c), pc[c] \notin ChallengePCs
    PROVE  /\ UNCHANGED <<failed, tries, hindered, consumed, opened, code>>
           /\ pc[c] # "done"
           /\ \/ pc'[c] \notin ChallengePCs /\ peak' = peak /\ revoked \subseteq revoked'
              \/ \E t \in Tokens : Admits(c, t)
<1> USE Moves DEF TypeInv, Types, pending, local, attempts
<1>1. ASSUME NEW t \in Tokens, Challenge(c, t)
      PROVE  /\ UNCHANGED <<failed, tries, hindered, consumed, opened, code>>
             /\ pc[c] # "done"
             /\ \/ pc'[c] \notin ChallengePCs /\ peak' = peak /\ revoked \subseteq revoked'
                \/ Admits(c, t)
  BY <1>1 DEF Challenge, Admits, ChallengePCs, LocalsOK
<1>2. ~Answering(c)
  BY DEF ChallengePCs, Answering, VerifyFactor, FindRecoveryCode, RejectFactor,
     VerifyFactorFails, SpendCode, SpendCodeFails, Consume, ConsumeFails, OpenForExistingUser,
     OpenFails, IncFailures, IncFailuresFails, Recheck, RecheckFails, Revoke, RevokeFails
<1>3. CASE Enrolling(c)
  BY <1>3 DEF ChallengePCs, Enrolling, EnrollTOTP, UpsertSecret, UpsertSecretFails, VerifyTOTP,
     ConfirmSecret, ConfirmSecretFails
<1>4. CASE Renewing(c)
  BY <1>4 DEF ChallengePCs, Renewing, RegenerateRecoveryCodes, Wipe, WipeFails, MintCode,
     MintCodeFails, ReturnCodes, GiveUp, Minting
<1>5. CASE Crash(c)
  BY <1>5 DEF Crash, ChallengePCs, Running
<1> QED
  BY <1>1, <1>2, <1>3, <1>4, <1>5 DEF Step

(* A step outside the calls touches no counter, nor what a challenge did.  *)
LEMMA OutsideMoves ==
    ASSUME Outside
    PROVE  /\ UNCHANGED <<failed, tries, peak, hindered, consumed, revoked, opened, shared>>
           /\ UNCHANGED <<pc, token, code, read, minted, unused, used, handed, dirty>>
BY DEF Outside, DisableTOTP, BeginLogin, Expire, pending, recovery, local, attempts, history

(* A counter has not been raised by more calls than have got that far.     *)
BoundInv ==
    \A t \in Tokens :
        /\ failed[t] <= Cardinality(At(t, Counted \cup {"done"}))
        /\ tries[t] <= Cardinality(At(t, Counted \cup {"count", "done"}))
        /\ peak[t] <= Cardinality(Calls)

LEMMA BoundInit == Init => BoundInv
<1> SUFFICES ASSUME Init, NEW t \in Tokens
             PROVE  /\ failed[t] = 0 /\ tries[t] = 0 /\ peak[t] = 0
                    /\ \A L : Cardinality(At(t, L)) \in Nat
                    /\ Cardinality(Calls) \in Nat
  BY DEF BoundInv
<1> QED
  BY CallsFinite DEF Init, At

LEMMA AdmittedWithinCalls ==
    ASSUME NEW c \in Calls, NEW t, pc[c] = "idle"
    PROVE  Concurrent(t) \in Nat /\ Concurrent(t) <= Cardinality(Calls)
<1>1. ChallengesOf(t) \in SUBSET Calls /\ c \notin ChallengesOf(t)
  BY DEF ChallengesOf, ChallengePCs
<1>2. Cardinality(ChallengesOf(t) \cup {c}) = Concurrent(t)
  BY <1>1, CallsFinite, FS_AddElement DEF Concurrent
<1> QED
  BY <1>1, <1>2, CallsFinite

LEMMA BoundStep == TypeInv /\ BoundInv /\ [Next]_vars => BoundInv'
<1> SUFFICES ASSUME TypeInv, BoundInv, [Next]_vars PROVE BoundInv'
  OBVIOUS
<1>1. CASE UNCHANGED <<failed, tries, peak, pc, token>>
  BY <1>1 DEF BoundInv, At
<1>2. ASSUME NEW c \in Calls, Step(c) PROVE BoundInv'
  <2> SUFFICES ASSUME NEW t \in Tokens
               PROVE  /\ failed'[t] <= Cardinality(At(t, Counted \cup {"done"})')
                      /\ tries'[t] <= Cardinality(At(t, Counted \cup {"count", "done"})')
                      /\ peak'[t] <= Cardinality(Calls)
    BY DEF BoundInv
  <2>1. /\ failed[t] <= Cardinality(At(t, Counted \cup {"done"}))
        /\ tries[t] <= Cardinality(At(t, Counted \cup {"count", "done"}))
        /\ peak[t] <= Cardinality(Calls)
        /\ failed[t] \in Nat /\ tries[t] \in Nat
    BY DEF BoundInv, TypeInv, Types, TablesOK, HistoryOK
  <2>2. \A L : /\ Cardinality(At(t, L)) \in Nat /\ Cardinality(At(t, L)') \in Nat
               /\ Cardinality(At(t, L)') + (IF pc[c] \in L /\ token[c] = t THEN 1 ELSE 0)
                     = Cardinality(At(t, L)) + (IF pc'[c] \in L /\ token'[c] = t THEN 1 ELSE 0)
    BY <1>2, AtStep
  <2>3. CASE pc[c] \in ChallengePCs
    <3>1. /\ token'[c] = token[c] /\ peak' = peak
          /\ pc[c] \in Counted \cup {"done"} => pc'[c] \in Counted \cup {"done"}
          /\ pc[c] \in Counted \cup {"count", "done"} => pc'[c] \in Counted \cup {"count", "done"}
          /\ pc'[c] = "count" => pc[c] \notin Counted \cup {"count", "done"}
          /\ pc'[c] = "recheck" => pc[c] \notin Counted \cup {"done"}
      BY <1>2, <2>3, ChallengeMoves DEF ChallengePCs, Counted
    <3>2. /\ tries'[t] = IF pc'[c] = "count" /\ token[c] = t THEN tries[t] + 1 ELSE tries[t]
          /\ \/ failed'[t] = failed[t]
             \/ pc'[c] = "recheck" /\ token[c] = t /\ failed'[t] = failed[t] + 1
      BY <1>2, <2>3, ChallengeMoves DEF TypeInv, Types, TablesOK, HistoryOK
    <3>3. failed'[t] <= Cardinality(At(t, Counted \cup {"done"})')
      BY <2>1, <2>2, <3>1, <3>2 DEF Counted
    <3>4. tries'[t] <= Cardinality(At(t, Counted \cup {"count", "done"})')
      BY <2>1, <2>2, <3>1, <3>2 DEF Counted
    <3> QED
      BY <2>1, <3>1, <3>3, <3>4
  <2>4. CASE pc[c] \notin ChallengePCs
    <3>1. failed' = failed /\ tries' = tries /\ pc[c] \notin Counted \cup {"count", "done"}
      BY <1>2, <2>4, OtherMoves DEF Counted, ChallengePCs
    <3>2. peak'[t] <= Cardinality(Calls)
      BY <1>2, <2>1, <2>4, OtherMoves, AdmittedWithinCalls
      DEF Admits, TypeInv, Types, HistoryOK
    <3> QED
      BY <2>1, <2>2, <3>1, <3>2
  <2> QED
    BY <2>3, <2>4
<1>3. CASE Outside
  BY <1>1, <1>3, OutsideMoves
<1> QED
  BY <1>1, <1>2, <1>3, Steps DEF vars, pending, local, attempts

LEMMA TypeOKInv == TypeInv /\ CodesInv /\ BoundInv => TypeOK
<1> SUFFICES ASSUME TypeInv, CodesInv, BoundInv PROVE TypeOK
  OBVIOUS
<1>1. ASSUME NEW t \in Tokens
      PROVE  {failed[t], tries[t], peak[t]} \subseteq 0 .. Cardinality(Calls)
  <2>1. \A L : /\ Cardinality(At(t, L)) \in Nat
               /\ Cardinality(At(t, L)) <= Cardinality(Calls) /\ Cardinality(Calls) \in Nat
    BY CallsFinite DEF At
  <2> QED
    BY <2>1 DEF BoundInv, TypeInv, Types, TablesOK, HistoryOK
<1>2. /\ failed \in [Tokens -> 0 .. Cardinality(Calls)]
      /\ tries \in [Tokens -> 0 .. Cardinality(Calls)]
      /\ peak \in [Tokens -> 0 .. Cardinality(Calls)]
  BY <1>1 DEF TypeInv, Types, TablesOK, HistoryOK
<1> QED
  BY <1>2 DEF TypeOK, TypeInv, CodesInv, Types, TablesOK, ControlOK, LocalsOK, HistoryOK, CallInv

LEMMA CodesInit == Init => CodesInv
<1>1. \A b, k : k \in CodesOf(b) => k[1] = b
  BY DEF CodesOf
<1> QED
  BY <1>1 DEF Init, CodesInv, Written, InitialBatch

(* The tables, the local state of the calls and the history keep their     *)
(* types, and no counter exceeds the number of calls.                      *)
THEOREM TypeCorrect == Spec => []TypeOK
<1>1. Init => TypeInv /\ CodesInv /\ BoundInv
  BY TypesInit, CodesInit, BoundInit
<1>2. TypeInv /\ CodesInv /\ BoundInv /\ [Next]_vars => (TypeInv /\ CodesInv /\ BoundInv)'
  BY TypesStep, CodesStep, BoundStep
<1> QED
  BY <1>1, <1>2, TypeOKInv, PTL DEF Spec

-------------------------------------------------------------------------------
(* Enrolment: a verification in progress confirms a secret that the user   *)
(* has typed a code of or that replaced one, and an enrolment in progress  *)
(* does not find its factor confirmed by any but such a verification.      *)
ConfirmInv ==
    /\ ConfirmedWasProved
    /\ \A c \in Calls :
          /\ pc[c] = "confirm" => secret \in proved \cup raced \cup {Initial, None}
          /\ confirmed /\ pc[c] = "upsert" => c \in behind

(* What a call does to the secret. *)
LEMMA SecretMoves ==
    ASSUME TypeInv, NEW c \in Calls, Step(c)
    PROVE  /\ proved \subseteq proved' /\ raced \subseteq raced' /\ behind \subseteq behind'
           /\ \/ UNCHANGED totp
              \/ /\ pc[c] = "upsert" /\ pc'[c] = "done" /\ secret' = c /\ confirmed' = FALSE
                 /\ (\E d \in Calls : pc[d] = "confirm") => c \in raced'
              \/ /\ pc[c] = "confirm" /\ secret' = secret /\ (confirmed' => secret # None)
                 /\ \A d \in Calls : pc[d] = "upsert" => d \in behind'
           /\ pc'[c] = "confirm" => secret \in proved' /\ UNCHANGED totp
           /\ pc'[c] = "upsert" => ~confirmed /\ UNCHANGED totp
<1> USE Moves DEF TypeInv, Types
<1>1. ASSUME NEW t \in Tokens, Challenge(c, t)
      PROVE  UNCHANGED <<totp, proved, raced, behind>> /\ pc'[c] \in {"factor", "done"}
  BY <1>1 DEF Challenge, history
<1>2. CASE Answering(c)
  <2>1. UNCHANGED <<totp, proved, raced, behind>>
    BY <1>2 DEF Answering, VerifyFactor, FindRecoveryCode, RejectFactor, VerifyFactorFails,
       SpendCode, SpendCodeFails, Consume, ConsumeFails, OpenForExistingUser, OpenFails,
       IncFailures, IncFailuresFails, Recheck, RecheckFails, Revoke, RevokeFails, history
  <2>2. pc[c] \in ChallengePCs
    BY <1>2 DEF Answering, VerifyFactor, FindRecoveryCode, RejectFactor, VerifyFactorFails,
       SpendCode, SpendCodeFails, Consume, ConsumeFails, OpenForExistingUser, OpenFails,
       IncFailures, IncFailuresFails, Recheck, RecheckFails, Revoke, RevokeFails, ChallengePCs
  <2>3. pc'[c] \notin {"confirm", "upsert"}
    BY <1>2, <2>2, ChallengeMoves DEF ChallengePCs, Step
  <2> QED
    BY <2>1, <2>3
<1>3. CASE Enrolling(c)
  <2>1. CASE EnrollTOTP(c)
    BY <2>1 DEF EnrollTOTP, Enrollable, TablesOK, history
  <2>2. CASE UpsertSecret(c) \/ UpsertSecretFails(c)
    BY <2>2 DEF UpsertSecret, UpsertSecretFails, Upsert
  <2>3. CASE VerifyTOTP(c)
    BY <2>3 DEF VerifyTOTP
  <2>4. CASE ConfirmSecret(c) \/ ConfirmSecretFails(c)
    <3>1. Confirm \/ UNCHANGED <<totp, raced, behind>>
      BY <2>4 DEF ConfirmSecret, ConfirmSecretFails
    <3>2. UNCHANGED proved /\ pc[c] = "confirm" /\ pc'[c] \in {"prewipe", "done"}
      BY <2>4 DEF ConfirmSecret, ConfirmSecretFails
    <3> QED
      BY <3>1, <3>2 DEF Confirm
  <2> QED
    BY <1>3, <2>1, <2>2, <2>3, <2>4 DEF Enrolling
<1>4. CASE Renewing(c)
  BY <1>4 DEF Renewing, RegenerateRecoveryCodes, Wipe, WipeFails, MintCode, MintCodeFails,
     ReturnCodes, GiveUp, Minting, history
<1>5. CASE Crash(c)
  BY <1>5 DEF Crash
<1> QED
  BY <1>1, <1>2, <1>3, <1>4, <1>5 DEF Step

LEMMA ConfirmStep ==
    TypeInv /\ ConfirmInv /\ [Next]_vars =>
        /\ ConfirmInv'
        /\ confirmed /\ secret' \notin {secret, None} => secret' \in behind
<1> SUFFICES ASSUME TypeInv, ConfirmInv, [Next]_vars
             PROVE  /\ ConfirmInv'
                    /\ confirmed /\ secret' \notin {secret, None} => secret' \in behind
  OBVIOUS
<1>1. CASE UNCHANGED <<totp, pc, proved, raced, behind>>
  BY <1>1 DEF totp, ConfirmInv, ConfirmedWasProved
<1>2. ASSUME NEW c \in Calls, Step(c)
      PROVE  /\ ConfirmInv'
             /\ confirmed /\ secret' \notin {secret, None} => secret' \in behind
  <2>1. Apart(c)
    BY <1>2, StepApart DEF TypeInv
  <2>2. /\ proved \subseteq proved' /\ raced \subseteq raced' /\ behind \subseteq behind'
        /\ pc'[c] = "confirm" => secret \in proved' /\ UNCHANGED totp
        /\ pc'[c] = "upsert" => ~confirmed /\ UNCHANGED totp
    BY <1>2, SecretMoves
  <2>3. CASE UNCHANGED totp
    BY <2>1, <2>2, <2>3 DEF totp, ConfirmInv, ConfirmedWasProved, Apart
  <2>4. CASE /\ pc[c] = "upsert" /\ pc'[c] = "done" /\ secret' = c /\ confirmed' = FALSE
             /\ (\E d \in Calls : pc[d] = "confirm") => c \in raced'
    BY <2>1, <2>4 DEF ConfirmInv, ConfirmedWasProved, Apart
  <2>5. CASE /\ pc[c] = "confirm" /\ secret' = secret /\ (confirmed' => secret # None)
             /\ \A d \in Calls : pc[d] = "upsert" => d \in behind'
    BY <2>1, <2>2, <2>5 DEF totp, ConfirmInv, ConfirmedWasProved, Apart
  <2> QED
    BY <1>2, <2>3, <2>4, <2>5, SecretMoves
<1>3. CASE Outside
  <2>1. pc' = pc /\ proved' = proved /\ raced' = raced /\ behind' = behind
    BY <1>3 DEF Outside, DisableTOTP, BeginLogin, Expire, history
  <2>2. UNCHANGED totp \/ (secret' = None /\ confirmed' = FALSE)
    BY <1>3 DEF Outside, DisableTOTP, BeginLogin, Expire
  <2> QED
    BY <1>1, <2>1, <2>2 DEF ConfirmInv, ConfirmedWasProved
<1> QED
  BY <1>1, <1>2, <1>3, Steps DEF vars, history

LEMMA ConfirmInit == Init => ConfirmInv
BY DEF Init, ConfirmInv, ConfirmedWasProved

(* A confirmed secret is one the user has typed a code of, unless an       *)
(* enrolment replaced the secret of a running verification.                *)
THEOREM ConfirmedProved == Spec => []ConfirmedWasProved
<1>1. ConfirmInv => ConfirmedWasProved
  BY DEF ConfirmInv
<1> QED
  BY <1>1, TypesInit, ConfirmInit, TypesStep, ConfirmStep, PTL DEF Spec

(* A confirmed secret is disabled before it is replaced, unless it was     *)
(* confirmed in the middle of the enrolment.                               *)
THEOREM ConfirmedKept == Spec => ConfirmedStays
<1>1. TypeInv /\ ConfirmInv /\ [Next]_vars =>
         [confirmed /\ secret' \notin {secret, None} => secret' \in behind]_vars
  BY ConfirmStep
<1>2. TypeInv /\ ConfirmInv /\ [Next]_vars => (TypeInv /\ ConfirmInv)'
  BY TypesStep, ConfirmStep
<1> QED
  BY <1>1, <1>2, TypesInit, ConfirmInit, PTL DEF Spec, ConfirmedStays

-------------------------------------------------------------------------------
(* Batches: while nothing has befallen it, the last minting is the only    *)
(* one, and the table holds what it has inserted, then its whole batch.    *)
Part(b, n) == {b} \X (1 .. n)

BatchInv ==
    ~dirty =>
        /\ \A c, d \in Calls : Minting(c) /\ Minting(d) => c = d
        /\ \A c \in Calls : Minting(c) => unused \cup used = Part(Batch(c), minted[c])
        /\ (\A c \in Calls : ~Minting(c)) =>
              \/ unused \cup used = {}
              \/ \E b \in handed : unused \cup used = CodesOf(b)
              \/ \E c \in Calls : Unreturned(c) /\ unused \cup used = CodesOf(<<c, "service">>)

LEMMA Parts ==
    ASSUME NEW b
    PROVE  /\ Part(b, 0) = {} /\ Part(b, BatchSize) = CodesOf(b)
           /\ \A n \in Nat : Part(b, n + 1) = Part(b, n) \cup {<<b, n + 1>>}
<1>1. Part(b, 0) = {} /\ Part(b, BatchSize) = CodesOf(b)
  BY DEF Part, CodesOf
<1>2. ASSUME NEW n \in Nat PROVE Part(b, n + 1) = Part(b, n) \cup {<<b, n + 1>>}
  <2>1. 1 .. (n + 1) = (1 .. n) \cup {n + 1}
    OBVIOUS
  <2> QED
    BY <2>1 DEF Part
<1> QED
  BY <1>1, <1>2

(* A step that neither mints nor wipes leaves the table as it was. *)
LEMMA BatchQuiet ==
    ASSUME BatchInv, NEW c \in Calls, Apart(c), dirty' = dirty, handed' = handed,
           unused' \cup used' = unused \cup used,
           ~Minting(c), ~Minting(c)', ~dirty' => ~Unreturned(c)
    PROVE  BatchInv'
<1>1. \A x \in Calls : /\ Minting(x)' <=> Minting(x)
                       /\ x # c => (Unreturned(x)' <=> Unreturned(x)) /\ Batch(x)' = Batch(x)
                                   /\ minted'[x] = minted[x]
  BY DEF Minting, Apart, Unreturned, Batch
<1> QED
  BY <1>1 DEF BatchInv, Part

LEMMA AnsweringBatch ==
    ASSUME TypeInv, NEW c \in Calls,
           (\E t \in Tokens : Challenge(c, t)) \/ Answering(c) \/ Enrolling(c)
    PROVE  /\ dirty' = dirty /\ handed' = handed /\ unused' \cup used' = unused \cup used
           /\ ~Minting(c) /\ ~Minting(c)' /\ ~Unreturned(c)
<1>1. ASSUME NEW t \in Tokens, Challenge(c, t)
      PROVE  UNCHANGED <<dirty, handed, recovery>> /\ pc[c] = "idle" /\ pc'[c] \in {"factor", "done"}
  BY <1>1, Moves DEF Challenge, history, TypeInv, Types
<1>2. CASE Answering(c)
  <2>1. dirty' = dirty /\ handed' = handed /\ (UNCHANGED recovery \/ \E k : Spend(k))
    BY <1>2 DEF Answering, VerifyFactor, FindRecoveryCode, RejectFactor, VerifyFactorFails,
       SpendCode, SpendCodeFails, Consume, ConsumeFails, OpenForExistingUser, OpenFails,
       IncFailures, IncFailuresFails, Recheck, RecheckFails, Revoke, RevokeFails, history
  <2>2. pc[c] \in ChallengePCs
    BY <1>2 DEF Answering, VerifyFactor, FindRecoveryCode, RejectFactor, VerifyFactorFails,
       SpendCode, SpendCodeFails, Consume, ConsumeFails, OpenForExistingUser, OpenFails,
       IncFailures, IncFailuresFails, Recheck, RecheckFails, Revoke, RevokeFails, ChallengePCs
  <2>3. pc'[c] \notin {"premint", "mint"}
    BY <1>2, <2>2, ChallengeMoves DEF ChallengePCs, Step
  <2>4. unused' \cup used' = unused \cup used
    BY <2>1 DEF Spend, recovery
  <2> QED
    BY <2>1, <2>2, <2>3, <2>4 DEF Minting, Unreturned, ChallengePCs
<1>3. CASE Enrolling(c)
  <2>1. UNCHANGED <<dirty, handed, recovery>>
    BY <1>3 DEF Enrolling, EnrollTOTP, UpsertSecret, UpsertSecretFails, VerifyTOTP,
       ConfirmSecret, ConfirmSecretFails, history
  <2>2. pc[c] \in {"idle", "upsert", "confirm"} /\ pc'[c] \notin {"premint", "mint"}
    BY <1>3, Moves DEF Enrolling, EnrollTOTP, UpsertSecret, UpsertSecretFails, VerifyTOTP,
       ConfirmSecret, ConfirmSecretFails, TypeInv, Types
  <2> QED
    BY <2>1, <2>2 DEF recovery, Minting, Unreturned
<1> QED
  BY <1>1, <1>2, <1>3 DEF recovery, Minting, Unreturned

LEMMA RenewingBatch ==
    ASSUME TypeInv, BatchInv, NEW c \in Calls, Renewing(c)
    PROVE  BatchInv'
<1> USE DEF TypeInv, Types
<1>1. Apart(c)
  BY StepApart DEF Step
<1>2. minted[c] \in Nat /\ (minted[c] # 0 => Minting(c))
  BY ConstantsAssumption DEF CallInv, LocalsOK
<1>3. CASE RegenerateRecoveryCodes(c)
  <2>1. dirty' = dirty /\ handed' = handed /\ UNCHANGED recovery
    BY <1>3 DEF RegenerateRecoveryCodes, history
  <2>2. ~Minting(c) /\ ~Minting(c)' /\ ~Unreturned(c)
    BY <1>3, Moves DEF RegenerateRecoveryCodes, Minting, Unreturned
  <2> QED
    BY <1>1, <2>1, <2>2, BatchQuiet DEF recovery
<1>4. CASE Wipe(c)
  <2>1. /\ unused' = {} /\ used' = {} /\ minted' = minted /\ ~Minting(c) /\ Minting(c)'
        /\ ~dirty' => \A x \in Calls : ~Minting(x)
    BY <1>4, Moves DEF Wipe, DeleteAllForUser, MintingCalls, Minting, local
  <2>2. \A x \in Calls \ {c} : Minting(x)' <=> Minting(x)
    BY <1>1 DEF Apart, Minting
  <2>3. Part(Batch(c), minted[c])' = {}
    BY <1>2, <2>1 DEF Part
  <2> QED
    BY <2>1, <2>2, <2>3 DEF BatchInv
<1>5. CASE WipeFails(c)
  <2>1. CASE dirty'
    BY <2>1 DEF BatchInv
  <2>2. CASE ~dirty'
    <3>1. UNCHANGED recovery /\ ~dirty /\ ~Unreturned(c) /\ handed' = handed
      BY <1>5, <2>2 DEF WipeFails
    <3>2. ~Minting(c) /\ ~Minting(c)'
      BY <1>5, Moves DEF WipeFails, GiveUp, Minting
    <3>3. dirty' = dirty
      BY <1>5, <2>2, <3>1 DEF WipeFails, TablesOK, HistoryOK
    <3> QED
      BY <1>1, <3>1, <3>2, <3>3, BatchQuiet DEF recovery
  <2> QED
    BY <2>1, <2>2
<1>6. CASE MintCode(c)
  <2>1. /\ Minting(c) /\ dirty' = dirty /\ pc' = pc /\ used' = used
        /\ unused' = unused \cup {<<Batch(c), minted[c] + 1>>} /\ minted'[c] = minted[c] + 1
    BY <1>6 DEF MintCode, Insert, history, LocalsOK
  <2>2. \A x \in Calls : (Minting(x)' <=> Minting(x)) /\ Batch(x)' = Batch(x)
    BY <2>1 DEF Minting, Batch
  <2>3. Part(Batch(c), minted[c])' = Part(Batch(c), minted[c]) \cup {<<Batch(c), minted[c] + 1>>}
    BY <1>2, <2>1, <2>2, Parts
  <2> QED
    BY <2>1, <2>2, <2>3 DEF BatchInv
<1>7. CASE MintCodeFails(c)
  BY <1>7 DEF MintCodeFails, BatchInv
<1>8. CASE ReturnCodes(c)
  <2>1. /\ Minting(c) /\ minted[c] = BatchSize /\ dirty' = dirty /\ unused' = unused /\ used' = used
        /\ ~Minting(c)' /\ handed \subseteq handed'
    BY <1>8, Moves DEF ReturnCodes, Minting, history, recovery
  <2>2. \A x \in Calls \ {c} : Minting(x)' <=> Minting(x)
    BY <1>1 DEF Apart, Minting
  <2>3. \/ Unreturned(c)' /\ Batch(c) = <<c, "service">>
        \/ Batch(c) \in handed'
    BY <1>8, Moves DEF ReturnCodes, Unreturned, Batch, CallInv
  <2>4. ~dirty => unused \cup used = CodesOf(Batch(c)) /\ \A x \in Calls \ {c} : ~Minting(x)
    BY <2>1, Parts DEF BatchInv
  <2> QED
    BY <2>1, <2>2, <2>3, <2>4 DEF BatchInv
<1> QED
  BY <1>3, <1>4, <1>5, <1>6, <1>7, <1>8 DEF Renewing

LEMMA BatchStep == TypeInv /\ BatchInv /\ [Next]_vars => BatchInv'
<1> SUFFICES ASSUME TypeInv, BatchInv, [Next]_vars PROVE BatchInv'
  OBVIOUS
<1>1. CASE UNCHANGED <<unused, used, pc, read, minted, handed, dirty>>
  BY <1>1 DEF BatchInv, Minting, Unreturned, Batch, Part
<1>2. ASSUME NEW c \in Calls, Step(c) PROVE BatchInv'
  <2>1. Apart(c)
    BY <1>2, StepApart DEF TypeInv
  <2>2. CASE (\E t \in Tokens : Challenge(c, t)) \/ Answering(c) \/ Enrolling(c)
    BY <2>1, <2>2, AnsweringBatch, BatchQuiet
  <2>3. CASE Crash(c)
    <3>1. CASE dirty'
      BY <3>1 DEF BatchInv
    <3>2. CASE ~dirty'
      <4>1. ~dirty /\ ~Minting(c) /\ ~Unreturned(c) /\ UNCHANGED <<recovery, handed>>
        BY <2>3, <3>2 DEF Crash
      <4>2. ~Minting(c)'
        BY <2>3, Moves DEF Crash, Minting, TypeInv, Types
      <4>3. dirty' = dirty
        BY <2>3, <3>2, <4>1 DEF Crash, TypeInv, Types, HistoryOK
      <4> QED
        BY <2>1, <4>1, <4>2, <4>3, BatchQuiet DEF recovery
    <3> QED
      BY <3>1, <3>2
  <2> QED
    BY <1>2, <2>2, <2>3, RenewingBatch DEF Step
<1>3. CASE Outside
  BY <1>1, <1>3, OutsideMoves
<1> QED
  BY <1>1, <1>2, <1>3, Steps DEF vars, recovery, local, history

LEMMA BatchInit == Init => BatchInv
BY DEF Init, BatchInv, Minting

(* When no call is minting, the recovery codes are one whole batch that    *)
(* the user was given, unless the last minting failed or was overlapped.   *)
THEOREM BatchesWhole == Spec => []OneBatch
<1>1. BatchInv => OneBatch
  BY DEF BatchInv, OneBatch, Minting, Unreturned, MintPCs
<1> QED
  BY <1>1, TypesInit, BatchInit, TypesStep, BatchStep, PTL DEF Spec

-------------------------------------------------------------------------------
(* Sessions.  A token that a challenge has opened a session on, or is      *)
(* about to, admits no other: its row is consumed, or it was revoked.      *)
Admitted(t) == opened[t] \cup ChallengesOf(t)

PeakInv ==
    \A t \in Tokens :
        /\ \A c \in opened[t] : pc[c] = "done" /\ token[c] = t
        /\ Cardinality(Admitted(t)) <= peak[t]
        /\ opened[t] # {} => t \in consumed \cup revoked
        /\ \A c \in Calls : pc[c] = "open" /\ token[c] = t => t \in consumed \cup revoked

LEMMA PeakInit == Init => PeakInv
<1> SUFFICES ASSUME Init PROVE PeakInv
  OBVIOUS
<1>1. ASSUME NEW t \in Tokens PROVE Admitted(t) = {}
  BY DEF Init, Admitted, ChallengesOf, ChallengePCs
<1> QED
  BY <1>1, FS_EmptySet DEF Init, PeakInv

LEMMA AdmitPeak ==
    ASSUME TypeInv, PeakInv, NEW c \in Calls, Apart(c), NEW u \in Tokens, Admits(c, u),
           UNCHANGED <<consumed, opened>>
    PROVE  PeakInv'
<1>1. /\ pc[c] = "idle" /\ pc'[c] = "factor" /\ revoked' = revoked /\ u \notin consumed \cup revoked
      /\ token'[c] = u
  BY DEF Admits, Usable
<1>2. \A t \in Tokens : /\ peak[t] \in Nat /\ opened[t] \in SUBSET Calls
                        /\ ChallengesOf(t) \in SUBSET Calls /\ Admitted(t) \in SUBSET Calls
  BY DEF TypeInv, Types, HistoryOK, ChallengesOf, Admitted
<1>3. ASSUME NEW t \in Tokens PROVE Cardinality(Admitted(t)') <= peak'[t]
  <2>1. CASE t = u
    <3>1. opened[t] = {} /\ c \notin ChallengesOf(t)
      BY <1>1, <2>1 DEF PeakInv, ChallengesOf, ChallengePCs
    <3>2. Admitted(t)' = ChallengesOf(t) \cup {c}
      BY <1>1, <2>1, <3>1 DEF Admitted, ChallengesOf, Apart, ChallengePCs
    <3>3. Cardinality(ChallengesOf(t) \cup {c}) = Concurrent(t) /\ Concurrent(t) \in Nat
      BY <1>2, <3>1, CallsFinite, FS_AddElement DEF Concurrent
    <3>4. peak'[t] = IF Concurrent(t) > peak[t] THEN Concurrent(t) ELSE peak[t]
      BY <2>1 DEF Admits, TypeInv, Types, HistoryOK
    <3> QED
      BY <1>2, <3>2, <3>3, <3>4
  <2>2. CASE t # u
    <3>1. Admitted(t)' = Admitted(t)
      BY <1>1, <2>2 DEF Admitted, ChallengesOf, Apart, ChallengePCs
    <3>2. peak'[t] = peak[t]
      BY <2>2 DEF Admits, TypeInv, Types, HistoryOK
    <3> QED
      BY <3>1, <3>2 DEF PeakInv
  <2> QED
    BY <2>1, <2>2
<1>4. ASSUME NEW t \in Tokens
      PROVE  /\ \A x \in opened'[t] : pc'[x] = "done" /\ token'[x] = t
             /\ opened'[t] # {} => t \in consumed' \cup revoked'
             /\ \A x \in Calls : pc'[x] = "open" /\ token'[x] = t => t \in consumed' \cup revoked'
  BY <1>1, <1>2 DEF PeakInv, Apart
<1> QED
  BY <1>3, <1>4 DEF PeakInv

LEMMA PeakStep == TypeInv /\ PeakInv /\ [Next]_vars => PeakInv'
<1> SUFFICES ASSUME TypeInv, PeakInv, [Next]_vars PROVE PeakInv'
  OBVIOUS
<1>1. CASE UNCHANGED <<pc, token, opened, peak, consumed, revoked>>
  BY <1>1 DEF PeakInv, Admitted, ChallengesOf
<1>2. ASSUME NEW c \in Calls, Step(c) PROVE PeakInv'
  <2>1. Apart(c) /\ opened \in [Tokens -> SUBSET Calls]
    BY <1>2, StepApart DEF TypeInv, Types, HistoryOK
  <2>2. CASE pc[c] \in ChallengePCs
    <3>1. /\ token' = token /\ peak' = peak /\ consumed \subseteq consumed' /\ revoked \subseteq revoked'
          /\ pc'[c] = "open" => token[c] \in consumed' \cup revoked'
          /\ token[c] \in Tokens /\ pc[c] # "done"
      BY <1>2, <2>2, ChallengeMoves DEF TypeInv, Types, TablesOK, CallInv, ChallengePCs
    <3>2. ASSUME NEW t \in Tokens
          PROVE  /\ \A x \in opened'[t] : pc'[x] = "done" /\ token'[x] = t
                 /\ opened'[t] # {} => t \in consumed' \cup revoked'
                 /\ Admitted(t)' \subseteq Admitted(t)
      <4>1. CASE opened' = opened
        BY <2>1, <2>2, <3>1, <4>1 DEF PeakInv, Apart, Admitted, ChallengesOf
      <4>2. CASE pc[c] = "open" /\ opened' = [opened EXCEPT ![token[c]] = @ \cup {c}]
        <5>1. pc'[c] = "done" /\ token[c] \in consumed \cup revoked
          BY <1>2, <2>2, <3>1, <4>2, ChallengeMoves DEF PeakInv
        <5> QED
          BY <2>1, <2>2, <3>1, <4>2, <5>1 DEF PeakInv, Apart, Admitted, ChallengesOf
      <4> QED
        BY <1>2, <2>2, <4>1, <4>2, ChallengeMoves
    <3>3. ASSUME NEW t \in Tokens PROVE Cardinality(Admitted(t)') <= peak'[t]
      <4>1. Admitted(t) \in SUBSET Calls /\ Admitted(t)' \in SUBSET Admitted(t)
        BY <2>1, <3>2, <3>3 DEF Admitted, ChallengesOf
      <4>2. /\ Cardinality(Admitted(t)') <= Cardinality(Admitted(t))
            /\ Cardinality(Admitted(t)') \in Nat /\ Cardinality(Admitted(t)) \in Nat
        BY <4>1, CallsFinite
      <4>3. Cardinality(Admitted(t)) <= peak[t] /\ peak[t] \in Nat
        BY DEF PeakInv, TypeInv, Types, HistoryOK
      <4> QED
        BY <3>1, <4>2, <4>3
    <3>4. ASSUME NEW t \in Tokens, NEW x \in Calls, pc'[x] = "open", token'[x] = t
          PROVE  t \in consumed' \cup revoked'
      BY <2>1, <3>1, <3>4 DEF PeakInv, Apart
    <3> QED
      BY <3>2, <3>3, <3>4 DEF PeakInv
  <2>3. CASE pc[c] \notin ChallengePCs
    <3>1. UNCHANGED <<consumed, opened>> /\ pc[c] # "done"
      BY <1>2, <2>3, OtherMoves
    <3>2. CASE \E t \in Tokens : Admits(c, t)
      BY <2>1, <3>1, <3>2, AdmitPeak
    <3>3. CASE pc'[c] \notin ChallengePCs /\ peak' = peak /\ revoked \subseteq revoked'
      <4>1. ASSUME NEW t \in Tokens PROVE Admitted(t)' = Admitted(t) /\ c \notin opened[t]
        BY <2>1, <2>3, <3>1, <3>3 DEF Admitted, ChallengesOf, Apart, PeakInv
      <4> QED
        BY <2>1, <3>1, <3>3, <4>1 DEF PeakInv, Apart, ChallengePCs
    <3> QED
      BY <1>2, <2>3, <3>2, <3>3, OtherMoves
  <2> QED
    BY <2>2, <2>3
<1>3. CASE Outside
  BY <1>1, <1>3, OutsideMoves
<1> QED
  BY <1>1, <1>2, <1>3, Steps DEF vars, pending, local, attempts

LEMMA PeakInvSuffices == TypeInv /\ PeakInv => SessionsWithinPeak
<1> SUFFICES ASSUME TypeInv, PeakInv, NEW t \in Tokens PROVE Cardinality(opened[t]) <= peak[t]
  BY DEF SessionsWithinPeak
<1>1. Admitted(t) \in SUBSET Calls /\ opened[t] \in SUBSET Admitted(t)
  BY DEF Admitted, ChallengesOf, TypeInv, Types, HistoryOK
<1>2. Cardinality(opened[t]) <= Cardinality(Admitted(t)) /\ Cardinality(opened[t]) \in Nat
  BY <1>1, CallsFinite
<1> QED
  BY <1>1, <1>2, CallsFinite DEF PeakInv, TypeInv, Types, HistoryOK

(* Recovery codes that are spent once.  Unless two challenges had found it *)
(* at once, a code is held by one challenge, which opens a session with it *)
(* only after the code has left the table, for good.                       *)
HasOpened(c) == \E t \in Tokens : c \in opened[t]
Holds(c, k) == code[c] = k /\ (pc[c] \in ChallengePCs \/ HasOpened(c))

SpendInv ==
    \A c \in Calls : \A k \in Codes : Holds(c, k) =>
        /\ pc[c] # "spend" => k \notin unused
        /\ k \notin shared => \A d \in Calls : Holds(d, k) => d = c

LEMMA SpendMoves ==
    ASSUME TypeInv, NEW c \in Calls, Step(c)
    PROVE  /\ shared \subseteq shared'
           /\ pc[c] = "spend" /\ pc'[c] = "consume" => Spend(code[c])
<1> USE Moves DEF TypeInv, Types
<1>1. CASE Answering(c)
  BY <1>1 DEF Answering, VerifyFactor, FindRecoveryCode, RejectFactor, VerifyFactorFails,
     SpendCode, SpendCodeFails, Consume, ConsumeFails, OpenForExistingUser, OpenFails,
     IncFailures, IncFailuresFails, Recheck, RecheckFails, Revoke, RevokeFails, history
<1>2. CASE (\E t \in Tokens : Challenge(c, t)) \/ Enrolling(c) \/ Renewing(c) \/ Crash(c)
  <2>1. shared' = shared
    BY <1>2 DEF Challenge, Enrolling, EnrollTOTP, UpsertSecret, UpsertSecretFails, VerifyTOTP,
       ConfirmSecret, ConfirmSecretFails, Renewing, RegenerateRecoveryCodes, Wipe, WipeFails,
       MintCode, MintCodeFails, ReturnCodes, Crash, history
  <2>2. pc[c] # "spend" \/ pc'[c] = "done"
    BY <1>2 DEF Challenge, Enrolling, EnrollTOTP, UpsertSecret, UpsertSecretFails, VerifyTOTP,
       ConfirmSecret, ConfirmSecretFails, Renewing, RegenerateRecoveryCodes, Wipe, WipeFails,
       MintCode, MintCodeFails, ReturnCodes, Minting, Crash
  <2> QED
    BY <2>1, <2>2
<1> QED
  BY <1>1, <1>2 DEF Step

(* Who holds a code held it, or has just looked it up. *)
LEMMA HoldsMoves ==
    ASSUME TypeInv, PeakInv, NEW c \in Calls, Step(c), NEW x \in Calls, NEW k \in Codes, Holds(x, k)'
    PROVE  \/ Holds(x, k)
           \/ x = c /\ FindRecoveryCode(c) /\ k = code'[c] /\ k \in unused
<1>1. Apart(c) /\ k # None /\ opened \in [Tokens -> SUBSET Calls]
  BY StepApart, NoCodeAssumption DEF TypeInv, Types, HistoryOK
<1>2. HasOpened(x)' => HasOpened(x) \/ (x = c /\ pc[c] = "open")
  <2>1. \/ opened' = opened
        \/ pc[c] = "open" /\ opened' = [opened EXCEPT ![token[c]] = @ \cup {c}]
    BY ChallengeMoves, OtherMoves
  <2> QED
    BY <1>1, <2>1 DEF HasOpened
<1>3. CASE x # c
  BY <1>1, <1>2, <1>3 DEF Holds, Apart
<1>4. CASE x = c /\ pc[c] \in ChallengePCs
  <2>1. pc[c] = "factor" => code[c] = None
    BY DEF TypeInv, CallInv
  <2> QED
    BY <1>1, <1>4, <2>1, CodeMoves, ChallengeMoves DEF Holds
<1>5. CASE x = c /\ pc[c] \notin ChallengePCs
  <2>1. ~HasOpened(c)' /\ code' = code /\ (pc'[c] \in ChallengePCs => pc[c] = "idle")
    BY <1>2, <1>5, OtherMoves DEF PeakInv, HasOpened, Admits, ChallengePCs
  <2>2. pc[c] = "idle" => code[c] = None
    BY DEF TypeInv, CallInv
  <2> QED
    BY <1>1, <1>5, <2>1, <2>2 DEF Holds
<1> QED
  BY <1>3, <1>4, <1>5

(* A held code that has left the table does not come back. *)
LEMMA GoneForGood ==
    ASSUME TypeInv, CodesInv, NEW c \in Calls, Step(c), NEW k \in Codes, Written(k), k \notin unused
    PROVE  k \notin unused'
<1>1. CASE UNCHANGED recovery
  BY <1>1 DEF recovery
<1>2. CASE DeleteAllForUser \/ \E j \in Codes : Spend(j)
  BY <1>2 DEF DeleteAllForUser, Spend
<1>3. CASE Minting(c) /\ minted[c] < BatchSize /\ Insert(c)
  <2>1. PICK j : j = <<Batch(c), minted[c] + 1>>
    OBVIOUS
  <2>2. ~Written(j) /\ unused' = unused \cup {j}
    BY <1>3, <2>1, InsertsNew DEF Insert
  <2> QED
    BY <2>2
<1> QED
  BY <1>1, <1>2, <1>3, RecoveryMoves

LEMMA SpendStep == TypeInv /\ CodesInv /\ PeakInv /\ SpendInv /\ [Next]_vars => SpendInv'
<1> SUFFICES ASSUME TypeInv, CodesInv, PeakInv, SpendInv, [Next]_vars PROVE SpendInv'
  OBVIOUS
<1>1. CASE UNCHANGED <<pc, code, opened, unused, shared>>
  BY <1>1 DEF SpendInv, Holds, HasOpened
<1>2. ASSUME NEW c \in Calls, Step(c) PROVE SpendInv'
  <2>1. Apart(c) /\ shared \subseteq shared'
    BY <1>2, StepApart, SpendMoves DEF TypeInv
  <2>2. ASSUME NEW x \in Calls, NEW k \in Codes, Holds(x, k)', pc'[x] # "spend"
        PROVE  k \notin unused'
    <3>1. ~(x = c /\ FindRecoveryCode(c))
      BY <2>2, Moves DEF FindRecoveryCode, TypeInv, Types
    <3>2. Holds(x, k)
      BY <1>2, <2>2, <3>1, HoldsMoves
    <3>3. Written(k)
      BY <3>2, NoCodeAssumption DEF Holds, CodesInv
    <3>4. CASE pc[x] # "spend"
      BY <1>2, <3>2, <3>3, <3>4, GoneForGood DEF SpendInv
    <3>5. CASE pc[x] = "spend"
      <4>1. x = c /\ pc[c] = "spend"
        BY <2>1, <2>2, <3>5 DEF Apart
      <4>2. pc'[c] \in {"consume", "done"} /\ opened' = opened /\ code[c] = k
        BY <1>2, <3>2, <4>1, ChallengeMoves DEF ChallengePCs, Holds
      <4>3. ~HasOpened(c)'
        BY <4>1, <4>2 DEF HasOpened, PeakInv
      <4>4. pc'[c] = "consume"
        BY <2>2, <4>1, <4>2, <4>3 DEF Holds, ChallengePCs
      <4> QED
        BY <1>2, <4>1, <4>2, <4>4, SpendMoves DEF Spend
    <3> QED
      BY <3>4, <3>5
  <2>3. ASSUME NEW x \in Calls, NEW d \in Calls, NEW k \in Codes, k \notin shared',
               Holds(x, k)', Holds(d, k)'
        PROVE  d = x
    <3>1. CASE Holds(x, k) /\ Holds(d, k)
      BY <2>1, <2>3, <3>1 DEF SpendInv
    <3>2. ASSUME NEW y \in Calls, Holds(y, k), FindRecoveryCode(c), k = code'[c], k \in unused
          PROVE  FALSE
      <4>1. pc[y] \in ChallengePCs /\ code[y] = k
        BY <3>2 DEF SpendInv, Holds, ChallengePCs
      <4>2. code'[c] \in shared'
        BY <3>2, <4>1 DEF FindRecoveryCode, TypeInv, Types, LocalsOK
      <4> QED
        BY <2>3, <3>2, <4>2
    <3> QED
      BY <1>2, <2>3, <3>1, <3>2, HoldsMoves
  <2> QED
    BY <2>2, <2>3 DEF SpendInv
<1>3. CASE Outside
  BY <1>1, <1>3, OutsideMoves
<1> QED
  BY <1>1, <1>2, <1>3, Steps DEF vars, recovery, local, history

LEMMA SpendInit == Init => SpendInv
BY DEF Init, SpendInv, Holds, HasOpened, ChallengePCs

LEMMA SpendInvSuffices ==
    TypeInv /\ SpendInv => \A k \in Codes \ shared : Cardinality(OpenedWith(k)) <= 1
<1> SUFFICES ASSUME TypeInv, SpendInv, NEW k \in Codes \ shared
             PROVE  Cardinality(OpenedWith(k)) <= 1
  OBVIOUS
<1>1. ASSUME NEW c \in OpenedWith(k) PROVE c \in Calls /\ Holds(c, k)
  BY <1>1 DEF OpenedWith, Holds, HasOpened, TypeInv, Types, HistoryOK
<1>2. CASE OpenedWith(k) = {}
  BY <1>2, FS_EmptySet
<1>3. CASE OpenedWith(k) # {}
  <2>1. PICK c \in OpenedWith(k) : TRUE
    BY <1>3
  <2>2. OpenedWith(k) = {c}
    BY <1>1, <2>1 DEF SpendInv
  <2> QED
    BY <2>2, FS_Singleton
<1> QED
  BY <1>2, <1>3

(* A pending token opens no more sessions than challenges of it ran at     *)
(* once, and a recovery code opens one, on whatever token, unless two      *)
(* challenges had found it at once.                                        *)
THEOREM SessionsOpenOnce == Spec => []OpensOnce
<1>1. TypeInv /\ PeakInv /\ SpendInv => OpensOnce
  BY PeakInvSuffices, SpendInvSuffices DEF OpensOnce
<1>2. Init => TypeInv /\ CodesInv /\ PeakInv /\ SpendInv
  BY TypesInit, CodesInit, PeakInit, SpendInit
<1>3. TypeInv /\ CodesInv /\ PeakInv /\ SpendInv /\ [Next]_vars
         => (TypeInv /\ CodesInv /\ PeakInv /\ SpendInv)'
  BY TypesStep, CodesStep, PeakStep, SpendStep
<1> QED
  BY <1>1, <1>2, <1>3, PTL DEF Spec

-------------------------------------------------------------------------------
(* Lockout.  Unless a failure or a crash got in the way: a wrong answer    *)
(* is in the counter or about to be; until the token is revoked, the       *)
(* answers that took the counter past the limit are still about to revoke  *)
(* it; and the challenges that may still answer wrongly are accounted for  *)
(* among those that ran at once.                                           *)
LockInv ==
    \A t \in Tokens \ hindered :
        /\ tries[t] <= failed[t] + Cardinality(At(t, {"count"}))
        /\ t \notin revoked => failed[t] <= MaxAttempts - 1 + Cardinality(At(t, Counted))
        /\ tries[t] + Cardinality(At(t, {"factor"})) <= MaxAttempts - 1 + peak[t]

LEMMA Disjoint ==
    ASSUME NEW S \in SUBSET Calls, NEW T \in SUBSET Calls, NEW U \in SUBSET Calls,
           NEW V \in SUBSET Calls, S \cap T = {}, S \cap U = {}, T \cap U = {},
           S \cup T \cup U \subseteq V
    PROVE  Cardinality(S) + Cardinality(T) + Cardinality(U) <= Cardinality(V)
<1>1. \A W \in SUBSET Calls : IsFiniteSet(W) /\ Cardinality(W) \in Nat
  BY CallsFinite
<1>2. \A X, Y \in SUBSET Calls :
         X \cap Y = {} => Cardinality(X \cup Y) = Cardinality(X) + Cardinality(Y)
  <2> TAKE X, Y \in SUBSET Calls
  <2> HAVE X \cap Y = {}
  <2>1. Cardinality(X \cup Y) = Cardinality(X) + Cardinality(Y) - Cardinality(X \cap Y)
    BY <1>1, FS_Union
  <2>2. Cardinality(X \cap Y) = 0
    BY FS_EmptySet
  <2> QED
    BY <1>1, <2>1, <2>2
<1>3. /\ Cardinality(S \cup T) = Cardinality(S) + Cardinality(T)
      /\ Cardinality((S \cup T) \cup U) = Cardinality(S \cup T) + Cardinality(U)
  <2>1. (S \cup T) \cap U = {} /\ S \cup T \in SUBSET Calls
    OBVIOUS
  <2> QED
    BY <1>2, <2>1
<1>4. Cardinality((S \cup T) \cup U) <= Cardinality(V)
  BY CallsFinite
<1> QED
  BY <1>1, <1>3, <1>4

(* The challenges of a token, by how far they have got, all ran at once.   *)
Staged ==
    \A t \in Tokens :
        Cardinality(At(t, {"factor"})) + Cardinality(At(t, {"count"})) + Cardinality(At(t, Counted))
            <= peak[t]

LEMMA Stages == TypeInv /\ PeakInv => Staged
<1> SUFFICES ASSUME TypeInv, PeakInv, NEW t \in Tokens
             PROVE  Cardinality(At(t, {"factor"})) + Cardinality(At(t, {"count"}))
                        + Cardinality(At(t, Counted)) <= peak[t]
  BY DEF Staged
<1>1. /\ At(t, {"factor"}) \cap At(t, {"count"}) = {} /\ At(t, {"factor"}) \cap At(t, Counted) = {}
      /\ At(t, {"count"}) \cap At(t, Counted) = {}
      /\ At(t, {"factor"}) \cup At(t, {"count"}) \cup At(t, Counted) \subseteq Admitted(t)
      /\ \A L : At(t, L) \in SUBSET Calls
  BY DEF At, Counted, Admitted, ChallengesOf, ChallengePCs
<1>2. Admitted(t) \in SUBSET Calls
  BY DEF Admitted, ChallengesOf, TypeInv, Types, HistoryOK
<1>3. Cardinality(At(t, {"factor"})) + Cardinality(At(t, {"count"})) + Cardinality(At(t, Counted))
         <= Cardinality(Admitted(t))
  BY <1>1, <1>2, Disjoint
<1>4. Cardinality(Admitted(t)) <= peak[t] /\ peak[t] \in Nat
  BY DEF PeakInv, TypeInv, Types, HistoryOK
<1>5. /\ Cardinality(At(t, {"factor"})) \in Nat /\ Cardinality(At(t, {"count"})) \in Nat
      /\ Cardinality(At(t, Counted)) \in Nat /\ Cardinality(Admitted(t)) \in Nat
  BY <1>1, <1>2, CallsFinite
<1> QED
  BY <1>3, <1>4, <1>5

LEMMA StagesAfter == (TypeInv /\ PeakInv)' => Staged'
BY Stages, PTL

LEMMA LockInit == Init => LockInv
<1> SUFFICES ASSUME Init, NEW t \in Tokens
             PROVE  /\ failed[t] = 0 /\ tries[t] = 0 /\ peak[t] = 0
                    /\ \A L : Cardinality(At(t, L)) \in Nat
                    /\ Cardinality(At(t, {"factor"})) = 0
  BY ConstantsAssumption DEF LockInv
<1>1. At(t, {"factor"}) = {}
  BY DEF Init, At
<1> QED
  BY <1>1, CallsFinite, FS_EmptySet DEF Init, At

LEMMA LockStep == TypeInv /\ PeakInv /\ LockInv /\ [Next]_vars => LockInv'
<1> SUFFICES ASSUME TypeInv, PeakInv, LockInv, [Next]_vars PROVE LockInv'
  OBVIOUS
<1>1. CASE UNCHANGED <<failed, tries, peak, hindered, revoked, pc, token>>
  BY <1>1 DEF LockInv, At
<1>2. ASSUME NEW c \in Calls, Step(c) PROVE LockInv'
  <2> SUFFICES ASSUME NEW t \in Tokens, t \notin hindered'
               PROVE  /\ tries'[t] <= failed'[t] + Cardinality(At(t, {"count"})')
                      /\ t \notin revoked' =>
                            failed'[t] <= MaxAttempts - 1 + Cardinality(At(t, Counted)')
                      /\ tries'[t] + Cardinality(At(t, {"factor"})') <= MaxAttempts - 1 + peak'[t]
    BY DEF LockInv
  <2> DEFINE F == Cardinality(At(t, {"factor"}))
             C == Cardinality(At(t, {"count"}))
             D == Cardinality(At(t, Counted))
  <2>1. /\ failed[t] \in Nat /\ tries[t] \in Nat /\ peak[t] \in Nat
        /\ failed'[t] \in Nat /\ tries'[t] \in Nat /\ peak'[t] \in Nat
        /\ MaxAttempts \in Nat \ {0}
        /\ TypeInv' /\ PeakInv'
    <3>1. TypeInv' /\ PeakInv'
      BY TypesStep, PeakStep
    <3> QED
      BY <3>1, ConstantsAssumption DEF TypeInv, Types, TablesOK, HistoryOK
  <2>2. \A L : /\ Cardinality(At(t, L)) \in Nat /\ Cardinality(At(t, L)') \in Nat
               /\ Cardinality(At(t, L)') + (IF pc[c] \in L /\ token[c] = t THEN 1 ELSE 0)
                     = Cardinality(At(t, L)) + (IF pc'[c] \in L /\ token'[c] = t THEN 1 ELSE 0)
    BY <1>2, AtStep
  <2>3. /\ {F, C, D, F', C', D'} \subseteq Nat
        /\ F' + (IF pc[c] = "factor" /\ token[c] = t THEN 1 ELSE 0)
              = F + (IF pc'[c] = "factor" /\ token'[c] = t THEN 1 ELSE 0)
        /\ C' + (IF pc[c] = "count" /\ token[c] = t THEN 1 ELSE 0)
              = C + (IF pc'[c] = "count" /\ token'[c] = t THEN 1 ELSE 0)
        /\ D' + (IF pc[c] \in Counted /\ token[c] = t THEN 1 ELSE 0)
              = D + (IF pc'[c] \in Counted /\ token'[c] = t THEN 1 ELSE 0)
    BY <2>2
  <2>4. F' + C' + D' <= peak'[t]
    BY <2>1, StagesAfter DEF Staged
  <2>5. t \notin hindered => /\ tries[t] <= failed[t] + C
                             /\ t \notin revoked => failed[t] <= MaxAttempts - 1 + D
                             /\ tries[t] + F <= MaxAttempts - 1 + peak[t]
    BY DEF LockInv
  <2> HIDE DEF F, C, D
  <2>6. CASE pc[c] \in ChallengePCs
    <3>1. /\ token'[c] = token[c] /\ peak' = peak /\ t \notin hindered
          /\ pc'[c] # "factor"
      BY <1>2, <2>6, ChallengeMoves DEF ChallengePCs
    <3>2. CASE token[c] # t
      <4>1. /\ tries'[t] = tries[t] /\ failed'[t] = failed[t] /\ F' = F /\ C' = C /\ D' = D
            /\ t \in revoked' => t \in revoked
        BY <1>2, <2>3, <2>6, <3>1, <3>2, ChallengeMoves DEF TypeInv, Types, TablesOK, HistoryOK
      <4>2. t \in revoked => t \in revoked'
        BY <1>2, <2>6, ChallengeMoves
      <4> QED
        BY <2>5, <3>1, <4>1, <4>2 DEF F, C, D
    <3>3. CASE token[c] = t
      <4>1. /\ tries'[t] = IF pc'[c] = "count" THEN tries[t] + 1 ELSE tries[t]
            /\ \/ failed'[t] = failed[t]
               \/ pc'[c] = "recheck" /\ failed'[t] = failed[t] + 1
            /\ pc[c] = "count" => pc'[c] = "recheck" /\ failed'[t] = failed[t] + 1
            /\ pc[c] = "recheck" => pc'[c] = IF failed[t] >= MaxAttempts THEN "revoke" ELSE "done"
            /\ pc[c] = "revoke" => t \in revoked'
            /\ t \in revoked => t \in revoked'
            /\ t \in revoked' => t \in revoked \/ pc[c] = "revoke"
            /\ pc'[c] = "count" => pc[c] = "factor"
            /\ pc'[c] = "recheck" => pc[c] = "count"
            /\ pc'[c] = "revoke" => pc[c] = "recheck"
        BY <1>2, <2>6, <3>3, ChallengeMoves
        DEF TypeInv, Types, TablesOK, HistoryOK, Exhausted, ChallengePCs
      <4>2. tries'[t] <= failed'[t] + C'
        BY <2>1, <2>3, <2>5, <3>1, <3>3, <4>1
      <4>3. t \notin revoked' => failed'[t] <= MaxAttempts - 1 + D'
        BY <2>1, <2>3, <2>5, <3>1, <3>3, <4>1 DEF Counted
      <4>4. tries'[t] + F' <= MaxAttempts - 1 + peak'[t]
        <5>1. CASE pc'[c] = "count"
          <6>1. F' + 1 = F /\ tries'[t] = tries[t] + 1
            BY <2>3, <3>1, <3>3, <4>1, <5>1
          <6> QED
            BY <2>1, <2>3, <2>5, <3>1, <6>1
        <5>2. CASE pc'[c] # "count"
          BY <2>1, <2>3, <2>5, <3>1, <3>3, <4>1, <5>2
        <5> QED
          BY <5>1, <5>2
      <4> QED
        BY <4>2, <4>3, <4>4 DEF F, C, D
    <3> QED
      BY <3>2, <3>3
  <2>7. CASE pc[c] \notin ChallengePCs
    <3>1. /\ failed' = failed /\ tries' = tries /\ t \notin hindered
          /\ pc[c] \notin Counted \cup {"factor", "count"} /\ revoked \subseteq revoked'
      BY <1>2, <2>7, OtherMoves DEF Admits, ChallengePCs, Counted
    <3>2. CASE pc'[c] \notin ChallengePCs /\ peak' = peak
      <4>1. F' = F /\ C' = C /\ D' = D
        BY <2>3, <3>1, <3>2 DEF ChallengePCs, Counted
      <4> QED
        BY <2>5, <3>1, <3>2, <4>1 DEF F, C, D
    <3>3. CASE \E u \in Tokens : Admits(c, u)
      <4>1. pc'[c] = "factor" /\ revoked' = revoked /\ token'[c] \notin revoked
        BY <3>3 DEF Admits, Usable
      <4>2. C' = C /\ D' = D
        BY <2>3, <3>1, <4>1 DEF Counted
      <4>3. peak'[t] >= peak[t]
        BY <2>1, <3>3, <1>2, <2>7, AdmittedWithinCalls DEF Admits, TypeInv, Types, HistoryOK
      <4>4. tries'[t] + F' <= MaxAttempts - 1 + peak'[t]
        <5>1. CASE t \in revoked
          <6>1. F' = F
            BY <2>3, <3>1, <4>1, <5>1
          <6> QED
            BY <2>1, <2>3, <2>5, <3>1, <4>3, <6>1
        <5>2. CASE t \notin revoked
          BY <2>1, <2>3, <2>4, <2>5, <3>1, <4>2, <5>2
        <5> QED
          BY <5>1, <5>2
      <4> QED
        BY <2>5, <3>1, <4>1, <4>2, <4>4 DEF F, C, D
    <3> QED
      BY <1>2, <2>7, <3>2, <3>3, OtherMoves
  <2> QED
    BY <2>6, <2>7
<1>3. CASE Outside
  BY <1>1, <1>3, OutsideMoves
<1> QED
  BY <1>1, <1>2, <1>3, Steps DEF vars, pending, local, attempts

LEMMA LockInvSuffices == TypeInv /\ LockInv => Lockout
<1> SUFFICES ASSUME TypeInv, LockInv, NEW t \in Tokens \ hindered
             PROVE  /\ tries[t] >= MaxAttempts /\ ChallengesOf(t) = {} => t \in revoked
                    /\ tries[t] <= MaxAttempts - 1 + peak[t]
  BY DEF Lockout, LockedOut, TriesWithinPeak
<1>1. /\ tries[t] <= failed[t] + Cardinality(At(t, {"count"}))
      /\ t \notin revoked => failed[t] <= MaxAttempts - 1 + Cardinality(At(t, Counted))
      /\ tries[t] + Cardinality(At(t, {"factor"})) <= MaxAttempts - 1 + peak[t]
      /\ tries[t] \in Nat /\ failed[t] \in Nat /\ peak[t] \in Nat /\ MaxAttempts \in Nat
      /\ \A L : Cardinality(At(t, L)) \in Nat
  BY CallsFinite, ConstantsAssumption DEF LockInv, TypeInv, Types, TablesOK, HistoryOK, At
<1>2. ASSUME ChallengesOf(t) = {} PROVE At(t, {"count"}) = {} /\ At(t, Counted) = {}
  BY <1>2 DEF At, Counted, ChallengesOf, ChallengePCs
<1> QED
  BY <1>1, <1>2, FS_EmptySet

(* A token that was tried MaxAttempts times is revoked once none of its    *)
(* challenges runs, and no more wrong answers are ever examined than       *)
(* MaxAttempts - 1 and one for each challenge that ran at once.            *)
THEOREM LockoutHolds == Spec => []Lockout
<1>1. TypeInv /\ LockInv => Lockout
  BY LockInvSuffices
<1>2. Init => TypeInv /\ PeakInv /\ LockInv
  BY TypesInit, PeakInit, LockInit
<1>3. TypeInv /\ PeakInv /\ LockInv /\ [Next]_vars => (TypeInv /\ PeakInv /\ LockInv)'
  BY TypesStep, PeakStep, LockStep
<1> QED
  BY <1>1, <1>2, <1>3, PTL DEF Spec
================================================================================
