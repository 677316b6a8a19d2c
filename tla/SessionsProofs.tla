----------------------------- MODULE SessionsProofs -----------------------------
(***************************************************************************)
(* Theorems about Sessions, for every set of calls, with their proofs.     *)
(***************************************************************************)
EXTENDS Sessions, TLAPS

(* Which operation a call at each statement executes.                      *)
StatementOf(c) ==
    /\ pc[c] = "idle" <=> op[c] = "none"
    /\ pc[c] = "create" => op[c] = "login"
    /\ pc[c] = "issue" => op[c] \in {"login", "refresh"}
    /\ pc[c] \in {"rotate", "load", "discard"} => op[c] = "refresh"
    /\ pc[c] \in {"burn", "close"} => op[c] \in TokenOps
    /\ pc[c] \in {"set", "sweep"} => op[c] \in AdminOps

(* The session of a call is one that a login opened and was answered with. *)
SessionOf(c) ==
    /\ op[c] = "login" => session[c] = c
    /\ op[c] \in TokenOps =>
        /\ presented[c] \in Calls /\ Held(presented[c])
        /\ session[c] = session[presented[c]]
        /\ session[c] \in Calls
        /\ op[session[c]] = "login" /\ answer[session[c]] = "ok"
    /\ op[c] \notin TokenOps \cup {"login"} => session[c] = None

(* What a call has written. *)
RowsOf(c) ==
    /\ tokens[c] # "absent" => pc[c] = "done" /\ op[c] \in {"login", "refresh"}
    /\ Held(c) => tokens[c] # "absent"
    /\ answer[c] \in {"reuse", "loggedout"} => op[c] \in TokenOps
    /\ sessions[c] # "absent" => op[c] = "login" /\ pc[c] \in {"issue", "done"}
    /\ op[c] = "login" /\ (pc[c] = "issue" \/ tokens[c] # "absent") => sessions[c] # "absent"

TypeInv ==
    /\ TypeOK
    /\ \A c \in Calls : StatementOf(c) /\ SessionOf(c) /\ RowsOf(c)

LEMMA TypeInit == Init => TypeInv
<1> SUFFICES ASSUME Init PROVE TypeInv
  OBVIOUS
<1>1. TypeOK
  BY DEF Init, TypeOK, RowStates, Ops, PCs, Answers
<1>2. ASSUME NEW c \in Calls PROVE StatementOf(c) /\ SessionOf(c) /\ RowsOf(c)
  BY DEF Init, StatementOf, SessionOf, RowsOf, Held, TokenOps, AdminOps
<1> QED
  BY <1>1, <1>2 DEF TypeInv

(* Revocations leave the rows that are there, and add none.                *)
LEMMA Revocations ==
    ASSUME TypeInv, NEW t \in Calls, NEW s
    PROVE  /\ \A r \in RowStates : Revoke(r) \in RowStates /\ (Revoke(r) = "absent" <=> r = "absent")
           /\ \A r \in RowStates : Revoke(r) # "live"
           /\ RevokeToken(t) \in [Calls -> RowStates]
           /\ \A x \in Calls : RevokeToken(t)[x] \in {tokens[x], Revoke(tokens[x])}
           /\ RevokeToken(t)[t] = Revoke(tokens[t])
           /\ RevokeFamily(s, t) \in [Calls -> RowStates]
           /\ \A x \in Calls : RevokeFamily(s, t)[x] \in {tokens[x], Revoke(tokens[x])}
           /\ \A x \in Calls : session[x] = s => RevokeFamily(s, t)[x] = Revoke(tokens[x])
           /\ RevokeSession(t) \in [Calls -> RowStates]
           /\ \A x \in Calls : RevokeSession(t)[x] \in {sessions[x], Revoke(sessions[x])}
           /\ RevokeSession(t)[t] = Revoke(sessions[t])
           /\ RevokeAll \in [Calls -> RowStates]
           /\ \A x \in Calls : RevokeAll[x] = Revoke(sessions[x])
<1>1. tokens \in [Calls -> RowStates] /\ sessions \in [Calls -> RowStates]
  BY DEF TypeInv, TypeOK
<1>2. \A r \in RowStates : Revoke(r) \in RowStates /\ Revoke(r) # "live" /\ (Revoke(r) = "absent" <=> r = "absent")
  BY DEF RowStates, Revoke
<1> HIDE DEF RowStates, Revoke
<1>3. /\ RevokeToken(t) \in [Calls -> RowStates]
      /\ \A x \in Calls : RevokeToken(t)[x] \in {tokens[x], Revoke(tokens[x])}
      /\ RevokeToken(t)[t] = Revoke(tokens[t])
  BY <1>1, <1>2 DEF RevokeToken
<1>4. /\ RevokeFamily(s, t) \in [Calls -> RowStates]
      /\ \A x \in Calls : RevokeFamily(s, t)[x] \in {tokens[x], Revoke(tokens[x])}
      /\ \A x \in Calls : session[x] = s => RevokeFamily(s, t)[x] = Revoke(tokens[x])
  BY <1>1, <1>2 DEF RevokeFamily
<1>5. /\ RevokeSession(t) \in [Calls -> RowStates]
      /\ \A x \in Calls : RevokeSession(t)[x] \in {sessions[x], Revoke(sessions[x])}
      /\ RevokeSession(t)[t] = Revoke(sessions[t])
  BY <1>1, <1>2 DEF RevokeSession
<1>6. RevokeAll \in [Calls -> RowStates] /\ \A x \in Calls : RevokeAll[x] = Revoke(sessions[x])
  BY <1>1, <1>2 DEF RevokeAll
<1> QED
  BY <1>2, <1>3, <1>4, <1>5, <1>6

(* The control of a running call. *)
Moves(c) ==
    \/ pc[c] = "create" /\ pc'[c] = "issue" /\ answer'[c] = "none"
    \/ pc[c] = "create" /\ pc'[c] = "done" /\ answer'[c] = "error"
    \/ pc[c] = "issue" /\ pc'[c] = "done" /\ answer'[c] \in {"ok", "error"}
    \/ pc[c] = "rotate" /\ pc'[c] = "load" /\ answer'[c] = "none"
    \/ pc[c] = "load" /\ pc'[c] = "issue" /\ answer'[c] = "none"
    \/ pc[c] = "load" /\ pc'[c] = "done" /\ answer'[c] = "error"
    \/ pc[c] = "discard" /\ pc'[c] = "done" /\ answer'[c] = "invalid"
    \/ pc[c] = "burn" /\ pc'[c] = "close" /\ answer'[c] = "none"
    \/ pc[c] = "close" /\ pc'[c] = "done" /\ answer'[c] = Burnt(c)
    \/ pc[c] = "set" /\ pc'[c] = "done" /\ op[c] \in AdminOps /\ answer'[c] \in {"ok", "error"}
    \/ pc[c] = "set" /\ pc'[c] = "sweep" /\ answer'[c] = "none"
    \/ pc[c] = "sweep" /\ pc'[c] = "done" /\ answer'[c] = "ok"
    \/ pc'[c] = "done" /\ answer'[c] = "crashed"

LEMMA Control ==
    ASSUME TypeInv, NEW c \in Calls, Step(c) \/ Crash(c)
    PROVE  /\ UNCHANGED <<op, presented, session, expiredTokens, expiredSessions>>
           /\ Running(c)
           /\ Moves(c)
           /\ pc' \in [Calls -> PCs] /\ answer' \in [Calls -> Answers]
           /\ \A x \in Calls : x # c => pc'[x] = pc[x] /\ answer'[x] = answer[x]
           /\ pc'[c] = "done" <=> answer'[c] # "none"
<1>t. /\ pc \in [Calls -> PCs] /\ answer \in [Calls -> Answers]
      /\ pc[c] = "done" <=> answer[c] # "none"
      /\ StatementOf(c)
  BY DEF TypeInv, TypeOK
<1>1. UNCHANGED <<op, presented, session, expiredTokens, expiredSessions>>
  BY DEF Step, Crash, CreateSession, CreateSessionFails, IssueRefresh, IssueRefreshFails, Rotate,
     RotateFails, LoadSession, Discard, BurnFamily, BurnFamilyFails, CloseSession,
     CloseSessionFails, SetUser, SetUserFails, Sweep, SweepFails, rows, requests
<1>2. Running(c)
  BY DEF Step, Crash, CreateSession, CreateSessionFails, IssueRefresh, IssueRefreshFails, Rotate,
     RotateFails, LoadSession, Discard, BurnFamily, BurnFamilyFails, CloseSession,
     CloseSessionFails, SetUser, SetUserFails, Sweep, SweepFails, Running
<1>3. \/ \E l \in {"issue", "load", "close", "sweep"} : Goto(c, l)
      \/ \E v \in {"ok", "error", "invalid", "reuse", "loggedout", "crashed"} : Return(c, v)
  BY DEF Step, Crash, CreateSession, CreateSessionFails, IssueRefresh, IssueRefreshFails, Rotate,
     RotateFails, LoadSession, Discard, BurnFamily, BurnFamilyFails, CloseSession,
     CloseSessionFails, SetUser, SetUserFails, Sweep, SweepFails, Burnt
<1>4. /\ pc' \in [Calls -> PCs] /\ answer' \in [Calls -> Answers]
      /\ \A x \in Calls : x # c => pc'[x] = pc[x] /\ answer'[x] = answer[x]
      /\ pc'[c] = "done" <=> answer'[c] # "none"
  BY <1>t, <1>2, <1>3 DEF Goto, Return, PCs, Answers, Running
<1>5. Moves(c)
  <2>n. answer[c] = "none"
    BY <1>t, <1>2 DEF Running
  <2>g. \A l : Goto(c, l) => pc'[c] = l /\ answer'[c] = "none"
    BY <1>t, <2>n DEF Goto
  <2>r. \A v : Return(c, v) => pc'[c] = "done" /\ answer'[c] = v
    BY <1>t DEF Return
  <2>1. CASE CreateSession(c) \/ CreateSessionFails(c)
    BY <1>t, <2>1, <2>n DEF CreateSession, CreateSessionFails, Goto, Return, Moves
  <2>2. CASE IssueRefresh(c) \/ IssueRefreshFails(c)
    BY <2>2, <2>r DEF IssueRefresh, IssueRefreshFails, Moves
  <2>3. CASE Rotate(c) \/ RotateFails(c) \/ LoadSession(c) \/ Discard(c)
    BY <1>t, <2>3, <2>n DEF Rotate, RotateFails, LoadSession, Discard, Goto, Return, Moves
  <2>4. CASE BurnFamily(c) \/ BurnFamilyFails(c) \/ CloseSession(c) \/ CloseSessionFails(c)
    BY <2>4, <2>g, <2>r DEF BurnFamily, BurnFamilyFails, CloseSession, CloseSessionFails, Moves
  <2>5. CASE SetUser(c) \/ SetUserFails(c) \/ Sweep(c) \/ SweepFails(c)
    BY <1>t, <2>5, <2>g, <2>r DEF SetUser, SetUserFails, Sweep, SweepFails, Moves, StatementOf
  <2>6. CASE Crash(c)
    BY <2>6, <2>r DEF Crash, Moves
  <2> QED
    BY <2>1, <2>2, <2>3, <2>4, <2>5, <2>6 DEF Step
<1> QED
  BY <1>1, <1>2, <1>4, <1>5

(* What it does to the rows. *)
LEMMA Data ==
    ASSUME TypeInv, NEW c \in Calls, Step(c) \/ Crash(c)
    PROVE  /\ tokens' \in [Calls -> RowStates] /\ sessions' \in [Calls -> RowStates]
           /\ \A x \in Calls : x # c \/ pc[c] # "issue" =>
                 tokens'[x] \in {tokens[x], Revoke(tokens[x])}
           /\ pc[c] = "issue" => tokens'[c] \in {tokens[c], "live"}
           /\ pc[c] = "issue" /\ answer'[c] = "ok" => tokens'[c] = "live"
           /\ \A x \in Calls : x # c \/ pc[c] # "create" =>
                 sessions'[x] \in {sessions[x], Revoke(sessions[x])}
           /\ pc[c] = "create" => sessions'[c] \in {sessions[c], "live"}
           /\ pc[c] = "create" /\ pc'[c] = "issue" => sessions'[c] = "live"
<1>t. /\ tokens \in [Calls -> RowStates] /\ sessions \in [Calls -> RowStates]
      /\ pc \in [Calls -> PCs] /\ answer \in [Calls -> Answers]
      /\ StatementOf(c) /\ SessionOf(c)
  BY DEF TypeInv, TypeOK
<1>1. CASE CreateSession(c) \/ CreateSessionFails(c)
  BY <1>t, <1>1 DEF CreateSession, CreateSessionFails, RowStates, Goto, Return
<1>2. CASE IssueRefresh(c) \/ IssueRefreshFails(c)
  BY <1>t, <1>2 DEF IssueRefresh, IssueRefreshFails, RowStates, Goto, Return
<1>3. CASE Rotate(c) \/ RotateFails(c) \/ Discard(c)
  <2>1. presented[c] \in Calls
    BY <1>t, <1>3 DEF Rotate, RotateFails, Discard, StatementOf, SessionOf, TokenOps
  <2> QED
    BY <1>t, <1>3, <2>1, Revocations DEF Rotate, RotateFails, Discard
<1>4. CASE BurnFamily(c) \/ BurnFamilyFails(c)
  <2>1. presented[c] \in Calls
    BY <1>t, <1>4 DEF BurnFamily, BurnFamilyFails, StatementOf, SessionOf
  <2> QED
    BY <1>t, <1>4, <2>1, Revocations DEF BurnFamily, BurnFamilyFails
<1>5. CASE CloseSession(c) \/ CloseSessionFails(c)
  <2>1. session[c] \in Calls
    BY <1>t, <1>5 DEF CloseSession, CloseSessionFails, StatementOf, SessionOf
  <2> QED
    BY <1>t, <1>5, <2>1, Revocations DEF CloseSession, CloseSessionFails
<1>6. CASE Sweep(c) \/ SweepFails(c)
  BY <1>t, <1>6, Revocations DEF Sweep, SweepFails
<1>7. CASE LoadSession(c) \/ SetUser(c) \/ SetUserFails(c)
  BY <1>t, <1>7 DEF LoadSession, SetUser, SetUserFails, rows
<1>8. CASE Crash(c)
  BY <1>t, <1>8 DEF Crash, rows, Return
<1> QED
  BY <1>1, <1>2, <1>3, <1>4, <1>5, <1>6, <1>7, <1>8 DEF Step

LEMMA TypeOfRest ==
    ASSUME TypeInv, NEW c \in Calls, Step(c) \/ Crash(c)
    PROVE  /\ user' \in {"active", "disabled", "deleted"}
           /\ hindered' \in BOOLEAN
           /\ disturbed' \in [Calls -> SUBSET {"overlap", "failure"}]
<1>t. /\ user \in {"active", "disabled", "deleted"} /\ hindered \in BOOLEAN
      /\ disturbed \in [Calls -> SUBSET {"overlap", "failure"}]
  BY DEF TypeInv, TypeOK
<1>1. user' \in {user, Updated(op[c])}
  BY DEF Step, Crash, CreateSession, CreateSessionFails, IssueRefresh, IssueRefreshFails, Rotate,
     RotateFails, LoadSession, Discard, BurnFamily, BurnFamilyFails, CloseSession,
     CloseSessionFails, SetUser, SetUserFails, Sweep, SweepFails, users
<1>2. hindered' \in {hindered, TRUE, hindered \/ pc[c] = "sweep"}
  BY DEF Step, Crash, CreateSession, CreateSessionFails, IssueRefresh, IssueRefreshFails, Rotate,
     RotateFails, LoadSession, Discard, BurnFamily, BurnFamilyFails, CloseSession,
     CloseSessionFails, SetUser, SetUserFails, Sweep, SweepFails, users
<1>3. UNCHANGED disturbed \/ Disturb(session[c], "failure")
  BY DEF Step, Crash, CreateSession, CreateSessionFails, IssueRefresh, IssueRefreshFails, Rotate,
     RotateFails, LoadSession, Discard, BurnFamily, BurnFamilyFails, CloseSession,
     CloseSessionFails, SetUser, SetUserFails, Sweep, SweepFails
<1>4. user' \in {"active", "disabled", "deleted"}
  BY <1>t, <1>1 DEF Updated
<1>5. hindered' \in BOOLEAN
  BY <1>t, <1>2
<1>6. disturbed' \in [Calls -> SUBSET {"overlap", "failure"}]
  BY <1>t, <1>3 DEF Disturb
<1> QED
  BY <1>4, <1>5, <1>6

LEMMA TypeRun ==
    ASSUME TypeInv, NEW c \in Calls, Step(c) \/ Crash(c)
    PROVE  TypeInv'
<1>t. TypeOK /\ \A x \in Calls : StatementOf(x) /\ SessionOf(x) /\ RowsOf(x)
  BY DEF TypeInv
<1>c. /\ UNCHANGED <<op, presented, session, expiredTokens, expiredSessions>>
      /\ Running(c) /\ Moves(c)
      /\ pc' \in [Calls -> PCs] /\ answer' \in [Calls -> Answers]
      /\ \A x \in Calls : x # c => pc'[x] = pc[x] /\ answer'[x] = answer[x]
      /\ pc'[c] = "done" <=> answer'[c] # "none"
  BY Control
<1>n. pc[c] # "done" /\ answer[c] = "none"
  BY <1>t, <1>c DEF Running, TypeOK
<1>d. /\ tokens' \in [Calls -> RowStates] /\ sessions' \in [Calls -> RowStates]
      /\ \A x \in Calls : x # c \/ pc[c] # "issue" =>
            tokens'[x] = "absent" <=> tokens[x] = "absent"
      /\ pc[c] = "issue" => tokens'[c] \in {tokens[c], "live"}
      /\ pc[c] = "issue" /\ answer'[c] = "ok" => tokens'[c] = "live"
      /\ \A x \in Calls : x # c \/ pc[c] # "create" =>
            sessions'[x] = "absent" <=> sessions[x] = "absent"
      /\ pc[c] = "create" => sessions'[c] \in {sessions[c], "live"}
      /\ pc[c] = "create" /\ pc'[c] = "issue" => sessions'[c] = "live"
  <2>1. \A r \in RowStates : Revoke(r) = "absent" <=> r = "absent"
    BY DEF RowStates, Revoke
  <2> QED
    BY <2>1, <1>t, Data DEF TypeOK
<1>1. TypeOK'
  BY <1>t, <1>c, <1>d, TypeOfRest DEF TypeOK
<1>2. ASSUME NEW x \in Calls PROVE StatementOf(x)'
  <2>1. CASE x # c
    BY <1>t, <1>c, <2>1 DEF StatementOf
  <2>2. CASE x = c
    BY <1>t, <1>c, <1>n, <2>2 DEF StatementOf, Moves, Running, AdminOps, TokenOps
  <2> QED
    BY <2>1, <2>2
<1>3. ASSUME NEW x \in Calls PROVE SessionOf(x)'
  <2>1. \A t \in Calls : t # c => Held(t)' = Held(t)
    BY <1>c DEF Held
  <2>2. ~Held(c) /\ answer[c] # "ok"
    BY <1>n DEF Held
  <2> QED
    BY <1>t, <1>c, <2>1, <2>2 DEF SessionOf
<1>4. ASSUME NEW x \in Calls PROVE RowsOf(x)'
  <2>1. CASE x # c
    BY <1>t, <1>c, <1>d, <2>1 DEF RowsOf, Held
  <2>2. CASE x = c
    <3>0. tokens[c] = "absent"
      BY <1>t, <1>n DEF RowsOf
    <3>1. tokens'[c] # "absent" => pc[c] = "issue"
      BY <1>d, <3>0
    <3>2. pc[c] = "issue" => pc'[c] = "done" /\ answer'[c] \in {"ok", "error", "crashed"}
      BY <1>c DEF Moves
    <3>3. answer'[c] = "ok" => pc[c] = "issue" \/ op[c] \in AdminOps
      BY <1>c, <1>t DEF Moves, Burnt, StatementOf
    <3>4. answer'[c] \in {"reuse", "loggedout"} => pc[c] = "close"
      BY <1>c DEF Moves, Burnt
    <3>5. sessions'[c] # "absent" => op[c] = "login" /\ pc'[c] \in {"issue", "done"}
      BY <1>t, <1>c, <1>d, <1>n DEF Moves, RowsOf, StatementOf
    <3>6. op[c] = "login" /\ (pc'[c] = "issue" \/ tokens'[c] # "absent") => sessions'[c] # "absent"
      BY <1>t, <1>c, <1>d, <3>1 DEF Moves, RowsOf, StatementOf
    <3>7. Held(c)' => tokens'[c] # "absent"
      BY <1>c, <1>d, <3>3 DEF Held, AdminOps
    <3>8. tokens'[c] # "absent" => pc'[c] = "done" /\ op[c] \in {"login", "refresh"}
      BY <1>t, <3>1, <3>2 DEF StatementOf
    <3>9. answer'[c] \in {"reuse", "loggedout"} => op[c] \in TokenOps
      BY <1>t, <3>4 DEF StatementOf
    <3> QED
      BY <1>c, <2>2, <3>5, <3>6, <3>7, <3>8, <3>9 DEF RowsOf
  <2> QED
    BY <2>1, <2>2
<1> QED
  BY <1>1, <1>2, <1>3, <1>4 DEF TypeInv

(* The first step of a call that presents token t: it goes where the row   *)
(* of t sends it, or the lookup fails and it returns.                      *)
Presents(c, t) ==
    /\ Held(t) /\ t # c /\ presented'[c] = t /\ session'[c] = session[t]
    /\ session[t] \in Calls
    /\ \/ /\ pc'[c] = Branch(op'[c], t) /\ answer'[c] = "none"
          /\ disturbed' = IF RunningOn(session[t])
                THEN [disturbed EXCEPT ![session[t]] = @ \cup {"overlap"}]
                ELSE disturbed
       \/ /\ pc'[c] = "done"
          /\ \/ /\ op'[c] = "refresh" /\ answer'[c] = "invalid"
                /\ UNCHANGED disturbed
             \/ /\ op'[c] = "logout" /\ answer'[c] = "loggedout"
                /\ disturbed' = [disturbed EXCEPT ![session[t]] = @ \cup {"failure"}]

(* The first statement of a call. *)
LEMMA First ==
    ASSUME TypeInv, NEW c \in Calls, Begin(c)
    PROVE  /\ UNCHANGED <<user, sessions, expiredSessions, tokens, expiredTokens>>
           /\ pc[c] = "idle" /\ op[c] = "none" /\ answer[c] = "none" /\ session[c] = None
           /\ tokens[c] = "absent" /\ sessions[c] = "absent"
           /\ op' \in [Calls -> Ops] /\ presented' \in [Calls -> Calls \cup {None}]
           /\ session' \in [Calls -> Calls \cup {None}]
           /\ pc' \in [Calls -> PCs] /\ answer' \in [Calls -> Answers]
           /\ \A x \in Calls : x # c => /\ pc'[x] = pc[x] /\ answer'[x] = answer[x]
                                       /\ op'[x] = op[x] /\ presented'[x] = presented[x]
                                       /\ session'[x] = session[x]
           /\ \/ /\ op'[c] = "login" /\ session'[c] = c /\ UNCHANGED disturbed
                 /\ ~hindered' => ~hindered /\ (pc'[c] = "create" => ~Administering)
                 /\ hindered' \in BOOLEAN
                 /\ \/ pc'[c] = "create" /\ user = "active" /\ answer'[c] = "none"
                    \/ pc'[c] = "done" /\ answer'[c] \in {"inactive", "error"}
              \/ /\ op'[c] \in AdminOps /\ session'[c] = None /\ UNCHANGED disturbed
                 /\ ~hindered' => ~hindered /\ (pc'[c] = "set" => ~LoggingIn)
                 /\ hindered' \in BOOLEAN
                 /\ \/ pc'[c] = "set" /\ answer'[c] = "none"
                    \/ pc'[c] = "done" /\ answer'[c] \in {"notfound", "error"}
              \/ /\ op'[c] \in TokenOps /\ UNCHANGED hindered
                 /\ \E t \in Calls : Presents(c, t)
<1>t. TypeOK /\ \A x \in Calls : StatementOf(x) /\ SessionOf(x) /\ RowsOf(x)
  BY DEF TypeInv
<1>1. UNCHANGED <<user, sessions, expiredSessions, tokens, expiredTokens>> /\ pc[c] = "idle"
  BY DEF Begin, BeginLogin, BeginAdmin, LookupToken, LookupTokenFails, Present, rows, users
<1>2. /\ op[c] = "none" /\ answer[c] = "none" /\ session[c] = None
      /\ tokens[c] = "absent" /\ sessions[c] = "absent"
  BY <1>t, <1>1 DEF TypeOK, StatementOf, SessionOf, RowsOf, TokenOps
<1>a. /\ hindered \in BOOLEAN /\ Administering \in BOOLEAN /\ LoggingIn \in BOOLEAN
      /\ op \in [Calls -> Ops] /\ presented \in [Calls -> Calls \cup {None}]
      /\ session \in [Calls -> Calls \cup {None}]
      /\ pc \in [Calls -> PCs] /\ answer \in [Calls -> Answers]
  BY <1>t DEF TypeOK, Administering, LoggingIn
<1>3. CASE BeginLogin(c)
  <2>1. /\ op' = [op EXCEPT ![c] = "login"] /\ session' = [session EXCEPT ![c] = c]
        /\ UNCHANGED <<presented, disturbed>>
    BY <1>3 DEF BeginLogin
  <2>2. /\ op' \in [Calls -> Ops] /\ session' \in [Calls -> Calls \cup {None}]
        /\ op'[c] = "login" /\ session'[c] = c
        /\ \A x \in Calls : x # c => op'[x] = op[x] /\ session'[x] = session[x]
    BY <1>a, <2>1 DEF Ops
  <2>3. CASE user = "active" /\ Goto(c, "create") /\ hindered' = (hindered \/ Administering)
    BY <1>a, <1>1, <1>2, <2>1, <2>2, <2>3 DEF Goto, PCs
  <2>4. CASE \E v \in {"inactive", "error"} : Return(c, v) /\ UNCHANGED hindered
    BY <1>a, <1>1, <1>2, <2>1, <2>2, <2>4 DEF Return, PCs, Answers
  <2> QED
    BY <1>3, <2>3, <2>4 DEF BeginLogin
<1>4. ASSUME NEW o \in AdminOps, BeginAdmin(c, o)
      PROVE  /\ op'[c] = o /\ UNCHANGED <<presented, session, disturbed>>
             /\ op' \in [Calls -> Ops] /\ \A x \in Calls : x # c => op'[x] = op[x]
             /\ \A x \in Calls : x # c => pc'[x] = pc[x] /\ answer'[x] = answer[x]
             /\ pc' \in [Calls -> PCs] /\ answer' \in [Calls -> Answers]
             /\ ~hindered' => ~hindered /\ (pc'[c] = "set" => ~LoggingIn)
             /\ hindered' \in BOOLEAN
             /\ \/ pc'[c] = "set" /\ answer'[c] = "none"
                \/ pc'[c] = "done" /\ answer'[c] \in {"notfound", "error"}
  <2>1. op' = [op EXCEPT ![c] = o] /\ UNCHANGED <<presented, session, disturbed>>
    BY <1>4 DEF BeginAdmin
  <2>2. op' \in [Calls -> Ops] /\ op'[c] = o /\ \A x \in Calls : x # c => op'[x] = op[x]
    BY <1>a, <2>1 DEF Ops
  <2>3. CASE Goto(c, "set") /\ hindered' = (hindered \/ LoggingIn)
    BY <1>a, <1>2, <2>1, <2>2, <2>3 DEF Goto, PCs
  <2>4. CASE \E v \in {"notfound", "error"} : Return(c, v) /\ UNCHANGED hindered
    BY <1>a, <1>2, <2>1, <2>2, <2>4 DEF Return, PCs, Answers
  <2> QED
    BY <1>4, <2>3, <2>4 DEF BeginAdmin
<1>5. ASSUME NEW o \in TokenOps, NEW t \in Calls, LookupToken(c, o, t) \/ LookupTokenFails(c, o, t)
      PROVE  /\ op'[c] = o /\ UNCHANGED hindered
             /\ op' \in [Calls -> Ops] /\ presented' \in [Calls -> Calls \cup {None}]
             /\ session' \in [Calls -> Calls \cup {None}]
             /\ pc' \in [Calls -> PCs] /\ answer' \in [Calls -> Answers]
             /\ \A x \in Calls : x # c => /\ pc'[x] = pc[x] /\ answer'[x] = answer[x]
                                         /\ op'[x] = op[x] /\ presented'[x] = presented[x]
                                         /\ session'[x] = session[x]
             /\ Held(t) /\ t # c /\ presented'[c] = t /\ session'[c] = session[t]
             /\ session[t] \in Calls
             /\ \/ /\ pc'[c] = Branch(o, t) /\ answer'[c] = "none"
                   /\ disturbed' = IF RunningOn(session[t])
                         THEN [disturbed EXCEPT ![session[t]] = @ \cup {"overlap"}]
                         ELSE disturbed
                \/ /\ pc'[c] = "done"
                   /\ \/ /\ o = "refresh" /\ answer'[c] = "invalid"
                         /\ UNCHANGED disturbed
                      \/ /\ o = "logout" /\ answer'[c] = "loggedout"
                         /\ disturbed' = [disturbed EXCEPT ![session[t]] = @ \cup {"failure"}]
  <2>1. /\ Held(t) /\ op' = [op EXCEPT ![c] = o] /\ presented' = [presented EXCEPT ![c] = t]
        /\ session' = [session EXCEPT ![c] = session[t]] /\ UNCHANGED hindered
    BY <1>5 DEF LookupToken, LookupTokenFails, Present, users
  <2>2. t # c /\ session[t] \in Calls
    BY <1>t, <1>2, <2>1 DEF Held, SessionOf, TokenOps
  <2>3. /\ op' \in [Calls -> Ops] /\ presented' \in [Calls -> Calls \cup {None}]
        /\ session' \in [Calls -> Calls \cup {None}]
        /\ op'[c] = o /\ presented'[c] = t /\ session'[c] = session[t]
        /\ \A x \in Calls : x # c => /\ op'[x] = op[x] /\ presented'[x] = presented[x]
                                    /\ session'[x] = session[x]
    BY <1>a, <2>1, <2>2 DEF Ops
  <2>4. CASE LookupToken(c, o, t)
    <3>1. Branch(o, t) \in {"burn", "discard", "rotate"}
      BY DEF Branch, TokenOps
    <3>2. Goto(c, Branch(o, t))
      BY <2>4 DEF LookupToken
    <3>3. /\ pc' \in [Calls -> PCs] /\ answer' \in [Calls -> Answers] /\ pc'[c] = Branch(o, t)
          /\ answer'[c] = "none"
          /\ \A x \in Calls : x # c => pc'[x] = pc[x] /\ answer'[x] = answer[x]
      BY <1>a, <1>2, <3>1, <3>2 DEF Goto, PCs
    <3>4. disturbed' = IF RunningOn(session[t])
                THEN [disturbed EXCEPT ![session[t]] = @ \cup {"overlap"}] ELSE disturbed
      BY <2>4 DEF LookupToken, Disturb
    <3> QED
      BY <2>1, <2>2, <2>3, <3>3, <3>4
  <2>5. CASE LookupTokenFails(c, o, t)
    BY <1>a, <2>1, <2>2, <2>3, <2>5 DEF LookupTokenFails, Return, Disturb, PCs, Answers
  <2> QED
    BY <1>5, <2>4, <2>5
<1> QED
  <2>1. CASE BeginLogin(c) \/ \E o \in AdminOps : BeginAdmin(c, o)
    BY <1>1, <1>2, <1>a, <1>3, <1>4, <2>1
  <2>2. ASSUME NEW o \in TokenOps, NEW t \in Calls, LookupToken(c, o, t) \/ LookupTokenFails(c, o, t)
        PROVE  op'[c] = o /\ UNCHANGED hindered /\ Presents(c, t)
    BY <1>5, <2>2 DEF Presents
  <2> QED
    BY <1>1, <1>2, <1>5, <2>1, <2>2 DEF Begin

(* A call that begins with a token's operation presents some token.        *)
LEMMA FirstToken ==
    ASSUME TypeInv, NEW c \in Calls, Begin(c), op'[c] \in TokenOps
    PROVE  UNCHANGED hindered /\ \E t \in Calls : Presents(c, t)
<1>1. op'[c] # "login" /\ op'[c] \notin AdminOps
  BY DEF TokenOps, AdminOps
<1> QED
  BY <1>1, First

LEMMA TypeBegin ==
    ASSUME TypeInv, NEW c \in Calls, Begin(c)
    PROVE  TypeInv'
<1>t. TypeOK /\ \A x \in Calls : StatementOf(x) /\ SessionOf(x) /\ RowsOf(x)
  BY DEF TypeInv
<1>f. /\ UNCHANGED <<user, sessions, expiredSessions, tokens, expiredTokens>>
      /\ pc[c] = "idle" /\ op[c] = "none" /\ answer[c] = "none" /\ session[c] = None
      /\ tokens[c] = "absent" /\ sessions[c] = "absent"
      /\ op' \in [Calls -> Ops] /\ presented' \in [Calls -> Calls \cup {None}]
      /\ session' \in [Calls -> Calls \cup {None}]
      /\ pc' \in [Calls -> PCs] /\ answer' \in [Calls -> Answers]
      /\ \A x \in Calls : x # c => /\ pc'[x] = pc[x] /\ answer'[x] = answer[x]
                                  /\ op'[x] = op[x] /\ presented'[x] = presented[x]
                                  /\ session'[x] = session[x]
  BY First
<1>g. \/ /\ op'[c] = "login" /\ session'[c] = c
         /\ \/ pc'[c] = "create" /\ answer'[c] = "none"
            \/ pc'[c] = "done" /\ answer'[c] \in {"inactive", "error"}
      \/ /\ op'[c] \in AdminOps /\ session'[c] = None
         /\ \/ pc'[c] = "set" /\ answer'[c] = "none"
            \/ pc'[c] = "done" /\ answer'[c] \in {"notfound", "error"}
      \/ /\ op'[c] \in TokenOps
         /\ \E t \in Calls : /\ Held(t) /\ t # c /\ presented'[c] = t /\ session'[c] = session[t]
                            /\ session[t] \in Calls
         /\ \/ /\ \/ pc'[c] = "burn"
                  \/ op'[c] = "refresh" /\ pc'[c] \in {"discard", "rotate"}
               /\ answer'[c] = "none"
            \/ pc'[c] = "done" /\ answer'[c] \in {"invalid", "loggedout"}
  <2>1. \A o \in TokenOps, t \in Calls :
          Branch(o, t) = "burn" \/ (o = "refresh" /\ Branch(o, t) \in {"discard", "rotate"})
    BY DEF Branch, TokenOps
  <2>2. CASE op'[c] \notin TokenOps
    BY <2>2, First
  <2>3. CASE op'[c] \in TokenOps
    <3>1. op'[c] \notin {"login"} \cup AdminOps
      BY <2>3 DEF TokenOps, AdminOps
    <3>2. PICK t \in Calls :
            /\ Held(t) /\ t # c /\ presented'[c] = t /\ session'[c] = session[t]
            /\ session[t] \in Calls
            /\ \/ pc'[c] = Branch(op'[c], t) /\ answer'[c] = "none"
               \/ pc'[c] = "done" /\ answer'[c] \in {"invalid", "loggedout"}
      <4>1. PICK t \in Calls : Presents(c, t)
        BY <2>3, FirstToken
      <4> QED
        BY <4>1 DEF Presents
    <3> QED
      BY <2>1, <2>3, <3>2
  <2> QED
    BY <2>2, <2>3
<1>1. TypeOK'
  <2>1. disturbed' \in [Calls -> SUBSET {"overlap", "failure"}] /\ hindered' \in BOOLEAN
    <3>1. disturbed \in [Calls -> SUBSET {"overlap", "failure"}] /\ hindered \in BOOLEAN
      BY <1>t DEF TypeOK
    <3>2. hindered' \in BOOLEAN
      BY <3>1, First
    <3>3. \/ UNCHANGED disturbed
          \/ \E s \in Calls, w \in {"overlap", "failure"} :
                disturbed' = [disturbed EXCEPT ![s] = @ \cup {w}]
      <4>1. CASE op'[c] \notin TokenOps
        BY <4>1, First
      <4>2. CASE op'[c] \in TokenOps
        <5>1. PICK t \in Calls : Presents(c, t)
          BY <4>2, FirstToken
        <5>2. session[t] \in Calls
          BY <5>1 DEF Presents
        <5> QED
          BY <5>1, <5>2 DEF Presents
      <4> QED
        BY <4>1, <4>2
    <3> QED
      BY <3>1, <3>2, <3>3
  <2>2. \A x \in Calls : pc'[x] = "done" <=> answer'[x] # "none"
    BY <1>t, <1>f, <1>g DEF TypeOK
  <2> QED
    BY <1>t, <1>f, <2>1, <2>2 DEF TypeOK
<1>2. ASSUME NEW x \in Calls PROVE StatementOf(x)'
  BY <1>t, <1>f, <1>g DEF StatementOf, TokenOps, AdminOps
<1>3. ASSUME NEW x \in Calls PROVE SessionOf(x)'
  <2>1. \A t \in Calls : t # c => Held(t)' = Held(t)
    BY <1>f DEF Held
  <2>2. ~Held(c) /\ answer[c] # "ok"
    BY <1>f DEF Held
  <2>3. CASE x # c
    BY <1>t, <1>f, <2>1, <2>2, <2>3 DEF SessionOf
  <2>4. CASE x = c /\ op'[c] \notin TokenOps
    BY <1>g, <2>4 DEF SessionOf, TokenOps, AdminOps
  <2>5. CASE x = c /\ op'[c] \in TokenOps
    <3>1. PICK t \in Calls : /\ Held(t) /\ t # c /\ presented'[c] = t /\ session'[c] = session[t]
                             /\ session[t] \in Calls
      BY <1>g, <2>5 DEF TokenOps, AdminOps
    <3>2. op[session[t]] = "login" /\ answer[session[t]] = "ok"
      BY <1>t, <3>1 DEF Held, SessionOf, TokenOps
    <3>3. session[t] # c
      BY <1>f, <3>2
    <3>4. Held(t)' /\ op'[session[t]] = "login" /\ answer'[session[t]] = "ok" /\ session'[t] = session[t]
      BY <1>f, <2>1, <3>1, <3>2, <3>3
    <3> QED
      BY <2>5, <3>1, <3>4 DEF SessionOf, TokenOps
  <2> QED
    BY <2>3, <2>4, <2>5
<1>4. ASSUME NEW x \in Calls PROVE RowsOf(x)'
  <2>1. CASE x # c
    BY <1>t, <1>f, <2>1 DEF RowsOf, Held
  <2>2. CASE x = c
    BY <1>f, <1>g, <2>2 DEF RowsOf, Held, TokenOps, AdminOps
  <2> QED
    BY <2>1, <2>2
<1> QED
  BY <1>1, <1>2, <1>3, <1>4 DEF TypeInv

Clock(c) == ExpireSession(c) \/ ExpireToken(c)

LEMMA TypeStep == TypeInv /\ [Next]_vars => TypeInv'
<1> SUFFICES ASSUME TypeInv, [Next]_vars PROVE TypeInv'
  OBVIOUS
<1>1. ASSUME NEW c \in Calls, Clock(c) PROVE TypeInv'
  BY <1>1 DEF Clock, ExpireSession, ExpireToken, users, requests, TypeInv, TypeOK, StatementOf,
     SessionOf, RowsOf, Held
<1>2. CASE UNCHANGED vars
  BY <1>2 DEF vars, users, rows, requests, TypeInv, TypeOK, StatementOf, SessionOf, RowsOf, Held
<1> QED
  BY <1>1, <1>2, TypeBegin, TypeRun DEF Next, Clock

(* Type correctness of Sessions, for every set of calls.                   *)
THEOREM TypeCorrect == Spec => []TypeOK
<1>1. TypeInv => TypeOK
  BY DEF TypeInv
<1> QED
  BY <1>1, TypeInit, TypeStep, PTL DEF Spec

-------------------------------------------------------------------------------
(* The life of one undisturbed session: one call at a time, at most one    *)
(* live token, none while a call is about to issue one or after it has     *)
(* burnt the family, and no second rotation of a token.                    *)

One(s) == \A c, d \in Calls :
    Running(c) /\ Running(d) /\ session[c] = s /\ session[d] = s => c = d
Single(s) == \A t, u \in LiveTokens(s) : t = u
Rotating(s) == \A c \in Calls :
    session[c] = s /\ pc[c] = "rotate" => tokens[presented[c]] = "live"
Issuing(s) == \A c \in Calls :
    session[c] = s /\ pc[c] \in {"create", "load", "issue", "close"} => LiveTokens(s) = {}
Burning(s) == \A c \in Calls :
    session[c] = s /\ answer[c] \in {"reuse", "loggedout"} =>
        /\ LiveTokens(s) = {}
        /\ \A d \in Calls :
              session[d] = s => pc[d] \notin {"create", "rotate", "load", "issue"}
Rotated(s) == \A c \in Calls :
    session[c] = s /\ op[c] = "refresh" /\ answer[c] = "ok" =>
        /\ tokens[presented[c]] = "revoked"
        /\ \A d \in Calls :
              /\ op[d] = "refresh" /\ presented[d] = presented[c]
              /\ pc[d] \in {"rotate", "load", "issue"} \/ answer[d] = "ok"
              => d = c

Family(s) ==
    One(s) /\ Single(s) /\ Rotating(s) /\ Issuing(s) /\ Burning(s) /\ Rotated(s)

FamilyInv == \A s \in Calls : Undisturbed(s) => Family(s)

LEMMA FamilyInit == Init => FamilyInv
BY DEF Init, FamilyInv, Family, One, Single, Rotating, Issuing, Burning, Rotated, LiveTokens, Running

(* A running call writes the tokens of its own family only.                *)
LEMMA OwnFamily ==
    ASSUME TypeInv, NEW c \in Calls, Step(c) \/ Crash(c)
    PROVE  \A x \in Calls : session[x] # session[c] => tokens'[x] = tokens[x]
<1>t. /\ tokens \in [Calls -> RowStates] /\ StatementOf(c) /\ SessionOf(c)
  BY DEF TypeInv, TypeOK
<1>1. CASE IssueRefresh(c) \/ IssueRefreshFails(c)
  BY <1>t, <1>1 DEF IssueRefresh, IssueRefreshFails
<1>2. CASE Rotate(c) \/ RotateFails(c) \/ Discard(c)
  <2>1. session[c] = session[presented[c]]
    BY <1>t, <1>2 DEF Rotate, RotateFails, Discard, StatementOf, SessionOf, TokenOps
  <2> QED
    BY <1>t, <1>2, <2>1 DEF Rotate, RotateFails, Discard, RevokeToken
<1>3. CASE BurnFamily(c) \/ BurnFamilyFails(c)
  BY <1>t, <1>3 DEF BurnFamily, BurnFamilyFails, RevokeFamily
<1>4. CASE UNCHANGED tokens
  BY <1>4
<1>5. \/ IssueRefresh(c) \/ IssueRefreshFails(c) \/ Rotate(c) \/ RotateFails(c) \/ Discard(c)
      \/ BurnFamily(c) \/ BurnFamilyFails(c) \/ UNCHANGED tokens
  BY DEF Step, Crash, CreateSession, CreateSessionFails, LoadSession, CloseSession,
     CloseSessionFails, SetUser, SetUserFails, Sweep, SweepFails, rows
<1> QED
  BY <1>1, <1>2, <1>3, <1>4, <1>5

(* What is written about a session's disturbances stays. *)
LEMMA Disturbances ==
    ASSUME TypeInv, [Next]_vars, NEW s \in Calls
    PROVE  disturbed[s] \subseteq disturbed'[s]
<1>t. disturbed \in [Calls -> SUBSET {"overlap", "failure"}]
  BY DEF TypeInv, TypeOK
<1>1. ASSUME NEW z, NEW w, Disturb(z, w) PROVE disturbed[s] \subseteq disturbed'[s]
  BY <1>t, <1>1 DEF Disturb
<1>2. UNCHANGED disturbed \/ \E z, w : Disturb(z, w)
  <2>1. ASSUME NEW c \in Calls, Step(c) \/ Crash(c) PROVE UNCHANGED disturbed \/ \E z, w : Disturb(z, w)
    BY <2>1 DEF Step, Crash, CreateSession, CreateSessionFails, IssueRefresh, IssueRefreshFails, Rotate,
       RotateFails, LoadSession, Discard, BurnFamily, BurnFamilyFails, CloseSession,
       CloseSessionFails, SetUser, SetUserFails, Sweep, SweepFails
  <2>2. ASSUME NEW c \in Calls, Begin(c) PROVE UNCHANGED disturbed \/ \E z, w : Disturb(z, w)
    BY <2>2 DEF Begin, BeginLogin, BeginAdmin, LookupToken, LookupTokenFails
  <2>3. ASSUME NEW c \in Calls, Clock(c) PROVE UNCHANGED disturbed
    BY <2>3 DEF Clock, ExpireSession, ExpireToken
  <2> QED
    BY <2>1, <2>2, <2>3 DEF Next, Clock, vars
<1> QED
  BY <1>1, <1>2

(* A session the call does not work on. *)
LEMMA FamilyOther ==
    ASSUME TypeInv, NEW c \in Calls, Step(c) \/ Crash(c), NEW s \in Calls, session[c] # s, Family(s)
    PROVE  Family(s)'
<1>t. /\ TypeOK /\ \A x \in Calls : SessionOf(x)
  BY DEF TypeInv
<1>c. /\ UNCHANGED <<op, presented, session>>
      /\ \A x \in Calls : x # c => pc'[x] = pc[x] /\ answer'[x] = answer[x]
  BY Control
<1>1. \A x \in Calls : session[x] = s => tokens'[x] = tokens[x]
  BY OwnFamily
<1>2. LiveTokens(s)' = LiveTokens(s)
  BY <1>c, <1>1 DEF LiveTokens
<1>3. \A x \in Calls : session[x] = s =>
         /\ pc'[x] = pc[x] /\ answer'[x] = answer[x]
         /\ op[x] \in TokenOps => /\ presented[x] \in Calls /\ session[presented[x]] = s
                                 /\ tokens'[presented[x]] = tokens[presented[x]]
  BY <1>c, <1>t, <1>1 DEF SessionOf
<1>4. \A x \in Calls : pc[x] = "rotate" => op[x] \in TokenOps
  BY DEF TypeInv, StatementOf, TokenOps
<1>5. One(s)' /\ Single(s)' /\ Issuing(s)' /\ Burning(s)'
  BY <1>c, <1>2, <1>3 DEF Family, One, Single, Issuing, Burning, Running
<1>6. Rotating(s)'
  BY <1>c, <1>3, <1>4 DEF Family, Rotating
<1>7. Rotated(s)'
  <2>1. SUFFICES ASSUME NEW x \in Calls, session[x] = s, op[x] = "refresh", answer[x] = "ok"
                 PROVE  /\ tokens'[presented[x]] = "revoked"
                        /\ \A d \in Calls :
                              /\ op[d] = "refresh" /\ presented[d] = presented[x]
                              /\ pc'[d] \in {"rotate", "load", "issue"} \/ answer'[d] = "ok"
                              => d = x
    BY <1>c, <1>3 DEF Rotated
  <2>2. \A d \in Calls : op[d] = "refresh" /\ presented[d] = presented[x] => session[d] = s
    BY <1>t, <2>1 DEF SessionOf, TokenOps
  <2> QED
    BY <1>3, <2>1, <2>2 DEF Family, Rotated, TokenOps
<1> QED
  BY <1>5, <1>6, <1>7 DEF Family

(* The session the call works on: what the step does to the family, when   *)
(* it does not disturb it.                                                 *)
LEMMA OwnTokens ==
    ASSUME TypeInv, NEW c \in Calls, Step(c) \/ Crash(c), session[c] \in Calls,
           Undisturbed(session[c])', Family(session[c])
    PROVE  /\ pc[c] # "issue" => LiveTokens(session[c])' \subseteq LiveTokens(session[c])
           /\ pc[c] = "issue" => LiveTokens(session[c])' \subseteq {c}
           /\ pc'[c] = "load" \/ pc'[c] = "close" => LiveTokens(session[c])' = {}
           /\ \A t \in Calls : tokens[t] = "revoked" => tokens'[t] = "revoked"
<1> DEFINE s == session[c]
<1>t. /\ tokens \in [Calls -> RowStates] /\ disturbed \in [Calls -> SUBSET {"overlap", "failure"}]
      /\ pc \in [Calls -> PCs] /\ StatementOf(c) /\ SessionOf(c) /\ RowsOf(c)
  BY DEF TypeInv, TypeOK
<1>c. UNCHANGED session
  BY Control
<1>d. /\ \A x \in Calls : x # c \/ pc[c] # "issue" => tokens'[x] \in {tokens[x], Revoke(tokens[x])}
      /\ pc[c] = "issue" => tokens'[c] \in {tokens[c], "live"}
  BY Data
<1>r. \A r \in RowStates : Revoke(r) # "live" /\ (r = "revoked" => Revoke(r) = "revoked")
  BY DEF Revoke, RowStates
<1>1. pc[c] # "issue" => LiveTokens(s)' \subseteq LiveTokens(s)
  BY <1>t, <1>c, <1>d, <1>r DEF LiveTokens
<1>2. pc[c] = "issue" => LiveTokens(s)' \subseteq {c}
  <2>1. pc[c] = "issue" => LiveTokens(s) = {}
    BY DEF Family, Issuing
  <2> QED
    BY <2>1, <1>t, <1>c, <1>d, <1>r DEF LiveTokens
<1>3. \A t \in Calls : tokens[t] = "revoked" => tokens'[t] = "revoked"
  <2>1. pc[c] = "issue" => tokens[c] = "absent"
    BY <1>t DEF RowsOf
  <2> QED
    BY <1>t, <1>d, <1>r, <2>1
<1>4. pc'[c] = "load" \/ pc'[c] = "close" => LiveTokens(s)' = {}
  <2>0. ASSUME Disturb(session[c], "failure") PROVE FALSE
    BY <1>t, <1>c, <2>0 DEF Disturb, Undisturbed
  <2>s. pc'[c] # "done" => Step(c)
    BY <1>t DEF Crash, Return
  <2>1. CASE pc'[c] = "load"
    <3>1. pc[c] = "rotate"
      BY <2>1, Control DEF Moves
    <3>2. tokens' = RevokeToken(presented[c])
      BY <2>0, <2>1, <2>s, <3>1 DEF Step, CreateSession, CreateSessionFails, IssueRefresh,
         IssueRefreshFails, Rotate, RotateFails, LoadSession, Discard, BurnFamily, BurnFamilyFails,
         CloseSession, CloseSessionFails, SetUser, SetUserFails, Sweep, SweepFails
    <3>3. presented[c] \in Calls /\ session[presented[c]] = s /\ tokens[presented[c]] = "live"
      BY <1>t, <3>1 DEF StatementOf, SessionOf, TokenOps, Family, Rotating
    <3>4. LiveTokens(s) \subseteq {presented[c]}
      BY <3>3 DEF Family, Single, LiveTokens
    <3>5. tokens'[presented[c]] # "live"
      BY <1>t, <1>r, <3>2, <3>3 DEF RevokeToken
    <3> QED
      BY <1>1, <3>1, <3>4, <3>5 DEF LiveTokens
  <2>2. CASE pc'[c] = "close"
    <3>1. pc[c] = "burn"
      BY <2>2, Control DEF Moves
    <3>2. tokens' = RevokeFamily(session[c], presented[c])
      BY <2>0, <2>2, <2>s, <3>1 DEF Step, CreateSession, CreateSessionFails, IssueRefresh,
         IssueRefreshFails, Rotate, RotateFails, LoadSession, Discard, BurnFamily, BurnFamilyFails,
         CloseSession, CloseSessionFails, SetUser, SetUserFails, Sweep, SweepFails
    <3> QED
      BY <1>t, <1>c, <1>r, <3>2 DEF RevokeFamily, LiveTokens
  <2> QED
    BY <2>1, <2>2
<1> QED
  BY <1>1, <1>2, <1>3, <1>4

LEMMA FamilyOwn ==
    ASSUME TypeInv, NEW c \in Calls, Step(c) \/ Crash(c), NEW s \in Calls, session[c] = s,
           Undisturbed(s)', Family(s)
    PROVE  Family(s)'
<1>t. /\ TypeOK /\ \A x \in Calls : StatementOf(x) /\ SessionOf(x) /\ RowsOf(x)
  BY DEF TypeInv
<1>c. /\ UNCHANGED <<op, presented, session>> /\ Running(c) /\ Moves(c)
      /\ \A x \in Calls : x # c => pc'[x] = pc[x] /\ answer'[x] = answer[x]
      /\ pc'[c] = "done" <=> answer'[c] # "none"
  BY Control
<1>n. answer[c] = "none"
  BY <1>t, <1>c DEF Running, TypeOK
<1>o. \A x \in Calls : session[x] = s /\ x # c => ~Running(x) /\ ~Running(x)'
  BY <1>c DEF Family, One, Running
<1>d. /\ pc[c] # "issue" => LiveTokens(s)' \subseteq LiveTokens(s)
      /\ pc[c] = "issue" => LiveTokens(s)' \subseteq {c}
      /\ pc'[c] = "load" \/ pc'[c] = "close" => LiveTokens(s)' = {}
      /\ \A t \in Calls : tokens[t] = "revoked" => tokens'[t] = "revoked"
  <2>1. Undisturbed(session[c])'
    BY <1>c DEF Undisturbed
  <2>2. LiveTokens(session[c])' = LiveTokens(s)'
    BY <1>c DEF LiveTokens
  <2> QED
    BY <2>1, <2>2, OwnTokens
<1>1. One(s)'
  BY <1>c, <1>o DEF One
<1>2. Single(s)'
  BY <1>d DEF Family, Single
<1>3. Rotating(s)'
  BY <1>c, <1>o DEF Rotating, Running, Moves
<1>4. Issuing(s)'
  <2>1. pc'[c] \in {"create", "load", "issue", "close"} => LiveTokens(s)' = {}
    <3>1. pc'[c] # "create"
      BY <1>c DEF Moves, Running
    <3>2. pc'[c] = "issue" => pc[c] \in {"create", "load"}
      BY <1>c DEF Moves
    <3>3. pc[c] \in {"create", "load"} => LiveTokens(s) = {}
      BY DEF Family, Issuing
    <3> QED
      BY <1>d, <3>1, <3>2, <3>3
  <2> QED
    BY <1>c, <1>o, <2>1 DEF Issuing, Running
<1>5. Burning(s)'
  <2> SUFFICES ASSUME NEW x \in Calls, session[x] = s, answer'[x] \in {"reuse", "loggedout"}
               PROVE  /\ LiveTokens(s)' = {}
                      /\ \A d \in Calls :
                            session[d] = s => pc'[d] \notin {"create", "rotate", "load", "issue"}
    BY <1>c DEF Burning
  <2>1. CASE x = c
    <3>1. pc[c] = "close" /\ pc'[c] = "done"
      BY <1>c, <2>1 DEF Moves
    <3>2. LiveTokens(s) = {}
      BY <3>1 DEF Family, Issuing
    <3> QED
      BY <1>c, <1>d, <1>o, <3>1, <3>2 DEF Running
  <2>2. CASE x # c
    <3>1. /\ LiveTokens(s) = {}
          /\ \A d \in Calls : session[d] = s => pc[d] \notin {"create", "rotate", "load", "issue"}
      BY <1>c, <2>2 DEF Family, Burning
    <3>2. pc[c] # "issue" /\ pc'[c] \notin {"create", "rotate", "load", "issue"}
      BY <1>c, <3>1 DEF Moves, Running
    <3> QED
      BY <1>c, <1>d, <3>1, <3>2
  <2> QED
    BY <2>1, <2>2
<1>6. Rotated(s)'
  <2> SUFFICES ASSUME NEW x \in Calls, session[x] = s, op[x] = "refresh", answer'[x] = "ok"
               PROVE  /\ tokens'[presented[x]] = "revoked"
                      /\ \A d \in Calls :
                            /\ op[d] = "refresh" /\ presented[d] = presented[x]
                            /\ pc'[d] \in {"rotate", "load", "issue"} \/ answer'[d] = "ok"
                            => d = x
    BY <1>c DEF Rotated
  <2>0. presented[x] \in Calls /\ session[presented[x]] = s /\ tokens[presented[x]] \in {"live", "revoked"}
    BY <1>t DEF SessionOf, RowsOf, TokenOps, TypeOK, RowStates
  <2>1. \A d \in Calls : op[d] = "refresh" /\ presented[d] = presented[x] => session[d] = s
    BY <1>t, <2>0 DEF SessionOf, TokenOps
  <2>2. pc'[c] \in {"rotate", "load", "issue"} => pc[c] \in {"create", "rotate", "load", "issue"}
    BY <1>c DEF Moves
  <2>3. answer'[c] = "ok" => pc[c] = "issue" \/ op[c] \in AdminOps
    BY <1>c, <1>t DEF Moves, Burnt, StatementOf
  <2>4. CASE x = c
    <3>1. pc[c] = "issue" /\ pc'[c] = "done"
      BY <1>c, <2>3, <2>4 DEF AdminOps
    <3>2. tokens[presented[x]] = "revoked"
      BY <2>0, <3>1 DEF Family, Issuing, LiveTokens
    <3>3. ASSUME NEW d \in Calls, d # c, op[d] = "refresh", presented[d] = presented[x], answer[d] = "ok"
          PROVE  FALSE
      BY <2>1, <2>4, <3>1, <3>3 DEF Family, Rotated
    <3> QED
      BY <1>c, <1>d, <1>o, <2>0, <2>1, <2>4, <3>2, <3>3 DEF Running
  <2>5. CASE x # c
    <3>1. /\ tokens[presented[x]] = "revoked"
          /\ \A d \in Calls :
                /\ op[d] = "refresh" /\ presented[d] = presented[x]
                /\ pc[d] \in {"rotate", "load", "issue"} \/ answer[d] = "ok"
                => d = x
      BY <1>c, <2>5 DEF Family, Rotated
    <3>2. ~(op[c] = "refresh" /\ presented[c] = presented[x]
              /\ (pc'[c] \in {"rotate", "load", "issue"} \/ answer'[c] = "ok"))
      BY <1>t, <2>2, <2>3, <2>5, <3>1 DEF StatementOf, AdminOps
    <3> QED
      BY <1>c, <1>d, <2>0, <2>5, <3>1, <3>2
  <2> QED
    BY <2>4, <2>5
<1> QED
  BY <1>1, <1>2, <1>3, <1>4, <1>5, <1>6 DEF Family

(* A call that begins: on a session with a running call it is an overlap,  *)
(* and so it rotates only a token that is live and that nobody rotates.    *)
LEMMA FamilyFirst ==
    ASSUME TypeInv, NEW c \in Calls, Begin(c), NEW s \in Calls, Undisturbed(s)'
    PROVE  /\ LiveTokens(s)' = LiveTokens(s)
           /\ session'[c] = s /\ Running(c)' =>
                 \A x \in Calls : x # c /\ session[x] = s => ~Running(x)
           /\ session'[c] = s => pc'[c] \notin {"load", "issue", "close"}
           /\ session'[c] = s /\ pc'[c] = "create" =>
                 LiveTokens(s) = {} /\ \A x \in Calls : session[x] # s
           /\ session'[c] = s /\ pc'[c] = "rotate" => presented'[c] \in LiveTokens(s)
           /\ session'[c] = s => answer'[c] \notin {"reuse", "loggedout", "ok"}
           /\ session'[c] # s /\ op'[c] = "refresh" =>
                 presented'[c] \in Calls /\ session[presented'[c]] # s
<1>t. TypeOK /\ \A x \in Calls : StatementOf(x) /\ SessionOf(x) /\ RowsOf(x)
  BY DEF TypeInv
<1>f. /\ UNCHANGED tokens
      /\ op[c] = "none" /\ session[c] = None /\ tokens[c] = "absent"
      /\ \A x \in Calls : x # c => session'[x] = session[x]
  BY First
<1>1. LiveTokens(s)' = LiveTokens(s)
  BY <1>f DEF LiveTokens
<1>n. \A x \in Calls : session[x] # c
  BY <1>t, <1>f, NoneAssumption DEF SessionOf, TypeOK, Ops
<1>2. CASE op'[c] = "login"
  <2>1. session'[c] = c /\ pc'[c] \in {"create", "done"} /\ answer'[c] \in {"none", "inactive", "error"}
    BY <1>2, First DEF AdminOps, TokenOps
  <2> QED
    BY <1>1, <1>2, <1>n, <2>1 DEF LiveTokens
<1>3. CASE op'[c] \in AdminOps
  <2>1. session'[c] = None
    BY <1>3, First DEF AdminOps, TokenOps
  <2> QED
    BY <1>1, <1>3, <2>1, NoneAssumption DEF AdminOps
<1>4. CASE op'[c] \in TokenOps
  <2>1. PICK t \in Calls :
          /\ Held(t) /\ presented'[c] = t /\ session'[c] = session[t]
          /\ session[t] \in Calls
          /\ \/ /\ pc'[c] = Branch(op'[c], t) /\ answer'[c] = "none"
                /\ disturbed' = IF RunningOn(session[t])
                      THEN [disturbed EXCEPT ![session[t]] = @ \cup {"overlap"}]
                      ELSE disturbed
             \/ /\ pc'[c] = "done"
                /\ \/ answer'[c] = "invalid"
                   \/ /\ answer'[c] = "loggedout"
                      /\ disturbed' = [disturbed EXCEPT ![session[t]] = @ \cup {"failure"}]
    <3>1. PICK t \in Calls : Presents(c, t)
      BY <1>4, FirstToken
    <3> QED
      BY <3>1 DEF Presents
  <2>2. CASE session[t] # s
    BY <1>1, <2>1, <2>2
  <2>3. CASE session[t] = s
    <3>d. disturbed \in [Calls -> SUBSET {"overlap", "failure"}]
      BY <1>t DEF TypeOK
    <3>1. CASE pc'[c] = "done"
      <4>1. answer'[c] \notin {"reuse", "loggedout", "ok"}
        BY <2>1, <2>3, <3>1, <3>d DEF Undisturbed, Branch
      <4> QED
        BY <1>1, <2>1, <2>3, <3>1, <4>1 DEF Running
    <3>2. CASE pc'[c] # "done"
      <4>1. /\ pc'[c] = Branch(op'[c], t) /\ answer'[c] = "none"
            /\ disturbed' = IF RunningOn(session[t])
                  THEN [disturbed EXCEPT ![session[t]] = @ \cup {"overlap"}]
                  ELSE disturbed
        BY <2>1, <3>2
      <4>2. ~RunningOn(s)
        BY <2>3, <3>d, <4>1 DEF Undisturbed
      <4>3. tokens[t] \in {"live", "revoked"}
        BY <1>t, <2>1 DEF RowsOf, TypeOK, RowStates
      <4>4. pc'[c] \in {"burn", "discard", "rotate"} /\ (pc'[c] = "rotate" => tokens[t] = "live")
        BY <1>4, <4>1, <4>3 DEF Branch, TokenOps
      <4> QED
        BY <1>1, <2>1, <2>3, <4>1, <4>2, <4>4 DEF RunningOn, LiveTokens
    <3> QED
      BY <3>1, <3>2
  <2> QED
    BY <2>2, <2>3
<1> QED
  BY <1>2, <1>3, <1>4, First

LEMMA FamilyBegin ==
    ASSUME TypeInv, NEW c \in Calls, Begin(c), NEW s \in Calls, Undisturbed(s)', Family(s)
    PROVE  Family(s)'
<1>t. \A x \in Calls : StatementOf(x) /\ SessionOf(x) /\ RowsOf(x)
  BY DEF TypeInv
<1>f. /\ UNCHANGED tokens /\ answer[c] = "none" /\ answer'[c] # "ok" /\ session[c] # s
      /\ \A x \in Calls : x # c => /\ pc'[x] = pc[x] /\ answer'[x] = answer[x]
                                  /\ op'[x] = op[x] /\ presented'[x] = presented[x]
                                  /\ session'[x] = session[x]
  <2>1. answer'[c] # "ok"
    <3>1. CASE op'[c] \notin TokenOps
      BY <3>1, First
    <3>2. CASE op'[c] \in TokenOps
      <4>1. PICK t \in Calls : Presents(c, t)
        BY <3>2, FirstToken
      <4> QED
        BY <4>1 DEF Presents
    <3> QED
      BY <3>1, <3>2
  <2> QED
    BY <2>1, First, NoneAssumption
<1>g. /\ LiveTokens(s)' = LiveTokens(s)
      /\ session'[c] = s /\ Running(c)' =>
            \A x \in Calls : x # c /\ session[x] = s => ~Running(x)
      /\ session'[c] = s => pc'[c] \notin {"load", "issue", "close"}
      /\ session'[c] = s /\ pc'[c] = "create" =>
            LiveTokens(s) = {} /\ \A x \in Calls : session[x] # s
      /\ session'[c] = s /\ pc'[c] = "rotate" => presented'[c] \in LiveTokens(s)
      /\ session'[c] = s => answer'[c] \notin {"reuse", "loggedout", "ok"}
      /\ session'[c] # s /\ op'[c] = "refresh" =>
            presented'[c] \in Calls /\ session[presented'[c]] # s
  BY FamilyFirst
<1>1. One(s)'
  BY <1>f, <1>g DEF Family, One, Running
<1>2. Single(s)'
  BY <1>g DEF Family, Single
<1>3. Rotating(s)'
  BY <1>f, <1>g DEF Family, Rotating, LiveTokens
<1>4. Issuing(s)'
  BY <1>f, <1>g DEF Family, Issuing
<1>5. Burning(s)'
  <2> SUFFICES ASSUME NEW x \in Calls, x # c, session[x] = s, answer[x] \in {"reuse", "loggedout"}
               PROVE  /\ LiveTokens(s) = {}
                      /\ \A d \in Calls :
                            session'[d] = s => pc'[d] \notin {"create", "rotate", "load", "issue"}
    BY <1>f, <1>g DEF Burning
  <2>1. /\ LiveTokens(s) = {}
        /\ \A d \in Calls : session[d] = s => pc[d] \notin {"create", "rotate", "load", "issue"}
    BY DEF Family, Burning
  <2> QED
    BY <1>f, <1>g, <2>1
<1>6. Rotated(s)'
  <2> SUFFICES ASSUME NEW x \in Calls, x # c, session[x] = s, op[x] = "refresh", answer[x] = "ok"
               PROVE  /\ tokens[presented[x]] = "revoked"
                      /\ \A d \in Calls :
                            /\ op'[d] = "refresh" /\ presented'[d] = presented[x]
                            /\ pc'[d] \in {"rotate", "load", "issue"} \/ answer'[d] = "ok"
                            => d = x
    BY <1>f, <1>g DEF Rotated
  <2>1. /\ tokens[presented[x]] = "revoked"
        /\ \A d \in Calls :
              /\ op[d] = "refresh" /\ presented[d] = presented[x]
              /\ pc[d] \in {"rotate", "load", "issue"} \/ answer[d] = "ok"
              => d = x
    BY DEF Family, Rotated
  <2>2. session[presented[x]] = s
    BY <1>t DEF SessionOf, TokenOps
  <2>3. ~(op'[c] = "refresh" /\ presented'[c] = presented[x]
            /\ pc'[c] \in {"rotate", "load", "issue"})
    BY <1>g, <2>1, <2>2 DEF LiveTokens
  <2> QED
    BY <1>f, <2>1, <2>3
<1> QED
  BY <1>1, <1>2, <1>3, <1>4, <1>5, <1>6 DEF Family

LEMMA FamilyStep == TypeInv /\ FamilyInv /\ [Next]_vars => FamilyInv'
<1> SUFFICES ASSUME TypeInv, FamilyInv, [Next]_vars, NEW s \in Calls, Undisturbed(s)'
             PROVE  Family(s)'
  BY DEF FamilyInv
<1>1. Family(s)
  <2>1. disturbed[s] \subseteq disturbed'[s]
    BY Disturbances
  <2> QED
    BY <2>1 DEF FamilyInv, Undisturbed
<1>2. ASSUME NEW c \in Calls, Step(c) \/ Crash(c) PROVE Family(s)'
  BY <1>1, <1>2, FamilyOwn, FamilyOther
<1>3. ASSUME NEW c \in Calls, Begin(c) PROVE Family(s)'
  BY <1>1, <1>3, FamilyBegin
<1>4. CASE UNCHANGED vars \/ \E c \in Calls : Clock(c)
  <2>1. UNCHANGED <<tokens, op, presented, session, pc, answer>>
    BY <1>4 DEF Clock, ExpireSession, ExpireToken, vars, rows, requests
  <2> QED
    BY <1>1, <2>1 DEF Family, One, Single, Rotating, Issuing, Burning, Rotated, LiveTokens, Running
<1> QED
  BY <1>2, <1>3, <1>4 DEF Next, Clock

-------------------------------------------------------------------------------
(* The session that a logout or a detected reuse has closed.               *)
ClosedInv ==
    \A c \in Calls :
        answer[c] \in {"reuse", "loggedout"} /\ "failure" \notin disturbed[session[c]]
        => sessions[session[c]] = "revoked"

LEMMA ClosedStep == TypeInv /\ ClosedInv /\ [Next]_vars => ClosedInv'
<1> SUFFICES ASSUME TypeInv, ClosedInv, [Next]_vars, NEW x \in Calls,
                    answer'[x] \in {"reuse", "loggedout"},
                    "failure" \notin disturbed'[session'[x]]
             PROVE  sessions'[session'[x]] = "revoked"
  BY DEF ClosedInv
<1>t. TypeOK /\ \A y \in Calls : StatementOf(y) /\ SessionOf(y) /\ RowsOf(y)
  BY DEF TypeInv
<1>1. ASSUME answer[x] \in {"reuse", "loggedout"}, session'[x] = session[x]
      PROVE  session[x] \in Calls /\ op[session[x]] = "login" /\ answer[session[x]] = "ok"
             /\ sessions[session[x]] = "revoked"
  <2>1. session[x] \in Calls /\ op[session[x]] = "login" /\ answer[session[x]] = "ok"
    BY <1>t, <1>1 DEF RowsOf, SessionOf
  <2>2. disturbed[session[x]] \subseteq disturbed'[session[x]]
    BY <2>1, Disturbances
  <2> QED
    BY <1>1, <2>1, <2>2 DEF ClosedInv
<1>2. ASSUME NEW c \in Calls, Begin(c) PROVE sessions'[session'[x]] = "revoked"
  <2>f. /\ UNCHANGED sessions /\ answer[c] = "none"
        /\ \A y \in Calls : y # c => answer'[y] = answer[y] /\ session'[y] = session[y]
    BY <1>2, First
  <2>1. CASE x # c
    BY <1>1, <2>1, <2>f
  <2>2. CASE x = c
    <3>1. op'[c] \in TokenOps
      BY <1>2, <2>2, TypeBegin DEF TypeInv, RowsOf
    <3>2. PICK t \in Calls :
            /\ session'[c] = session[t] /\ session[t] \in Calls
            /\ disturbed' = [disturbed EXCEPT ![session[t]] = @ \cup {"failure"}]
      <4>1. PICK t \in Calls : Presents(c, t)
        BY <1>2, <3>1, FirstToken
      <4> QED
        BY <2>2, <4>1 DEF Presents
    <3> QED
      BY <1>t, <2>2, <3>2 DEF TypeOK
  <2> QED
    BY <2>1, <2>2
<1>3. ASSUME NEW c \in Calls, Step(c) \/ Crash(c) PROVE sessions'[session'[x]] = "revoked"
  <2>c. /\ UNCHANGED session /\ Running(c) /\ Moves(c)
        /\ \A y \in Calls : y # c => answer'[y] = answer[y]
    BY <1>3, Control
  <2>d. \A y \in Calls : y # c \/ pc[c] # "create" => sessions'[y] \in {sessions[y], Revoke(sessions[y])}
    BY <1>3, Data
  <2>1. CASE x # c
    <3>1. /\ session[x] \in Calls /\ answer[session[x]] = "ok" /\ sessions[session[x]] = "revoked"
      BY <1>1, <2>1, <2>c
    <3>2. session[x] # c
      BY <1>t, <2>c, <3>1 DEF TypeOK, Running
    <3> QED
      BY <2>c, <2>d, <3>1, <3>2 DEF Revoke
  <2>2. CASE x = c
    <3>1. pc[c] = "close" /\ pc'[c] = "done" /\ answer'[c] # "crashed"
      BY <2>2, <2>c DEF Moves
    <3>2. answer'[c] = Burnt(c) /\ ~Crash(c)
      BY <1>t, <2>2, <2>c, <3>1 DEF Moves, Crash, Return, TypeOK
    <3>3. session[c] \in Calls /\ op[session[c]] = "login" /\ answer[session[c]] = "ok"
      BY <1>t, <3>1 DEF StatementOf, SessionOf
    <3>4. sessions[session[c]] \in {"live", "revoked"}
      BY <1>t, <3>3 DEF RowsOf, Held, TypeOK, RowStates
    <3>5. CloseSession(c) \/ CloseSessionFails(c)
      BY <1>3, <3>1, <3>2 DEF Step, CreateSession, CreateSessionFails, IssueRefresh,
         IssueRefreshFails, Rotate, RotateFails, LoadSession, Discard, BurnFamily, BurnFamilyFails,
         SetUser, SetUserFails, Sweep, SweepFails
    <3>6. ~CloseSessionFails(c)
      BY <1>t, <2>2, <2>c, <3>3 DEF CloseSessionFails, Disturb, TypeOK
    <3>7. sessions' = RevokeSession(session[c])
      BY <3>5, <3>6 DEF CloseSession
    <3> QED
      BY <1>t, <2>2, <2>c, <3>3, <3>4, <3>7 DEF RevokeSession, Revoke, TypeOK
  <2> QED
    BY <2>1, <2>2
<1>4. CASE UNCHANGED vars \/ \E c \in Calls : Clock(c)
  <2>1. UNCHANGED <<sessions, session, answer>>
    BY <1>4 DEF Clock, ExpireSession, ExpireToken, vars, rows, requests
  <2> QED
    BY <1>1, <2>1
<1> QED
  BY <1>2, <1>3, <1>4 DEF Next, Clock

FamilyAll == TypeInv /\ FamilyInv /\ ClosedInv

LEMMA FamilyAllStep == FamilyAll /\ [Next]_vars => FamilyAll'
BY TypeStep, FamilyStep, ClosedStep DEF FamilyAll

LEMMA FamilyAllInit == Init => FamilyAll
BY TypeInit, FamilyInit DEF FamilyAll, ClosedInv, Init

(* At most one live token in an undisturbed family: rotation revokes the   *)
(* presented token before it issues one.                                   *)
THEOREM RotationKeepsOne == Spec => []OneLiveToken
<1>1. FamilyAll => OneLiveToken
  BY DEF FamilyAll, FamilyInv, Family, Single, OneLiveToken
<1> QED
  BY <1>1, FamilyAllInit, FamilyAllStep, PTL DEF Spec

(* No token of an undisturbed family is exchanged twice: reuse detection.  *)
THEOREM ReuseDetected == Spec => []RotatedOnce
<1>1. FamilyAll => RotatedOnce
  <2> SUFFICES ASSUME FamilyAll, NEW c \in Calls, NEW d \in Calls,
                      op[c] = "refresh", answer[c] = "ok", op[d] = "refresh", answer[d] = "ok",
                      presented[c] = presented[d], Undisturbed(session[c])
               PROVE  c = d
    BY DEF RotatedOnce
  <2>1. session[c] \in Calls
    BY DEF FamilyAll, TypeInv, SessionOf, TokenOps
  <2> QED
    BY <2>1 DEF FamilyAll, FamilyInv, Family, Rotated
<1> QED
  BY <1>1, FamilyAllInit, FamilyAllStep, PTL DEF Spec

(* A logout or a detected reuse ends the session for good, and an          *)
(* undisturbed family with it.                                             *)
THEOREM BurntForGood == Spec => []BurntStaysBurnt
<1>1. FamilyAll => BurntStaysBurnt
  <2> SUFFICES ASSUME FamilyAll, NEW c \in Calls, answer[c] \in {"reuse", "loggedout"}
               PROVE  /\ "failure" \notin disturbed[session[c]] => sessions[session[c]] = "revoked"
                      /\ Undisturbed(session[c]) => LiveTokens(session[c]) = {}
    BY DEF BurntStaysBurnt
  <2>1. session[c] \in Calls
    BY DEF FamilyAll, TypeInv, RowsOf, SessionOf
  <2> QED
    BY <2>1 DEF FamilyAll, FamilyInv, ClosedInv, Family, Burning
<1> QED
  BY <1>1, FamilyAllInit, FamilyAllStep, PTL DEF Spec

-------------------------------------------------------------------------------
(* The user and the sessions: unless the history says otherwise, logins    *)
(* and administrator's calls do not overlap, a login runs for an active    *)
(* user only, and a user who is not active has a live session only until   *)
(* the sweep of the call that made them so.                                *)
Sweeping == \E c \in Calls : pc[c] = "sweep"

UserInv ==
    ~hindered =>
        /\ ~(Administering /\ LoggingIn)
        /\ LoggingIn => user = "active"
        /\ user # "active" /\ ~Sweeping => \A s \in Calls : sessions[s] # "live"

LEMMA UserInit == Init => UserInv
BY DEF Init, UserInv, Administering, LoggingIn, Running

(* A running call keeps its kind, so none of the two predicates becomes    *)
(* true.                                                                   *)
LEMMA Kinds ==
    ASSUME TypeInv, NEW c \in Calls, Step(c) \/ Crash(c)
    PROVE  /\ Administering' => Administering
           /\ LoggingIn' => LoggingIn
           /\ op[c] = "login" => LoggingIn
           /\ op[c] \in AdminOps => Administering
           /\ ~hindered' => ~hindered
<1>c. /\ UNCHANGED op /\ Running(c) /\ \A x \in Calls : x # c => pc'[x] = pc[x]
  BY Control
<1>1. ~hindered' => ~hindered
  BY DEF Step, Crash, CreateSession, CreateSessionFails, IssueRefresh, IssueRefreshFails, Rotate,
     RotateFails, LoadSession, Discard, BurnFamily, BurnFamilyFails, CloseSession,
     CloseSessionFails, SetUser, SetUserFails, Sweep, SweepFails, users
<1> QED
  BY <1>1, <1>c DEF Administering, LoggingIn, Running

LEMMA UserRun ==
    ASSUME TypeInv, UserInv, NEW c \in Calls, Step(c) \/ Crash(c)
    PROVE  UserInv'
<1> SUFFICES ASSUME ~hindered'
             PROVE  /\ ~(Administering /\ LoggingIn)'
                    /\ LoggingIn' => user' = "active"
                    /\ user' # "active" /\ ~Sweeping' => \A s \in Calls : sessions'[s] # "live"
  BY DEF UserInv
<1>t. TypeOK /\ StatementOf(c)
  BY DEF TypeInv
<1>k. /\ Administering' => Administering
      /\ LoggingIn' => LoggingIn
      /\ op[c] = "login" => LoggingIn
      /\ op[c] \in AdminOps => Administering
      /\ ~hindered
  BY Kinds
<1>u. /\ ~(Administering /\ LoggingIn)
      /\ LoggingIn => user = "active"
      /\ user # "active" /\ ~Sweeping => \A s \in Calls : sessions[s] # "live"
  BY <1>k DEF UserInv
<1>c. pc' \in [Calls -> PCs] /\ \A x \in Calls : x # c => pc'[x] = pc[x]
  BY Control
<1>d. \A x \in Calls : x # c \/ pc[c] # "create" => sessions'[x] \in {sessions[x], Revoke(sessions[x])}
  BY Data
<1>r. \A v : Revoke(v) # "live"
  BY DEF Revoke
<1>1. CASE pc[c] \notin {"set", "sweep"}
  <2>1. UNCHANGED user /\ pc'[c] # "sweep"
    <3>1. UNCHANGED user
      BY <1>1 DEF Step, Crash, CreateSession, CreateSessionFails, IssueRefresh, IssueRefreshFails,
         Rotate, RotateFails, LoadSession, Discard, BurnFamily, BurnFamilyFails, CloseSession,
         CloseSessionFails, SetUser, SetUserFails, Sweep, SweepFails, users
    <3> QED
      BY <1>1, <3>1, Control DEF Moves
  <2>2. Sweeping' <=> Sweeping
    BY <1>1, <1>c, <2>1 DEF Sweeping
  <2>3. ASSUME user # "active", ~Sweeping, NEW s \in Calls PROVE sessions'[s] # "live"
    <3>1. pc[c] # "create"
      BY <1>k, <1>u, <1>t, <2>3 DEF StatementOf
    <3> QED
      BY <1>d, <1>r, <1>u, <2>3, <3>1
  <2> QED
    BY <1>k, <1>u, <2>1, <2>2, <2>3
<1>2. CASE pc[c] = "sweep"
  <2>1. Sweep(c)
    BY <1>k, <1>2 DEF Step, Crash, CreateSession, CreateSessionFails, IssueRefresh, IssueRefreshFails,
       Rotate, RotateFails, LoadSession, Discard, BurnFamily, BurnFamilyFails, CloseSession,
       CloseSessionFails, SetUser, SetUserFails, SweepFails
  <2>2. UNCHANGED user /\ \A s \in Calls : sessions'[s] # "live"
    BY <1>r, <2>1 DEF Sweep, users, RevokeAll
  <2> QED
    BY <1>k, <1>u, <2>2
<1>3. CASE pc[c] = "set"
  <2>0. op[c] \in AdminOps
    BY <1>t, <1>3 DEF StatementOf
  <2>1. ~LoggingIn
    BY <1>k, <1>u, <2>0
  <2>2. SetUser(c) \/ Crash(c)
    BY <1>3 DEF Step, CreateSession, CreateSessionFails, IssueRefresh, IssueRefreshFails, Rotate,
       RotateFails, LoadSession, Discard, BurnFamily, BurnFamilyFails, CloseSession,
       CloseSessionFails, SetUserFails, Sweep, SweepFails
  <2>3. CASE Crash(c)
    <3>1. UNCHANGED <<user, sessions>> /\ pc'[c] = "done"
      BY <1>t, <2>3 DEF Crash, rows, Return, TypeOK
    <3>2. Sweeping' <=> Sweeping
      BY <1>c, <1>3, <3>1 DEF Sweeping
    <3> QED
      BY <1>k, <1>u, <3>1, <3>2
  <2>4. CASE SetUser(c) /\ op[c] = "enable"
    <3>1. UNCHANGED sessions /\ pc'[c] = "done" /\ (user' # "active" => user = "deleted")
      BY <1>t, <2>4 DEF SetUser, rows, Return, Updated, TypeOK
    <3>2. Sweeping' <=> Sweeping
      BY <1>c, <1>3, <3>1 DEF Sweeping
    <3> QED
      BY <1>k, <1>u, <2>1, <3>1, <3>2
  <2>5. CASE SetUser(c) /\ op[c] # "enable"
    <3>1. pc'[c] = "sweep"
      BY <1>t, <2>5 DEF SetUser, Goto, TypeOK
    <3> QED
      BY <1>k, <2>1, <3>1 DEF Sweeping
  <2> QED
    BY <2>2, <2>3, <2>4, <2>5
<1> QED
  BY <1>1, <1>2, <1>3

LEMMA UserBegin ==
    ASSUME TypeInv, UserInv, NEW c \in Calls, Begin(c)
    PROVE  UserInv'
<1> SUFFICES ASSUME ~hindered'
             PROVE  /\ ~(Administering /\ LoggingIn)'
                    /\ LoggingIn' => user' = "active"
                    /\ user' # "active" /\ ~Sweeping' => \A s \in Calls : sessions'[s] # "live"
  BY DEF UserInv
<1>f. /\ UNCHANGED <<user, sessions>> /\ pc[c] = "idle"
      /\ \A x \in Calls : x # c => pc'[x] = pc[x] /\ op'[x] = op[x]
  BY First
<1>1. /\ ~hindered
      /\ op'[c] = "login" /\ Running(c)' => user = "active" /\ ~Administering
      /\ op'[c] \in AdminOps /\ Running(c)' => ~LoggingIn
      /\ pc'[c] # "sweep"
  <2>1. CASE op'[c] = "login"
    BY <2>1, First DEF TokenOps, AdminOps, Running
  <2>2. CASE op'[c] \in AdminOps
    BY <2>2, First DEF TokenOps, AdminOps, Running
  <2>3. CASE op'[c] \in TokenOps
    <3>1. ~hindered
      BY <2>3, First DEF TokenOps, AdminOps
    <3>2. pc'[c] # "sweep"
      BY <2>3, TypeBegin DEF TypeInv, StatementOf, TokenOps, AdminOps
    <3> QED
      BY <2>3, <3>1, <3>2 DEF TokenOps, AdminOps
  <2> QED
    BY <2>1, <2>2, <2>3, First
<1>u. /\ ~(Administering /\ LoggingIn)
      /\ LoggingIn => user = "active"
      /\ user # "active" /\ ~Sweeping => \A s \in Calls : sessions[s] # "live"
  BY <1>1 DEF UserInv
<1>2. Administering' => Administering \/ (op'[c] \in AdminOps /\ Running(c)')
  BY <1>f DEF Administering, Running
<1>3. LoggingIn' => LoggingIn \/ (op'[c] = "login" /\ Running(c)')
  BY <1>f DEF LoggingIn, Running
<1>4. Sweeping' <=> Sweeping
  BY <1>f, <1>1 DEF Sweeping
<1> QED
  BY <1>f, <1>1, <1>u, <1>2, <1>3, <1>4 DEF AdminOps

LEMMA UserStep == TypeInv /\ UserInv /\ [Next]_vars => UserInv'
<1> SUFFICES ASSUME TypeInv, UserInv, [Next]_vars PROVE UserInv'
  OBVIOUS
<1>1. CASE UNCHANGED vars \/ \E c \in Calls : Clock(c)
  <2>1. UNCHANGED <<user, hindered, sessions, op, pc>>
    BY <1>1 DEF Clock, ExpireSession, ExpireToken, vars, users, rows, requests
  <2> QED
    BY <2>1 DEF UserInv, Administering, LoggingIn, Sweeping, Running
<1> QED
  BY <1>1, UserRun, UserBegin DEF Next, Clock

(* Disabling or deleting a user leaves no session that authenticates.      *)
THEOREM DisabledIsOut == Spec => []DisabledHasNoSession
<1>1. TypeInv /\ UserInv => DisabledHasNoSession
  <2> SUFFICES ASSUME TypeInv, UserInv, user # "active", ~Administering, ~hindered
               PROVE  \A s \in Calls : ~Authenticates(s)
    BY DEF DisabledHasNoSession
  <2>1. ~Sweeping
    BY DEF Sweeping, Administering, Running, TypeInv, StatementOf
  <2> QED
    BY <2>1 DEF UserInv, Authenticates
<1> QED
  BY <1>1, TypeInit, TypeStep, UserInit, UserStep, PTL DEF Spec
================================================================================
