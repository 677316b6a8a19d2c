-------------------------------- MODULE Sessions --------------------------------
(***************************************************************************)
(* Sessions and refresh tokens of one user (auth/session/session.go) with  *)
(* the administrator's calls that disable, enable and delete the user      *)
(* (api/admin_users_handlers.go).  Every call is a sequence of SQL         *)
(* statements outside a transaction, and several of them ignore errors.    *)
(*                                                                         *)
(* A session is named by the call that opened it, a refresh token by the   *)
(* call that issued it.  openSession makes one family per session and a    *)
(* rotation keeps both, so a family is named by its session.               *)
(***************************************************************************)

CONSTANTS
    Calls,      \* requests handled by the server
    None        \* no token, no session

ASSUME NoneAssumption == None \notin Calls

VARIABLES
    user,             \* is_active and deleted_at
    sessions,         \* of the row of the session a call opened: absent, live or revoked
    expiredSessions,  \* those past expires_at
    tokens,           \* of the row of the token a call issued
    expiredTokens,
    op,
    presented,        \* the token a refresh or a logout presents
    session,          \* the session a call, and the token it issues, belong to
    pc,               \* the statement a call executes next
    answer,           \* how a call ended
    disturbed,        \* history: on a session, a call that overlapped another
                      \*   one, a revocation or a logout's lookup that failed
    hindered          \* history: a login overlapped an administrator's call, or
                      \*   one of these was cut off between its statements

users == <<user, hindered>>
rows == <<sessions, expiredSessions, tokens, expiredTokens>>
requests == <<op, presented, session>>
vars == <<users, rows, requests, pc, answer, disturbed>>

AdminOps == {"enable", "disable", "delete"}
TokenOps == {"refresh", "logout"}
Ops == {"none", "login"} \cup TokenOps \cup AdminOps
PCs == {"idle", "create", "issue", "rotate", "load", "discard", "burn", "close",
        "set", "sweep", "done"}
Answers == {"none", "ok", "inactive", "invalid", "reuse", "loggedout", "notfound",
            "error", "crashed"}
RowStates == {"absent", "live", "revoked"}

Running(c) == pc[c] \notin {"idle", "done"}
RunningOn(s) == \E c \in Calls : Running(c) /\ session[c] = s
Administering == \E c \in Calls : Running(c) /\ op[c] \in AdminOps
LoggingIn == \E c \in Calls : Running(c) /\ op[c] = "login"

(* A client holds the tokens it was answered with.                         *)
Held(t) == op[t] \in {"login", "refresh"} /\ answer[t] = "ok"

Goto(c, label) ==
    /\ pc' = [pc EXCEPT ![c] = label]
    /\ UNCHANGED answer

Return(c, v) ==
    /\ pc' = [pc EXCEPT ![c] = "done"]
    /\ answer' = [answer EXCEPT ![c] = v]

Disturb(s, why) == disturbed' = [disturbed EXCEPT ![s] = @ \cup {why}]

Revoke(status) == IF status = "live" THEN "revoked" ELSE status

(* The middleware's check of a session cookie.                             *)
Authenticates(s) == sessions[s] = "live" /\ s \notin expiredSessions

Init ==
    /\ user = "active"
    /\ sessions = [c \in Calls |-> "absent"]
    /\ expiredSessions = {}
    /\ tokens = [c \in Calls |-> "absent"]
    /\ expiredTokens = {}
    /\ op = [c \in Calls |-> "none"]
    /\ presented = [c \in Calls |-> None]
    /\ session = [c \in Calls |-> None]
    /\ pc = [c \in Calls |-> "idle"]
    /\ answer = [c \in Calls |-> "none"]
    /\ disturbed = [c \in Calls |-> {}]
    /\ hindered = FALSE

-------------------------------------------------------------------------------
(* Login, once the credentials are checked: Login and OpenForExistingUser. *)
BeginLogin(c) ==
    /\ pc[c] = "idle"
    /\ op' = [op EXCEPT ![c] = "login"]
    /\ session' = [session EXCEPT ![c] = c]
    /\ \/ /\ user = "active"
          /\ Goto(c, "create")
          /\ hindered' = (hindered \/ Administering)
       \/ user # "active" /\ Return(c, "inactive") /\ UNCHANGED hindered
       \/ Return(c, "error") /\ UNCHANGED hindered
    /\ UNCHANGED <<user, rows, presented, disturbed>>

CreateSession(c) ==
    /\ pc[c] = "create"
    /\ sessions' = [sessions EXCEPT ![c] = "live"]
    /\ Goto(c, "issue")
    /\ UNCHANGED <<users, expiredSessions, tokens, expiredTokens, requests, disturbed>>

(* The insert fails, or commits and its acknowledgement is lost.           *)
CreateSessionFails(c) ==
    /\ pc[c] = "create"
    /\ sessions' \in {sessions, [sessions EXCEPT ![c] = "live"]}
    /\ Return(c, "error")
    /\ UNCHANGED <<users, expiredSessions, tokens, expiredTokens, requests, disturbed>>

(* Mutant: the call does not report. *)
IssueRefresh_NoAnswer(c) ==
    /\ pc[c] = "issue"
    /\ tokens' = [tokens EXCEPT ![c] = "live"]
    /\ Goto(c, "done")
    /\ UNCHANGED <<users, sessions, expiredSessions, expiredTokens, requests, disturbed>>

(* issueRefresh, the last statement of a login and of a rotation.          *)
IssueRefresh(c) ==
    /\ pc[c] = "issue"
    /\ tokens' = [tokens EXCEPT ![c] = "live"]
    /\ Return(c, "ok")
    /\ UNCHANGED <<users, sessions, expiredSessions, expiredTokens, requests, disturbed>>

IssueRefreshFails(c) ==
    /\ pc[c] = "issue"
    /\ tokens' \in {tokens, [tokens EXCEPT ![c] = "live"]}
    /\ Return(c, "error")
    /\ UNCHANGED <<users, sessions, expiredSessions, expiredTokens, requests, disturbed>>

-------------------------------------------------------------------------------
(* Refresh and Logout.                                                     *)

Present(c, o, t) ==
    /\ pc[c] = "idle"
    /\ Held(t)
    /\ op' = [op EXCEPT ![c] = o]
    /\ presented' = [presented EXCEPT ![c] = t]
    /\ session' = [session EXCEPT ![c] = session[t]]

(* Mutant: a revoked token is taken for a live one. *)
Branch_Revoked(o, t) ==
    CASE o = "logout" -> "burn"
      [] o # "logout" /\ t \in expiredTokens -> "discard"
      [] OTHER -> "rotate"

(* What a call does about the row it has read.                             *)
Branch(o, t) ==
    CASE o = "logout" \/ tokens[t] = "revoked" -> "burn"
      [] o # "logout" /\ tokens[t] = "live" /\ t \in expiredTokens -> "discard"
      [] OTHER -> "rotate"

LookupToken(c, o, t) ==
    /\ Present(c, o, t)
    /\ Goto(c, Branch(o, t))
    /\ IF RunningOn(session[t]) THEN Disturb(session[t], "overlap") ELSE UNCHANGED disturbed
    /\ UNCHANGED <<users, rows>>

(* A lookup that fails is an unknown token; Logout then has nothing to do. *)
LookupTokenFails(c, o, t) ==
    /\ Present(c, o, t)
    /\ \/ o = "refresh" /\ Return(c, "invalid") /\ UNCHANGED disturbed
       \/ o = "logout" /\ Return(c, "loggedout") /\ Disturb(session[t], "failure")
    /\ UNCHANGED <<users, rows>>

(* Mutant: the presented token is left as it is. *)
RevokeToken_Kept(t) == tokens

RevokeToken(t) == [tokens EXCEPT ![t] = Revoke(@)]

Rotate(c) ==
    /\ pc[c] = "rotate"
    /\ tokens' = RevokeToken(presented[c])
    /\ Goto(c, "load")
    /\ UNCHANGED <<users, sessions, expiredSessions, expiredTokens, requests, disturbed>>

(* The error is ignored, and the rotation goes on.                         *)
RotateFails(c) ==
    /\ pc[c] = "rotate"
    /\ tokens' \in {tokens, RevokeToken(presented[c])}
    /\ Goto(c, "load")
    /\ Disturb(session[c], "failure")
    /\ UNCHANGED <<users, sessions, expiredSessions, expiredTokens, requests>>

(* continueSession reads the session and does not look at what it says.    *)
LoadSession(c) ==
    /\ pc[c] = "load"
    /\ Goto(c, "issue") \/ Return(c, "error")
    /\ UNCHANGED <<users, rows, requests, disturbed>>

(* An expired token is revoked and refused.                                *)
Discard(c) ==
    /\ pc[c] = "discard"
    /\ tokens' \in {tokens, RevokeToken(presented[c])}
    /\ Return(c, "invalid")
    /\ UNCHANGED <<users, sessions, expiredSessions, expiredTokens, requests, disturbed>>

-------------------------------------------------------------------------------
(* Logout, and reuse detection: the family, then the session; errors are   *)
(* ignored.                                                                *)

(* Mutant: only the presented token is revoked. *)
RevokeFamily_One(s, t) == RevokeToken(t)

RevokeFamily(s, t) ==
    [x \in Calls |-> IF session[x] = s THEN Revoke(tokens[x]) ELSE tokens[x]]

BurnFamily(c) ==
    /\ pc[c] = "burn"
    /\ tokens' = RevokeFamily(session[c], presented[c])
    /\ Goto(c, "close")
    /\ UNCHANGED <<users, sessions, expiredSessions, expiredTokens, requests, disturbed>>

BurnFamilyFails(c) ==
    /\ pc[c] = "burn"
    /\ tokens' \in {tokens, RevokeFamily(session[c], presented[c])}
    /\ Goto(c, "close")
    /\ Disturb(session[c], "failure")
    /\ UNCHANGED <<users, sessions, expiredSessions, expiredTokens, requests>>

RevokeSession(s) == [sessions EXCEPT ![s] = Revoke(@)]

Burnt(c) == IF op[c] = "refresh" THEN "reuse" ELSE "loggedout"

CloseSession(c) ==
    /\ pc[c] = "close"
    /\ sessions' = RevokeSession(session[c])
    /\ Return(c, Burnt(c))
    /\ UNCHANGED <<users, expiredSessions, tokens, expiredTokens, requests, disturbed>>

CloseSessionFails(c) ==
    /\ pc[c] = "close"
    /\ sessions' \in {sessions, RevokeSession(session[c])}
    /\ Return(c, Burnt(c))
    /\ Disturb(session[c], "failure")
    /\ UNCHANGED <<users, expiredSessions, tokens, expiredTokens, requests>>

-------------------------------------------------------------------------------
(* UpdateAdminUser and DeleteAdminUser.                                    *)

BeginAdmin(c, o) ==
    /\ pc[c] = "idle"
    /\ op' = [op EXCEPT ![c] = o]
    /\ \/ /\ user # "deleted"
          /\ Goto(c, "set")
          /\ hindered' = (hindered \/ LoggingIn)
       \/ user = "deleted" /\ Return(c, "notfound") /\ UNCHANGED hindered
       \/ Return(c, "error") /\ UNCHANGED hindered
    /\ UNCHANGED <<user, rows, presented, session, disturbed>>

(* The two UPDATEs match no row once the user is deleted.                  *)
Updated(o) ==
    CASE user = "deleted" \/ o = "delete" -> "deleted"
      [] user # "deleted" /\ o = "enable" -> "active"
      [] OTHER -> "disabled"

(* Mutant: disabling leaves the sessions alone. *)
SetUser_NoSweep(c) ==
    /\ pc[c] = "set"
    /\ user' = Updated(op[c])
    /\ Return(c, "ok")
    /\ UNCHANGED <<hindered, rows, requests, disturbed>>

SetUser(c) ==
    /\ pc[c] = "set"
    /\ user' = Updated(op[c])
    /\ IF op[c] = "enable" THEN Return(c, "ok") ELSE Goto(c, "sweep")
    /\ UNCHANGED <<hindered, rows, requests, disturbed>>

SetUserFails(c) ==
    /\ pc[c] = "set"
    /\ user' \in {user, Updated(op[c])}
    /\ Return(c, "error")
    /\ hindered' = TRUE
    /\ UNCHANGED <<rows, requests, disturbed>>

RevokeAll == [s \in Calls |-> Revoke(sessions[s])]

Sweep(c) ==
    /\ pc[c] = "sweep"
    /\ sessions' = RevokeAll
    /\ Return(c, "ok")
    /\ UNCHANGED <<users, expiredSessions, tokens, expiredTokens, requests, disturbed>>

SweepFails(c) ==
    /\ pc[c] = "sweep"
    /\ sessions' \in {sessions, RevokeAll}
    /\ Return(c, "ok")
    /\ hindered' = TRUE
    /\ UNCHANGED <<user, expiredSessions, tokens, expiredTokens, requests, disturbed>>

-------------------------------------------------------------------------------
(* The process dies, or the request is cut off, between two statements.    *)
Crash(c) ==
    /\ Running(c)
    /\ Return(c, "crashed")
    /\ hindered' = (hindered \/ pc[c] = "sweep")
    /\ UNCHANGED <<user, rows, requests, disturbed>>

(* The clock passes an expires_at.  Nothing moves that of a session.       *)
ExpireSession(s) ==
    /\ sessions[s] # "absent" /\ s \notin expiredSessions
    /\ expiredSessions' = expiredSessions \cup {s}
    /\ UNCHANGED <<users, sessions, tokens, expiredTokens, requests, pc, answer, disturbed>>

ExpireToken(t) ==
    /\ tokens[t] # "absent" /\ t \notin expiredTokens
    /\ expiredTokens' = expiredTokens \cup {t}
    /\ UNCHANGED <<users, sessions, expiredSessions, tokens, requests, pc, answer, disturbed>>

Begin(c) ==
    \/ BeginLogin(c)
    \/ \E o \in AdminOps : BeginAdmin(c, o)
    \/ \E o \in TokenOps, t \in Calls : LookupToken(c, o, t) \/ LookupTokenFails(c, o, t)

Step(c) ==
    \/ CreateSession(c) \/ CreateSessionFails(c)
    \/ IssueRefresh(c) \/ IssueRefreshFails(c)
    \/ Rotate(c) \/ RotateFails(c) \/ LoadSession(c) \/ Discard(c)
    \/ BurnFamily(c) \/ BurnFamilyFails(c) \/ CloseSession(c) \/ CloseSessionFails(c)
    \/ SetUser(c) \/ SetUserFails(c) \/ Sweep(c) \/ SweepFails(c)

Next == \E c \in Calls :
    Begin(c) \/ Step(c) \/ Crash(c) \/ ExpireSession(c) \/ ExpireToken(c)

Spec == Init /\ [][Next]_vars

-------------------------------------------------------------------------------
(* Type correctness; a call has an answer exactly when it has returned.    *)
TypeOK ==
    /\ user \in {"active", "disabled", "deleted"}
    /\ sessions \in [Calls -> RowStates]
    /\ expiredSessions \subseteq Calls
    /\ tokens \in [Calls -> RowStates]
    /\ expiredTokens \subseteq Calls
    /\ op \in [Calls -> Ops]
    /\ presented \in [Calls -> Calls \cup {None}]
    /\ session \in [Calls -> Calls \cup {None}]
    /\ pc \in [Calls -> PCs]
    /\ answer \in [Calls -> Answers]
    /\ disturbed \in [Calls -> SUBSET {"overlap", "failure"}]
    /\ hindered \in BOOLEAN
    /\ \A c \in Calls : pc[c] = "done" <=> answer[c] # "none"

Undisturbed(s) == disturbed[s] = {}

LiveTokens(s) == {t \in Calls : session[t] = s /\ tokens[t] = "live"}

(* Rotation: a family has at most one live token, whatever crashed or was  *)
(* committed without an answer, unless two calls on it overlapped or the   *)
(* revocation of the presented token, whose error is ignored, failed.      *)
OneLiveToken ==
    \A s \in Calls : Undisturbed(s) => \A t, u \in LiveTokens(s) : t = u

(* Reuse detection: of the refreshes that present one token at most one is *)
(* answered with a new token, under the same reservations.                 *)
RotatedOnce ==
    \A c, d \in Calls :
        /\ op[c] = "refresh" /\ answer[c] = "ok"
        /\ op[d] = "refresh" /\ answer[d] = "ok"
        /\ presented[c] = presented[d] /\ Undisturbed(session[c])
        => c = d

(* After a logout, or a reuse that was detected, the session is revoked    *)
(* for good when no revocation failed, whatever overlapped; and the family *)
(* has no live token, and gets none, when nothing overlapped either.       *)
BurntStaysBurnt ==
    \A c \in Calls : answer[c] \in {"reuse", "loggedout"} =>
        LET s == session[c] IN
        /\ "failure" \notin disturbed[s] => sessions[s] = "revoked"
        /\ Undisturbed(s) => LiveTokens(s) = {}

(* "A disabled user must not keep working sessions": once the calls that   *)
(* disabled or deleted the user have returned, no session authenticates,   *)
(* unless a login overlapped them or they were cut off or failed halfway.  *)
DisabledHasNoSession ==
    user # "active" /\ ~Administering /\ ~hindered =>
        \A s \in Calls : ~Authenticates(s)

(* conf/.lahijan.conf.default.yaml on the session lifetime: "sliding       *)
(* window".  A refresh that succeeds on a session nobody revoked leaves it *)
(* unexpired.                                                              *)
RefreshSlides ==
    [][\A c \in Calls :
        /\ op[c] = "refresh" /\ answer[c] # "ok" /\ answer'[c] = "ok"
        /\ sessions[session[c]] = "live"
        => Authenticates(session[c])']_vars
================================================================================
