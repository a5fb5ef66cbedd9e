------------------------------ MODULE Sessions ------------------------------
(***************************************************************************)
(* Accounts, sessions and password resets: AuthService over the tables users, *)
(* refresh_tokens and password_reset_tokens, and the nightly cleanup          *)
(* (TokenCleanupService).                                                     *)
(*                                                                           *)
(* An action is one awaited call with the code up to the next one; refused   *)
(* calls are stuttering steps.  The two transactions run at PostgreSQL's      *)
(* default isolation: an updateMany touches the rows its own statement saw,   *)
(* and its effect appears at the commit, so each is a step that sees and a    *)
(* step that commits.  A hash stands for what was hashed: bcrypt.compare and   *)
(* the lookup by SHA-256 are equality.  Access tokens are signed, not stored.  *)
(***************************************************************************)
EXTENDS Naturals

CONSTANTS
  Users,       \* phone numbers
  Passwords,
  Tokens,      \* refresh tokens: bound on the sessions' random values
  Resets,      \* ids of password_reset_tokens: bound on the codes sent
  Calls,       \* bound on the requests in flight at once
  None         \* null, or no row

ASSUME SessionsAssumption ==
  None \notin Users /\ None \notin Passwords /\ None \notin Tokens /\ None \notin Resets

VARIABLES
  password,    \* [Users -> Passwords \cup {None}]; None: not registered
  owner,       \* [Tokens -> Users \cup {None}]: refresh_tokens.user_id
  revoked,     \* SUBSET Tokens: revoked_at is set
  expired,     \* SUBSET Tokens: expires_at has passed
  codeOwner,   \* [Resets -> Users \cup {None}]: password_reset_tokens.user_id
  used,        \* SUBSET Resets: used_at is set
  lapsed,      \* SUBSET Resets: expires_at has passed
  call,        \* [Calls -> Call]: the requests in flight
  \* What the properties speak of and the code does not keep:
  overlapped,  \* SUBSET Calls: during which one was in flight that they collide
               \* with: a reset of the password the session is of, a second
               \* forgotPassword of the user, a second reset with the code
  family,      \* [Tokens -> Tokens \cup {None}]: the token of the login or
               \* registration that a token was refreshed from; None: not issued
  opened,      \* [Tokens -> Passwords \cup {None}]: the password given there
  late,        \* SUBSET Tokens: issued by a request that overlapped a reset,
               \* or refreshed from such a one
  forked,      \* SUBSET Tokens: families of which two requests refreshed one
               \* token at once
  crossed,     \* SUBSET Users: whose last codes were asked for at once
  spent        \* SUBSET Resets: codes with which a reset has committed, no
               \* other reset with the same code being in flight

tables  == <<password, owner, revoked, expired, codeOwner, used, lapsed>>
history == <<family, opened, late, forked, crossed, spent>>
vars    == <<tables, call, overlapped, history>>

(* A request waits for the creation of the user, the revocation of the used   *)
(* token, the creation of the new one; the commit of forgotPassword; the       *)
(* hash of the new password, the commit of resetPassword.                      *)
Call ==
  [pc    : {"idle", "create", "revoke", "issue", "forgot", "reset", "commit"},
   user  : Users \cup {None},
   pass  : Passwords \cup {None},
   tok   : Tokens \cup {None},     \* refresh: stored
   fam   : Tokens \cup {None},     \* and its family
   row   : Resets \cup {None},     \* resetPassword: stored
   seen  : (SUBSET Resets) \cup (SUBSET Tokens)] \* rows the open updateMany saw

IdleCall ==
  [pc |-> "idle", user |-> None, pass |-> None, tok |-> None, fam |-> None,
   row |-> None, seen |-> {}]

Live(t)   == owner[t] # None /\ t \notin revoked
Unused(r) == codeOwner[r] # None /\ r \notin used

RowTypes ==
  /\ password \in [Users -> Passwords \cup {None}]
  /\ owner \in [Tokens -> {u \in Users : password[u] # None} \cup {None}]
  /\ revoked \subseteq {t \in Tokens : owner[t] # None}
  /\ expired \subseteq {t \in Tokens : owner[t] # None}
  /\ codeOwner \in [Resets -> {u \in Users : password[u] # None} \cup {None}]
  /\ used \subseteq Resets /\ lapsed \subseteq Resets
  /\ call \in [Calls -> Call] /\ overlapped \subseteq Calls
  /\ family \in [Tokens -> Tokens \cup {None}]
  /\ opened \in [Tokens -> Passwords \cup {None}]
  /\ late \subseteq Tokens /\ forked \subseteq Tokens
  /\ crossed \subseteq Users /\ spent \subseteq Resets

(* The types, that every row belongs to a registered user, and that so does    *)
(* every request past its checks: what it goes on to write has its user        *)
(* (register, login, refresh, forgotPassword, resetPassword).                  *)
TypeOK ==
  /\ RowTypes
  /\ \A c \in Calls : call[c].pc \notin {"idle", "create"} => password[call[c].user] # None

Init ==
  /\ password = [u \in Users |-> None]
  /\ owner = [t \in Tokens |-> None] /\ revoked = {} /\ expired = {}
  /\ codeOwner = [r \in Resets |-> None] /\ used = {} /\ lapsed = {}
  /\ call = [c \in Calls |-> IdleCall] /\ overlapped = {}
  /\ family = [t \in Tokens |-> None]
  /\ opened = [t \in Tokens |-> None]
  /\ late = {} /\ forked = {} /\ crossed = {} /\ spent = {}

----------------------------------------------------------------------------
(* A reset of the user's password is between its last statement and the commit. *)
Resetting(u) == \E d \in Calls : call[d].pc = "commit" /\ call[d].user = u

(* A request begins, one that overlaps with the requests D, and they with it. *)
Begin(c, k, D) ==
  /\ call[c] = IdleCall
  /\ call' = [call EXCEPT ![c] = k]
  /\ overlapped' = IF D = {} THEN overlapped ELSE overlapped \cup D \cup {c}

Return(c) ==
  /\ call' = [call EXCEPT ![c] = IdleCall]
  /\ overlapped' = overlapped \ {c}

GoOn(c, pc) ==
  /\ call' = [call EXCEPT ![c].pc = pc]
  /\ UNCHANGED overlapped

(* register finds no user of that phone and hashes the password ... *)
Register(c, u, p) ==
  /\ password[u] = None
  /\ Begin(c, [IdleCall EXCEPT !.pc = "create", !.user = u, !.pass = p], {})
  /\ UNCHANGED <<tables, history>>

(* ... and creates the user, unless the phone was taken meanwhile (unique). *)
CreateUser(c) ==
  LET k == call[c] IN
  /\ k.pc = "create"
  /\ IF password[k.user] = None
     THEN /\ password' = [password EXCEPT ![k.user] = k.pass]
          /\ GoOn(c, "issue")
     ELSE Return(c) /\ UNCHANGED password
  /\ UNCHANGED <<owner, revoked, expired, codeOwner, used, lapsed, history>>

(* Mutant of Login: a phone without a user is not refused. *)
LoginUnknown(c, u, p) ==
  /\ password[u] \in {p, None}
  /\ Begin(c, [IdleCall EXCEPT !.pc = "issue", !.user = u, !.pass = p],
           {d \in {c} : Resetting(u)})
  /\ UNCHANGED <<tables, history>>

(* login reads the user and compares with the hash it read. *)
Login(c, u, p) ==
  /\ password[u] = p
  /\ Begin(c, [IdleCall EXCEPT !.pc = "issue", !.user = u, !.pass = p],
           {d \in {c} : Resetting(u)})
  /\ UNCHANGED <<tables, history>>

(* Another request has read the same refresh token and not yet revoked it. *)
BeingRefreshed(t) == \E d \in Calls : call[d].pc = "revoke" /\ call[d].tok = t

(* refresh of a stored token that it takes for valid ... *)
RefreshIf(c, t, valid) ==
  /\ valid
  /\ Begin(c, [IdleCall EXCEPT !.pc = "revoke", !.user = owner[t], !.pass = opened[t],
                               !.tok = t, !.fam = family[t]],
           {d \in {c} : t \in late \/ Resetting(owner[t])})
  /\ forked' = IF BeingRefreshed(t) THEN forked \cup {family[t]} ELSE forked
  /\ UNCHANGED <<tables, family, opened, late, crossed, spent>>

(* Mutant of Refresh: a revoked token is accepted. *)
RefreshIgnoresRevocation(c, t) == RefreshIf(c, t, owner[t] # None /\ t \notin expired)

(* ... neither revoked nor expired ... *)
Refresh(c, t) == RefreshIf(c, t, Live(t) /\ t \notin expired)

(* Mutants of RevokeUsed: the used token stays good; with updateMany, a row    *)
(* that was removed is no reason to stop.                                      *)
RevokeUsedForgets(c) ==
  /\ call[c].pc = "revoke"
  /\ GoOn(c, "issue")
  /\ UNCHANGED <<tables, history>>

RevokeUsedIfThere(c) ==
  /\ call[c].pc = "revoke"
  /\ revoked' = revoked \cup {t \in {call[c].tok} : owner[t] # None}
  /\ GoOn(c, "issue")
  /\ UNCHANGED <<password, owner, expired, codeOwner, used, lapsed, history>>

(* ... and revokes it by id, whatever became of it since; a row that the      *)
(* cleanup has removed makes the update throw.  The user that is read next    *)
(* exists: users are never deleted.                                           *)
RevokeUsed(c) ==
  LET t == call[c].tok IN
  /\ call[c].pc = "revoke"
  /\ IF owner[t] # None
     THEN revoked' = revoked \cup {t} /\ GoOn(c, "issue")
     ELSE Return(c) /\ UNCHANGED revoked
  /\ UNCHANGED <<password, owner, expired, codeOwner, used, lapsed, history>>

(* issueTokenPair stores a new random token; the response carries it. *)
IssueTokenPair(c, t) ==
  LET k == call[c] IN
  /\ k.pc = "issue"
  /\ family[t] = None
  /\ owner' = [owner EXCEPT ![t] = k.user]
  /\ family' = [family EXCEPT ![t] = IF k.fam = None THEN t ELSE k.fam]
  /\ opened' = [opened EXCEPT ![t] = k.pass]
  /\ late' = IF c \in overlapped THEN late \cup {t} ELSE late
  /\ Return(c)
  /\ UNCHANGED <<password, revoked, expired, codeOwner, used, lapsed, forked, crossed, spent>>

(* logout revokes the token in one statement. *)
Logout(t) ==
  /\ Live(t)
  /\ revoked' = revoked \cup {t}
  /\ UNCHANGED <<password, owner, expired, codeOwner, used, lapsed, call, overlapped, history>>

----------------------------------------------------------------------------
(* forgotPassword of a registered user: the open transaction has seen the     *)
(* user's unused codes ...                                                    *)
ForgotPassword(c, u) ==
  /\ password[u] # None
  /\ Begin(c, [IdleCall EXCEPT !.pc = "forgot", !.user = u,
                               !.seen = {r \in Resets : codeOwner[r] = u /\ Unused(r)}],
           {d \in Calls : call[d].pc = "forgot" /\ call[d].user = u})
  /\ UNCHANGED <<tables, history>>

(* ... and commits: the codes R are used and there is a new one, r. *)
ReplaceCodes(c, R, r) ==
  LET u == call[c].user IN
  /\ call[c].pc = "forgot"
  /\ codeOwner[r] = None
  /\ used' = used \cup R
  /\ codeOwner' = [codeOwner EXCEPT ![r] = u]
  /\ crossed' = IF c \in overlapped THEN crossed \cup {u} ELSE crossed \ {u}
  /\ Return(c)
  /\ UNCHANGED <<password, owner, revoked, expired, lapsed, family, opened, late, forked, spent>>

(* Mutant of CreateCode: outstanding codes stay good. *)
CreateCodeKeepsOthers(c, r) == ReplaceCodes(c, {}, r)

(* The SMS that follows the commit changes nothing, whether it arrives or not. *)
CreateCode(c, r) == ReplaceCodes(c, call[c].seen, r)

(* resetPassword finds the code, unused and in time, hashes the password ... *)
ResetPassword(c, r, p) ==
  /\ Unused(r) /\ r \notin lapsed
  /\ Begin(c, [IdleCall EXCEPT !.pc = "reset", !.user = codeOwner[r], !.pass = p, !.row = r],
           {d \in Calls : call[d].pc \in {"reset", "commit"} /\ call[d].row = r})
  /\ UNCHANGED <<tables, history>>

(* The requests that will issue a token of a user. *)
Issuing(u) == {d \in Calls : call[d].pc \in {"create", "revoke", "issue"} /\ call[d].user = u}

(* ... runs the transaction up to the updateMany of the sessions, which sees   *)
(* the live ones; the row of the user stays locked until the commit ...        *)
SeeSessions(c) ==
  LET u == call[c].user IN
  /\ call[c].pc = "reset"
  /\ ~ Resetting(u)
  /\ call' = [call EXCEPT ![c].pc = "commit",
                          ![c].seen = {t \in Tokens : owner[t] = u /\ Live(t)}]
  /\ overlapped' = overlapped \cup Issuing(u)
  /\ UNCHANGED <<tables, history>>

(* ... and commits: the password is set, the codes R are used and those of    *)
(* the sessions T that still have a row revoked.                               *)
CommitWith(c, R, T) ==
  LET k == call[c] IN
  /\ k.pc = "commit"
  /\ used' = used \cup R
  /\ password' = [password EXCEPT ![k.user] = k.pass]
  /\ revoked' = revoked \cup {t \in T : owner[t] # None}
  /\ spent' = IF c \in overlapped THEN spent ELSE spent \cup {k.row}
  /\ Return(c)
  /\ UNCHANGED <<owner, expired, codeOwner, lapsed, family, opened, late, forked, crossed>>

(* Mutants of CommitReset: the sessions stay alive, the code stays good. *)
CommitResetKeepsSessions(c) == CommitWith(c, {call[c].row}, {})
CommitResetKeepsCode(c)     == CommitWith(c, {}, call[c].seen)

CommitReset(c) == CommitWith(c, {call[c].row}, call[c].seen)

----------------------------------------------------------------------------
(* The nightly removal of expired rows, in one statement. *)
RemoveExpiredRefreshTokens ==
  /\ expired # {}
  /\ owner' = [t \in Tokens |-> IF t \in expired THEN None ELSE owner[t]]
  /\ expired' = {} /\ revoked' = revoked \ expired
  /\ UNCHANGED <<password, codeOwner, used, lapsed, call, overlapped, history>>

(* Time passes the expires_at of a token, or of a code. *)
TokenExpires(t) ==
  /\ owner[t] # None /\ t \notin expired
  /\ expired' = expired \cup {t}
  /\ UNCHANGED <<password, owner, revoked, codeOwner, used, lapsed, call, overlapped, history>>

CodeLapses(r) ==
  /\ Unused(r) /\ r \notin lapsed
  /\ lapsed' = lapsed \cup {r}
  /\ UNCHANGED <<password, owner, revoked, expired, codeOwner, used, call, overlapped, history>>

(* An awaited call fails, a transaction rolls back: the request ends. *)
Abort(c) ==
  /\ call[c] # IdleCall
  /\ Return(c)
  /\ UNCHANGED <<tables, history>>

Request(c) ==
  \/ \E u \in Users, p \in Passwords : Register(c, u, p) \/ Login(c, u, p)
  \/ \E t \in Tokens : Refresh(c, t)
  \/ \E u \in Users : ForgotPassword(c, u)
  \/ \E r \in Resets, p \in Passwords : ResetPassword(c, r, p)

Continue(c) ==
  \/ CreateUser(c) \/ RevokeUsed(c) \/ SeeSessions(c) \/ CommitReset(c) \/ Abort(c)
  \/ \E t \in Tokens : IssueTokenPair(c, t)
  \/ \E r \in Resets : CreateCode(c, r)

Next ==
  \/ \E c \in Calls : Request(c) \/ Continue(c)
  \/ \E t \in Tokens : Logout(t) \/ TokenExpires(t)
  \/ \E r \in Resets : CodeLapses(r)
  \/ RemoveExpiredRefreshTokens

Spec == Init /\ [][Next]_vars

----------------------------------------------------------------------------
(* "A password reset means every existing session should die too"             *)
(* (resetPassword): a session that is alive was opened with the password the   *)
(* user has now, through any number of refreshes and resets.  Excepted are     *)
(* those a request issued that was in flight during a reset, or was refreshed  *)
(* from such a session.                                                        *)
SessionsMatchPassword ==
  \A t \in Tokens : Live(t) /\ t \notin late => opened[t] = password[owner[t]]

(* "Rotate: revoke the used token so it can't be replayed" (refresh): of all   *)
(* the tokens that come from one login at most one is alive, unless one of     *)
(* them was refreshed by two requests at once.                                 *)
OneLivePerLogin ==
  \A t, s \in Tokens :
     Live(t) /\ Live(s) /\ family[t] = family[s] => t = s \/ family[t] \in forked

(* A refresh under way will renew the session: it has revoked the token, or    *)
(* the row is still there to be revoked.                                       *)
Renewing(c) ==
  \/ call[c].pc = "issue"
  \/ call[c].pc = "revoke" /\ owner[call[c].tok] # None

(* A session that has ended - logged out, reset, its refresh lost halfway, its *)
(* row removed, even under a refresh that has read it - never comes back: a    *)
(* family with no live token and no refresh that will renew it issues no       *)
(* other.  A refresh that read the token before a logout or a reset still      *)
(* renews the session (refresh updates by id): the session is alive then.      *)
Alive(f) ==
  \/ \E t \in Tokens : family[t] = f /\ Live(t)
  \/ \E c \in Calls : call[c].fam = f /\ Renewing(c)

EndedStaysEnded ==
  [][\A f \in Tokens : family[f] = f /\ ~ Alive(f) => ~ Alive(f)']_vars

(* "A new code invalidates any still-outstanding one ... so at most one is     *)
(* ever valid at a time" (forgotPassword), unless the user's last codes were   *)
(* asked for by requests in flight at once.                                    *)
OneValidCode ==
  \A r, s \in Resets :
     Unused(r) /\ Unused(s) /\ codeOwner[r] = codeOwner[s] => r = s \/ codeOwner[r] \in crossed

(* "One-time SMS code" (schema.prisma): when a reset has committed and no      *)
(* other with the same code was in flight, none is ever again.                 *)
OneTimeCode ==
  \A c \in Calls : call[c].row \notin spent

============================================================================
