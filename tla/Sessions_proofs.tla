--------------------------- MODULE Sessions_proofs ---------------------------
(***************************************************************************)
(* Proofs about Sessions: the types, that sessions are of the current        *)
(* password, that a login has one live token, and that codes are single.     *)
(***************************************************************************)
EXTENDS Sessions, TLAPS

(* What a request in flight is about, given the passwords and the families. *)
Busy(k, P, F) ==
  /\ k.pc # "idle"
  /\ k.user \in Users
  /\ k.pc # "forgot" => k.pass \in Passwords
  /\ k.pc # "create" => P[k.user] # None
  /\ k.pc = "revoke" => k.tok \in Tokens /\ F[k.tok] = k.fam /\ k.fam # None
  /\ k.fam # None => F[k.fam] = k.fam /\ k.pc \in {"revoke", "issue"}
  /\ k.pc \in {"reset", "commit"} <=> k.row \in Resets
  /\ k.pc = "forgot" => k.seen \subseteq Resets
  /\ k.pc = "commit" => k.seen \subseteq Tokens

CallsBusy == \A c \in Calls : call[c] = IdleCall \/ Busy(call[c], password, family)

(* A row was issued, with a password, in the family of an issued token. *)
RowsIssued ==
  \A t \in Tokens :
     /\ owner[t] # None => family[t] # None
     /\ family[t] # None => opened[t] \in Passwords /\ family[family[t]] = family[t]

Basic == RowTypes /\ CallsBusy /\ RowsIssued

(* The requests that hold a session of their user. *)
Holding(k) == k.pc \in {"revoke", "issue"}

(* Requests about to issue a token hold the current password; while a reset is *)
(* open they are marked, and it has seen the live sessions that are not.       *)
HoldersCurrent ==
  \A c \in Calls : Holding(call[c]) /\ c \notin overlapped
                      => call[c].pass = password[call[c].user]

HoldersMarked ==
  \A c, d \in Calls :
     call[c].pc = "commit" /\ Holding(call[d]) /\ call[d].user = call[c].user => d \in overlapped

SessionsSeen ==
  \A c \in Calls, t \in Tokens :
     call[c].pc = "commit" /\ Live(t) /\ owner[t] = call[c].user
       => t \in call[c].seen \/ t \in late

PasswordInv == SessionsMatchPassword /\ HoldersCurrent /\ HoldersMarked /\ SessionsSeen

(* A family is a live token, or one request that refreshes it. *)
OneRefresher ==
  \A c, d \in Calls :
     /\ Holding(call[c]) /\ Holding(call[d]) /\ c # d
     /\ call[c].fam # None /\ call[c].fam = call[d].fam
     => call[c].fam \in forked

RefresherHolds ==
  \A c \in Calls, t \in Tokens :
     Holding(call[c]) /\ Live(t) /\ family[t] = call[c].fam
       => family[t] \in forked \/ (call[c].pc = "revoke" /\ call[c].tok = t)

FamilyInv == OneLivePerLogin /\ OneRefresher /\ RefresherHolds

(* A forgotPassword that runs alone has seen every unused code of the user. *)
AsksMarked ==
  \A c, d \in Calls :
     call[c].pc = "forgot" /\ call[d].pc = "forgot" /\ c # d /\ call[c].user = call[d].user
       => c \in overlapped

CodesSeen ==
  \A c \in Calls, r \in Resets :
     call[c].pc = "forgot" /\ c \notin overlapped /\ Unused(r) /\ codeOwner[r] = call[c].user
       => r \in call[c].seen

CodeInv == OneValidCode /\ AsksMarked /\ CodesSeen

(* Resets with the same code overlap, and a spent code is used. *)
ResetsMarked ==
  \A c, d \in Calls :
     call[c].row # None /\ call[c].row = call[d].row /\ c # d => c \in overlapped

SpentInv == OneTimeCode /\ spent \subseteq used /\ ResetsMarked

----------------------------------------------------------------------------
LEMMA IdleIs ==
  /\ IdleCall \in Call
  /\ IdleCall.pc = "idle" /\ IdleCall.user = None /\ IdleCall.pass = None
  /\ IdleCall.tok = None /\ IdleCall.fam = None /\ IdleCall.row = None
  /\ IdleCall.seen = {}
BY DEF IdleCall, Call

LEMMA InitBasic == Init => Basic
BY IdleIs, SessionsAssumption DEF Init, Basic, RowTypes, CallsBusy, RowsIssued

LEMMA InitRest == Init => PasswordInv /\ FamilyInv /\ CodeInv /\ SpentInv
BY IdleIs, SessionsAssumption
   DEF Init, PasswordInv, FamilyInv, CodeInv, SpentInv, HoldersCurrent, HoldersMarked,
       SessionsSeen, OneRefresher, RefresherHolds, AsksMarked, CodesSeen, ResetsMarked, SessionsMatchPassword, OneLivePerLogin,
       OneValidCode, OneTimeCode, Live, Unused, Holding

----------------------------------------------------------------------------
(* The requests after one has begun, ended or gone on. *)
LEMMA BeginIs ==
  ASSUME RowTypes, NEW c \in Calls, NEW k \in Call, NEW D \in SUBSET Calls, Begin(c, k, D)
  PROVE  /\ call[c] = IdleCall
         /\ call' \in [Calls -> Call] /\ overlapped' \subseteq Calls
         /\ call'[c] = k
         /\ \A d \in Calls \ {c} : call'[d] = call[d]
         /\ overlapped \subseteq overlapped' /\ D \subseteq overlapped'
         /\ D # {} => c \in overlapped'
         /\ overlapped' \subseteq overlapped \cup D \cup {c}
BY DEF RowTypes, Begin

LEMMA ReturnIs ==
  ASSUME RowTypes, NEW c \in Calls, Return(c)
  PROVE  /\ call' \in [Calls -> Call] /\ overlapped' \subseteq Calls
         /\ call'[c] = IdleCall
         /\ \A d \in Calls \ {c} : call'[d] = call[d]
         /\ overlapped' = overlapped \ {c}
BY IdleIs DEF RowTypes, Return

LEMMA GoOnIs ==
  ASSUME RowTypes, NEW c \in Calls, GoOn(c, "issue")
  PROVE  /\ call' \in [Calls -> Call] /\ overlapped' = overlapped
         /\ call'[c].pc = "issue" /\ call'[c].user = call[c].user
         /\ call'[c].pass = call[c].pass /\ call'[c].tok = call[c].tok
         /\ call'[c].fam = call[c].fam /\ call'[c].row = call[c].row
         /\ call'[c].seen = call[c].seen
         /\ \A d \in Calls \ {c} : call'[d] = call[d]
BY DEF RowTypes, GoOn, Call

LEMMA SeeIs ==
  ASSUME RowTypes, NEW c \in Calls, SeeSessions(c)
  PROVE  /\ call' \in [Calls -> Call]
         /\ call'[c].pc = "commit" /\ call'[c].user = call[c].user
         /\ call'[c].pass = call[c].pass /\ call'[c].tok = call[c].tok
         /\ call'[c].fam = call[c].fam /\ call'[c].row = call[c].row
         /\ call'[c].seen = {t \in Tokens : owner[t] = call[c].user /\ Live(t)}
         /\ \A d \in Calls \ {c} : call'[d] = call[d]
<1> DEFINE S == {t \in Tokens : owner[t] = call[c].user /\ Live(t)}
<1>1. S \in SUBSET Tokens
  OBVIOUS
<1> HIDE DEF S
<1>2. call' = [call EXCEPT ![c].pc = "commit", ![c].seen = S]
  BY DEF SeeSessions, S
<1>3. call'[c] = [call[c] EXCEPT !.pc = "commit", !.seen = S]
  BY <1>2 DEF RowTypes
<1>4. \A d \in Calls \ {c} : call'[d] = call[d]
  BY <1>2 DEF RowTypes
<1>5. call[c] \in Call
  BY DEF RowTypes
<1>6. /\ call'[c].seen = S
      /\ call'[c].pc = "commit" /\ call'[c].user = call[c].user
      /\ call'[c].pass = call[c].pass /\ call'[c].tok = call[c].tok
      /\ call'[c].fam = call[c].fam /\ call'[c].row = call[c].row
  BY <1>3, <1>5 DEF Call
<1>7. [call[c] EXCEPT !.pc = "commit", !.seen = S] \in Call
  BY <1>1, <1>5 DEF Call
<1>8. call' \in [Calls -> Call]
  BY <1>2, <1>3, <1>4, <1>7 DEF RowTypes
<1> QED
  BY <1>4, <1>6, <1>8 DEF S

(* A user stays registered and a token keeps its family: what is known of a    *)
(* request stays true.                                                         *)
Grown ==
  /\ \A u \in Users : password[u] # None => password'[u] # None
  /\ \A t \in Tokens : family[t] # None => family'[t] = family[t]

LEMMA BusyKept ==
  ASSUME RowTypes, Grown, NEW k \in Call, Busy(k, password, family)
  PROVE  Busy(k, password', family')
BY SessionsAssumption DEF RowTypes, Grown, Busy, Call

LEMMA CallsKept ==
  ASSUME Basic, Grown, NEW c \in Calls,
         \A d \in Calls \ {c} : call'[d] = call[d],
         call'[c] = IdleCall \/ Busy(call'[c], password', family')
  PROVE  CallsBusy'
<1> SUFFICES ASSUME NEW d \in Calls
             PROVE  call'[d] = IdleCall \/ Busy(call'[d], password', family')
  BY DEF CallsBusy
<1>1. CASE d = c
  BY <1>1
<1>2. CASE d # c
  BY <1>2, BusyKept DEF Basic, CallsBusy, RowTypes
<1> QED
  BY <1>1, <1>2

LEMMA CallsUntouched ==
  ASSUME Basic, Grown, UNCHANGED call
  PROVE  CallsBusy'
<1> SUFFICES ASSUME NEW d \in Calls
             PROVE  call'[d] = IdleCall \/ Busy(call'[d], password', family')
  BY DEF CallsBusy
<1> QED
  BY BusyKept DEF Basic, CallsBusy, RowTypes

----------------------------------------------------------------------------
(* What each request is when it begins. *)
LEMMA RegisterIs ==
  ASSUME Basic, NEW c \in Calls, NEW u \in Users, NEW p \in Passwords, Register(c, u, p)
  PROVE  /\ call[c] = IdleCall /\ call' \in [Calls -> Call] /\ overlapped' = overlapped
         /\ call'[c].pc = "create" /\ call'[c].user = u /\ call'[c].pass = p
         /\ call'[c].tok = None /\ call'[c].fam = None /\ call'[c].row = None
         /\ \A d \in Calls \ {c} : call'[d] = call[d]
<1> DEFINE k == [IdleCall EXCEPT !.pc = "create", !.user = u, !.pass = p]
<1>1. k \in Call
  BY DEF IdleCall, Call
<1>2. Begin(c, k, {})
  BY DEF Register
<1>3. /\ k.pc = "create" /\ k.user = u /\ k.pass = p
      /\ k.tok = None /\ k.fam = None /\ k.row = None
  BY DEF IdleCall
<1>4. overlapped' = overlapped
  BY <1>2 DEF Begin
<1> HIDE DEF k
<1>5. {} \in SUBSET Calls
  OBVIOUS
<1> QED
  BY <1>1, <1>2, <1>3, <1>4, <1>5, BeginIs DEF Basic

LEMMA LoginIs ==
  ASSUME Basic, NEW c \in Calls, NEW u \in Users, NEW p \in Passwords, Login(c, u, p)
  PROVE  /\ call[c] = IdleCall /\ call' \in [Calls -> Call] /\ overlapped' \subseteq Calls
         /\ call'[c].pc = "issue" /\ call'[c].user = u /\ call'[c].pass = p
         /\ call'[c].tok = None /\ call'[c].fam = None /\ call'[c].row = None
         /\ \A d \in Calls \ {c} : call'[d] = call[d]
         /\ overlapped \subseteq overlapped' /\ overlapped' \subseteq overlapped \cup {c}
         /\ Resetting(u) => c \in overlapped'
<1> DEFINE k == [IdleCall EXCEPT !.pc = "issue", !.user = u, !.pass = p]
           D == {d \in {c} : Resetting(u)}
<1>1. k \in Call
  BY DEF IdleCall, Call
<1>2. Begin(c, k, D)
  BY DEF Login
<1>3. /\ k.pc = "issue" /\ k.user = u /\ k.pass = p
      /\ k.tok = None /\ k.fam = None /\ k.row = None
  BY DEF IdleCall
<1>4. D \subseteq {c} /\ (Resetting(u) => c \in D)
  OBVIOUS
<1> HIDE DEF k, D
<1> QED
  BY <1>1, <1>2, <1>3, <1>4, BeginIs DEF Basic

LEMMA RefreshIs ==
  ASSUME Basic, NEW c \in Calls, NEW t \in Tokens, Refresh(c, t)
  PROVE  /\ Live(t)
         /\ call[c] = IdleCall /\ call' \in [Calls -> Call] /\ overlapped' \subseteq Calls
         /\ call'[c].pc = "revoke" /\ call'[c].user = owner[t] /\ call'[c].pass = opened[t]
         /\ call'[c].tok = t /\ call'[c].fam = family[t] /\ call'[c].row = None
         /\ \A d \in Calls \ {c} : call'[d] = call[d]
         /\ overlapped \subseteq overlapped' /\ overlapped' \subseteq overlapped \cup {c}
         /\ t \in late => c \in overlapped'
         /\ Resetting(owner[t]) => c \in overlapped'
<1> DEFINE k == [IdleCall EXCEPT !.pc = "revoke", !.user = owner[t], !.pass = opened[t],
                                 !.tok = t, !.fam = family[t]]
           D == {d \in {c} : t \in late \/ Resetting(owner[t])}
<1>1. k \in Call
  BY DEF IdleCall, Call, Basic, RowTypes
<1>2. Begin(c, k, D) /\ Live(t)
  BY DEF Refresh, RefreshIf
<1>3. /\ k.pc = "revoke" /\ k.user = owner[t] /\ k.pass = opened[t]
      /\ k.tok = t /\ k.fam = family[t] /\ k.row = None
  BY DEF IdleCall
<1>4. D \subseteq {c} /\ (t \in late \/ Resetting(owner[t]) => c \in D)
  OBVIOUS
<1> HIDE DEF k, D
<1> QED
  BY <1>1, <1>2, <1>3, <1>4, BeginIs DEF Basic

LEMMA ForgotIs ==
  ASSUME Basic, NEW c \in Calls, NEW u \in Users, ForgotPassword(c, u)
  PROVE  /\ call[c] = IdleCall /\ call' \in [Calls -> Call] /\ overlapped' \subseteq Calls
         /\ call'[c].pc = "forgot" /\ call'[c].user = u
         /\ call'[c].tok = None /\ call'[c].fam = None /\ call'[c].row = None
         /\ call'[c].seen = {r \in Resets : codeOwner[r] = u /\ Unused(r)}
         /\ \A d \in Calls \ {c} : call'[d] = call[d]
         /\ overlapped \subseteq overlapped'
         /\ \A d \in Calls : call[d].pc = "forgot" /\ call[d].user = u
                             => d \in overlapped' /\ c \in overlapped'
<1> DEFINE S == {r \in Resets : codeOwner[r] = u /\ Unused(r)}
           D == {d \in Calls : call[d].pc = "forgot" /\ call[d].user = u}
<1>0. S \in SUBSET Resets /\ D \subseteq Calls
  OBVIOUS
<1>1. ForgotPassword(c, u) => Begin(c, [IdleCall EXCEPT !.pc = "forgot", !.user = u, !.seen = S], D)
  BY DEF ForgotPassword
<1>2. \A d \in Calls : call[d].pc = "forgot" /\ call[d].user = u => d \in D
  OBVIOUS
<1>3. S = {r \in Resets : codeOwner[r] = u /\ Unused(r)}
  OBVIOUS
<1> HIDE DEF S, D
<1> DEFINE k == [IdleCall EXCEPT !.pc = "forgot", !.user = u, !.seen = S]
<1>4. k \in Call
  BY <1>0 DEF IdleCall, Call
<1>5. /\ k.pc = "forgot" /\ k.user = u /\ k.seen = S
      /\ k.tok = None /\ k.fam = None /\ k.row = None
  BY DEF IdleCall
<1>6. Begin(c, k, D)
  BY <1>1
<1> HIDE DEF k
<1> QED
  BY <1>0, <1>2, <1>3, <1>4, <1>5, <1>6, BeginIs DEF Basic

LEMMA ResetIs ==
  ASSUME Basic, NEW c \in Calls, NEW r \in Resets, NEW p \in Passwords, ResetPassword(c, r, p)
  PROVE  /\ Unused(r)
         /\ call[c] = IdleCall /\ call' \in [Calls -> Call] /\ overlapped' \subseteq Calls
         /\ call'[c].pc = "reset" /\ call'[c].user = codeOwner[r] /\ call'[c].pass = p
         /\ call'[c].tok = None /\ call'[c].fam = None /\ call'[c].row = r
         /\ \A d \in Calls \ {c} : call'[d] = call[d]
         /\ overlapped \subseteq overlapped'
         /\ \A d \in Calls : call[d].pc \in {"reset", "commit"} /\ call[d].row = r
                             => d \in overlapped' /\ c \in overlapped'
<1> DEFINE k == [IdleCall EXCEPT !.pc = "reset", !.user = codeOwner[r], !.pass = p, !.row = r]
           D == {d \in Calls : call[d].pc \in {"reset", "commit"} /\ call[d].row = r}
<1>1. k \in Call
  BY DEF IdleCall, Call, Basic, RowTypes
<1>2. Begin(c, k, D) /\ Unused(r)
  BY DEF ResetPassword
<1>3. /\ k.pc = "reset" /\ k.user = codeOwner[r] /\ k.pass = p
      /\ k.tok = None /\ k.fam = None /\ k.row = r
  BY DEF IdleCall
<1>4. \A d \in Calls : call[d].pc \in {"reset", "commit"} /\ call[d].row = r => d \in D
  OBVIOUS
<1>5. D \subseteq Calls
  OBVIOUS
<1> HIDE DEF k, D
<1> QED
  BY <1>1, <1>2, <1>3, <1>4, <1>5, BeginIs DEF Basic

----------------------------------------------------------------------------
LEMMA BasicStep == Basic /\ [Next]_vars => Basic'
<1> SUFFICES ASSUME Basic, [Next]_vars PROVE Basic'
  OBVIOUS
<1> USE SessionsAssumption
<1>0. RowTypes /\ CallsBusy /\ RowsIssued
  BY DEF Basic
<1>1. ASSUME NEW c \in Calls, NEW u \in Users, NEW p \in Passwords, Register(c, u, p)
      PROVE  Basic'
  <2>1. UNCHANGED <<tables, history>>
    BY <1>1 DEF Register
  <2>2. RowTypes' /\ RowsIssued' /\ Grown
    BY <1>0, <1>1, <2>1, RegisterIs DEF RowTypes, RowsIssued, Grown, tables, history
  <2>3. Busy(call'[c], password', family')
    BY <1>1, RegisterIs DEF Busy
  <2> QED
    BY <1>1, <2>2, <2>3, RegisterIs, CallsKept DEF Basic
<1>2. ASSUME NEW c \in Calls, NEW u \in Users, NEW p \in Passwords, Login(c, u, p)
      PROVE  Basic'
  <2>1. UNCHANGED <<tables, history>> /\ password[u] = p
    BY <1>2 DEF Login
  <2>2. RowTypes' /\ RowsIssued' /\ Grown
    BY <1>0, <1>2, <2>1, LoginIs DEF RowTypes, RowsIssued, Grown, tables, history
  <2>3. Busy(call'[c], password', family')
    BY <1>2, <2>1, LoginIs DEF Busy, tables, history
  <2> QED
    BY <1>2, <2>2, <2>3, LoginIs, CallsKept DEF Basic
<1>3. ASSUME NEW c \in Calls, NEW t \in Tokens, Refresh(c, t)
      PROVE  Basic'
  <2>1. UNCHANGED <<tables, family, opened, late, crossed, spent>> /\ forked' \subseteq forked \cup {family[t]}
    BY <1>3 DEF Refresh, RefreshIf
  <2>2. owner[t] \in Users /\ password[owner[t]] # None /\ family[t] \in Tokens
    BY <1>0, <1>3, RefreshIs DEF RowTypes, Live, RowsIssued
  <2>3. RowTypes' /\ RowsIssued' /\ Grown
    BY <1>0, <1>3, <2>1, <2>2, RefreshIs DEF RowTypes, RowsIssued, Grown, tables
  <2>4. Busy(call'[c], password', family')
    BY <1>0, <1>3, <2>1, <2>2, RefreshIs DEF Busy, RowsIssued, tables
  <2> QED
    BY <1>3, <2>3, <2>4, RefreshIs, CallsKept DEF Basic
<1>4. ASSUME NEW c \in Calls, NEW u \in Users, ForgotPassword(c, u)
      PROVE  Basic'
  <2>1. UNCHANGED <<tables, history>> /\ password[u] # None
    BY <1>4 DEF ForgotPassword
  <2>2. RowTypes' /\ RowsIssued' /\ Grown
    BY <1>0, <1>4, <2>1, ForgotIs DEF RowTypes, RowsIssued, Grown, tables, history
  <2>3. Busy(call'[c], password', family')
    BY <1>4, <2>1, ForgotIs DEF Busy, tables, history
  <2> QED
    BY <1>4, <2>2, <2>3, ForgotIs, CallsKept DEF Basic
<1>5. ASSUME NEW c \in Calls, NEW r \in Resets, NEW p \in Passwords, ResetPassword(c, r, p)
      PROVE  Basic'
  <2>1. UNCHANGED <<tables, history>>
    BY <1>5 DEF ResetPassword
  <2>2. RowTypes' /\ RowsIssued' /\ Grown
    BY <1>0, <1>5, <2>1, ResetIs DEF RowTypes, RowsIssued, Grown, tables, history
  <2>3. Busy(call'[c], password', family')
    BY <1>0, <1>5, <2>1, ResetIs DEF Busy, RowTypes, Unused, tables, history
  <2> QED
    BY <1>5, <2>2, <2>3, ResetIs, CallsKept DEF Basic
<1>6. ASSUME NEW c \in Calls, CreateUser(c)
      PROVE  Basic'
  <2>0. Busy(call[c], password, family) /\ call[c].pc = "create"
    BY <1>0, <1>6, IdleIs DEF CallsBusy, CreateUser
  <2>1. UNCHANGED <<owner, revoked, expired, codeOwner, used, lapsed, history>>
    BY <1>6 DEF CreateUser
  <2>2. CASE password[call[c].user] = None
    <3>1. GoOn(c, "issue") /\ password' = [password EXCEPT ![call[c].user] = call[c].pass]
      BY <1>6, <2>2 DEF CreateUser
    <3>2. RowTypes' /\ RowsIssued' /\ Grown
      BY <1>0, <2>0, <2>1, <3>1, GoOnIs DEF RowTypes, RowsIssued, Grown, history, Busy
    <3>3. Busy(call'[c], password', family')
      BY <1>0, <2>0, <2>1, <3>1, GoOnIs DEF RowTypes, Busy, history
    <3> QED
      BY <1>0, <3>1, <3>2, <3>3, GoOnIs, CallsKept DEF Basic
  <2>3. CASE password[call[c].user] # None
    <3>1. Return(c) /\ UNCHANGED password
      BY <1>6, <2>3 DEF CreateUser
    <3>2. RowTypes' /\ RowsIssued' /\ Grown
      BY <1>0, <2>1, <3>1, ReturnIs DEF RowTypes, RowsIssued, Grown, history
    <3> QED
      BY <1>0, <3>1, <3>2, ReturnIs, CallsKept DEF Basic
  <2> QED
    BY <2>2, <2>3
<1>7. ASSUME NEW c \in Calls, RevokeUsed(c)
      PROVE  Basic'
  <2>0. Busy(call[c], password, family) /\ call[c].pc = "revoke"
    BY <1>0, <1>7, IdleIs DEF CallsBusy, RevokeUsed
  <2>1. UNCHANGED <<password, owner, expired, codeOwner, used, lapsed, history>>
    BY <1>7 DEF RevokeUsed
  <2>2. CASE owner[call[c].tok] # None
    <3>1. GoOn(c, "issue") /\ revoked' = revoked \cup {call[c].tok}
      BY <1>7, <2>2 DEF RevokeUsed
    <3>2. RowTypes' /\ RowsIssued' /\ Grown
      BY <1>0, <2>0, <2>1, <2>2, <3>1, GoOnIs DEF RowTypes, RowsIssued, Grown, history, Busy
    <3>3. Busy(call'[c], password', family')
      BY <1>0, <2>0, <2>1, <3>1, GoOnIs DEF Busy, history
    <3> QED
      BY <1>0, <3>1, <3>2, <3>3, GoOnIs, CallsKept DEF Basic
  <2>3. CASE owner[call[c].tok] = None
    <3>1. Return(c) /\ UNCHANGED revoked
      BY <1>7, <2>3 DEF RevokeUsed
    <3>2. RowTypes' /\ RowsIssued' /\ Grown
      BY <1>0, <2>1, <3>1, ReturnIs DEF RowTypes, RowsIssued, Grown, history
    <3> QED
      BY <1>0, <3>1, <3>2, ReturnIs, CallsKept DEF Basic
  <2> QED
    BY <2>2, <2>3
<1>8. ASSUME NEW c \in Calls, NEW t \in Tokens, IssueTokenPair(c, t)
      PROVE  Basic'
  <2>0. Busy(call[c], password, family) /\ call[c].pc = "issue"
    BY <1>0, <1>8, IdleIs DEF CallsBusy, IssueTokenPair
  <2>1. /\ UNCHANGED <<password, revoked, expired, codeOwner, used, lapsed, forked, crossed, spent>>
        /\ Return(c) /\ family[t] = None
        /\ owner' = [owner EXCEPT ![t] = call[c].user]
        /\ family' = [family EXCEPT ![t] = IF call[c].fam = None THEN t ELSE call[c].fam]
        /\ opened' = [opened EXCEPT ![t] = call[c].pass]
        /\ late' \subseteq late \cup {t}
    BY <1>8 DEF IssueTokenPair
  <2>2. call[c] \in Call /\ owner[t] = None
    BY <1>0, <2>1 DEF RowTypes, RowsIssued
  <2>3. RowTypes'
    BY <1>0, <2>0, <2>1, <2>2, ReturnIs DEF RowTypes, Busy, Call
  <2>4. RowsIssued' /\ Grown
    BY <1>0, <2>0, <2>1, <2>2 DEF RowTypes, RowsIssued, Grown, Busy, Call
  <2> QED
    BY <1>0, <2>1, <2>3, <2>4, ReturnIs, CallsKept DEF Basic
<1>9. ASSUME NEW c \in Calls, NEW r \in Resets, CreateCode(c, r)
      PROVE  Basic'
  <2>0. Busy(call[c], password, family) /\ call[c].pc = "forgot"
    BY <1>0, <1>9, IdleIs DEF CallsBusy, CreateCode, ReplaceCodes
  <2>1. /\ UNCHANGED <<password, owner, revoked, expired, lapsed, family, opened, late, forked, spent>>
        /\ Return(c) /\ used' = used \cup call[c].seen
        /\ codeOwner' = [codeOwner EXCEPT ![r] = call[c].user]
        /\ crossed' \subseteq crossed \cup {call[c].user}
    BY <1>9 DEF CreateCode, ReplaceCodes
  <2>2. RowTypes' /\ RowsIssued' /\ Grown
    BY <1>0, <2>0, <2>1, ReturnIs DEF RowTypes, RowsIssued, Grown, Busy
  <2> QED
    BY <1>0, <2>1, <2>2, ReturnIs, CallsKept DEF Basic
<1>10. ASSUME NEW c \in Calls, SeeSessions(c)
       PROVE  Basic'
  <2>0. Busy(call[c], password, family) /\ call[c].pc = "reset"
    BY <1>0, <1>10, IdleIs DEF CallsBusy, SeeSessions
  <2>1. UNCHANGED <<tables, history>> /\ overlapped' \subseteq Calls
    BY <1>0, <1>10 DEF SeeSessions, Issuing, RowTypes
  <2>2. RowTypes' /\ RowsIssued' /\ Grown
    BY <1>0, <1>10, <2>1, SeeIs DEF RowTypes, RowsIssued, Grown, tables, history
  <2>3. Busy(call'[c], password', family')
    BY <1>0, <1>10, <2>0, <2>1, SeeIs DEF Busy, tables, history
  <2> QED
    BY <1>0, <1>10, <2>2, <2>3, SeeIs, CallsKept DEF Basic
<1>11. ASSUME NEW c \in Calls, CommitReset(c)
       PROVE  Basic'
  <2>0. Busy(call[c], password, family) /\ call[c].pc = "commit"
    BY <1>0, <1>11, IdleIs DEF CallsBusy, CommitReset, CommitWith
  <2>1. /\ UNCHANGED <<owner, expired, codeOwner, lapsed, family, opened, late, forked, crossed>>
        /\ Return(c) /\ used' = used \cup {call[c].row}
        /\ password' = [password EXCEPT ![call[c].user] = call[c].pass]
        /\ revoked' = revoked \cup {t \in call[c].seen : owner[t] # None}
        /\ spent' \subseteq spent \cup {call[c].row}
    BY <1>11 DEF CommitReset, CommitWith
  <2>2. RowTypes' /\ RowsIssued' /\ Grown
    BY <1>0, <2>0, <2>1, ReturnIs DEF RowTypes, RowsIssued, Grown, Busy
  <2> QED
    BY <1>0, <2>1, <2>2, ReturnIs, CallsKept DEF Basic
<1>12. ASSUME NEW c \in Calls, Abort(c)
       PROVE  Basic'
  <2>1. UNCHANGED <<tables, history>> /\ Return(c)
    BY <1>12 DEF Abort
  <2>2. RowTypes' /\ RowsIssued' /\ Grown
    BY <1>0, <2>1, ReturnIs DEF RowTypes, RowsIssued, Grown, tables, history
  <2> QED
    BY <1>0, <2>1, <2>2, ReturnIs, CallsKept DEF Basic
<1>13. ASSUME NEW t \in Tokens, Logout(t) \/ TokenExpires(t)
       PROVE  Basic'
  <2>1. RowTypes' /\ RowsIssued' /\ Grown /\ UNCHANGED call
    BY <1>0, <1>13 DEF RowTypes, RowsIssued, Grown, Logout, TokenExpires, Live, history
  <2> QED
    BY <2>1, CallsUntouched DEF Basic
<1>14. ASSUME NEW r \in Resets, CodeLapses(r)
       PROVE  Basic'
  <2>1. RowTypes' /\ RowsIssued' /\ Grown /\ UNCHANGED call
    BY <1>0, <1>14 DEF RowTypes, RowsIssued, Grown, CodeLapses, history
  <2> QED
    BY <2>1, CallsUntouched DEF Basic
<1>15. CASE RemoveExpiredRefreshTokens
  <2>1. RowTypes' /\ RowsIssued' /\ Grown /\ UNCHANGED call
    BY <1>0, <1>15 DEF RowTypes, RowsIssued, Grown, RemoveExpiredRefreshTokens, history
  <2> QED
    BY <2>1, CallsUntouched DEF Basic
<1>16. CASE UNCHANGED vars
  <2>1. RowTypes' /\ RowsIssued' /\ Grown /\ UNCHANGED call
    BY <1>0, <1>16 DEF RowTypes, RowsIssued, Grown, vars, tables, history
  <2> QED
    BY <2>1, CallsUntouched DEF Basic
<1> QED
  BY <1>1, <1>2, <1>3, <1>4, <1>5, <1>6, <1>7, <1>8, <1>9, <1>10, <1>11, <1>12, <1>13, <1>14,
     <1>15, <1>16 DEF Next, Request, Continue

----------------------------------------------------------------------------
(* Sessions are of the current password. *)
LEMMA PasswordStep == Basic /\ PasswordInv /\ [Next]_vars => PasswordInv'
<1> SUFFICES ASSUME Basic, PasswordInv, [Next]_vars PROVE PasswordInv'
  OBVIOUS
<1> USE SessionsAssumption, IdleIs
<1>a. RowTypes /\ CallsBusy /\ RowsIssued /\ SessionsMatchPassword /\ HoldersCurrent /\ HoldersMarked /\ SessionsSeen
  BY DEF Basic, PasswordInv
<1>b. SUFFICES SessionsMatchPassword' /\ HoldersCurrent' /\ HoldersMarked' /\ SessionsSeen'
  BY DEF PasswordInv
<1>1. ASSUME NEW c \in Calls, NEW u \in Users, NEW p \in Passwords, Register(c, u, p)
      PROVE  SessionsMatchPassword' /\ HoldersCurrent' /\ HoldersMarked' /\ SessionsSeen'
  <2>1. UNCHANGED <<tables, history>>
    BY <1>1 DEF Register
  <2> QED
    BY <1>a, <1>1, <2>1, RegisterIs
       DEF SessionsMatchPassword, HoldersCurrent, HoldersMarked, SessionsSeen, Live, Holding, tables, history
<1>2. ASSUME NEW c \in Calls, NEW u \in Users, NEW p \in Passwords, Login(c, u, p)
      PROVE  SessionsMatchPassword' /\ HoldersCurrent' /\ HoldersMarked' /\ SessionsSeen'
  <2>1. UNCHANGED <<tables, history>> /\ password[u] = p
    BY <1>2 DEF Login
  <2>2. SessionsMatchPassword' /\ HoldersCurrent' /\ SessionsSeen'
    BY <1>a, <1>2, <2>1, LoginIs DEF SessionsMatchPassword, HoldersCurrent, SessionsSeen, Live, Holding, tables, history
  <2>3. HoldersMarked'
    BY <1>a, <1>2, LoginIs DEF HoldersMarked, Holding, Resetting
  <2> QED
    BY <2>2, <2>3
<1>3. ASSUME NEW c \in Calls, NEW t \in Tokens, Refresh(c, t)
      PROVE  SessionsMatchPassword' /\ HoldersCurrent' /\ HoldersMarked' /\ SessionsSeen'
  <2>1. UNCHANGED <<tables, family, opened, late, crossed, spent>>
    BY <1>3 DEF Refresh, RefreshIf
  <2>2. SessionsMatchPassword' /\ SessionsSeen'
    BY <1>a, <1>3, <2>1, RefreshIs DEF SessionsMatchPassword, SessionsSeen, Live, tables
  <2>3. HoldersCurrent'
    BY <1>a, <1>3, <2>1, RefreshIs DEF SessionsMatchPassword, HoldersCurrent, Holding, tables
  <2>4. HoldersMarked'
    BY <1>a, <1>3, RefreshIs DEF HoldersMarked, Holding, Resetting
  <2> QED
    BY <2>2, <2>3, <2>4
<1>4. ASSUME NEW c \in Calls, NEW u \in Users, ForgotPassword(c, u)
      PROVE  SessionsMatchPassword' /\ HoldersCurrent' /\ HoldersMarked' /\ SessionsSeen'
  <2>1. UNCHANGED <<tables, history>>
    BY <1>4 DEF ForgotPassword
  <2> QED
    BY <1>a, <1>4, <2>1, ForgotIs
       DEF SessionsMatchPassword, HoldersCurrent, HoldersMarked, SessionsSeen, Live, Holding, tables, history
<1>5. ASSUME NEW c \in Calls, NEW r \in Resets, NEW p \in Passwords, ResetPassword(c, r, p)
      PROVE  SessionsMatchPassword' /\ HoldersCurrent' /\ HoldersMarked' /\ SessionsSeen'
  <2>1. UNCHANGED <<tables, history>>
    BY <1>5 DEF ResetPassword
  <2> QED
    BY <1>a, <1>5, <2>1, ResetIs
       DEF SessionsMatchPassword, HoldersCurrent, HoldersMarked, SessionsSeen, Live, Holding, tables, history
<1>6. ASSUME NEW c \in Calls, CreateUser(c)
      PROVE  SessionsMatchPassword' /\ HoldersCurrent' /\ HoldersMarked' /\ SessionsSeen'
  <2>0. Busy(call[c], password, family) /\ call[c].pc = "create"
    BY <1>a, <1>6 DEF CallsBusy, CreateUser
  <2>1. UNCHANGED <<owner, revoked, expired, codeOwner, used, lapsed, history>>
    BY <1>6 DEF CreateUser
  <2>2. CASE password[call[c].user] = None
    <3>1. GoOn(c, "issue") /\ password' = [password EXCEPT ![call[c].user] = call[c].pass]
      BY <1>6, <2>2 DEF CreateUser
    <3>2. \A d \in Calls : call[d].pc \in {"revoke", "issue", "commit"} => call[d].user # call[c].user
      BY <1>a, <2>2 DEF CallsBusy, Busy
    <3>3. \A d \in Calls : call[d].pc \in {"revoke", "issue"} => password'[call[d].user] = password[call[d].user]
      BY <1>a, <3>1, <3>2 DEF CallsBusy, Busy, RowTypes
    <3>4. password'[call[c].user] = call[c].pass
      BY <1>a, <2>0, <3>1 DEF RowTypes, Busy
    <3>5. HoldersCurrent'
      BY <1>a, <2>0, <3>1, <3>3, <3>4, GoOnIs DEF HoldersCurrent, Holding
    <3>6. HoldersMarked' /\ SessionsSeen'
      BY <1>a, <2>0, <2>1, <3>1, <3>2, GoOnIs DEF HoldersMarked, SessionsSeen, Holding, Live, history
    <3>7. SessionsMatchPassword'
      BY <1>a, <2>1, <2>2, <3>1 DEF SessionsMatchPassword, RowTypes, Live, history
    <3> QED
      BY <3>5, <3>6, <3>7
  <2>3. CASE password[call[c].user] # None
    <3>1. Return(c) /\ UNCHANGED password
      BY <1>6, <2>3 DEF CreateUser
    <3> QED
      BY <1>a, <2>1, <3>1, ReturnIs DEF SessionsMatchPassword, HoldersCurrent, HoldersMarked, SessionsSeen, Live, Holding, history
  <2> QED
    BY <2>2, <2>3
<1>7. ASSUME NEW c \in Calls, RevokeUsed(c)
      PROVE  SessionsMatchPassword' /\ HoldersCurrent' /\ HoldersMarked' /\ SessionsSeen'
  <2>0. call[c].pc = "revoke"
    BY <1>7 DEF RevokeUsed
  <2>1. UNCHANGED <<password, owner, expired, codeOwner, used, lapsed, history>> /\ revoked \subseteq revoked'
    BY <1>7 DEF RevokeUsed
  <2>2. CASE owner[call[c].tok] # None
    <3>1. GoOn(c, "issue")
      BY <1>7, <2>2 DEF RevokeUsed
    <3> QED
      BY <1>a, <2>0, <2>1, <3>1, GoOnIs DEF SessionsMatchPassword, HoldersCurrent, HoldersMarked, SessionsSeen, Live, Holding, history
  <2>3. CASE owner[call[c].tok] = None
    <3>1. Return(c)
      BY <1>7, <2>3 DEF RevokeUsed
    <3> QED
      BY <1>a, <2>1, <3>1, ReturnIs DEF SessionsMatchPassword, HoldersCurrent, HoldersMarked, SessionsSeen, Live, Holding, history
  <2> QED
    BY <2>2, <2>3
<1>8. ASSUME NEW c \in Calls, NEW t \in Tokens, IssueTokenPair(c, t)
      PROVE  SessionsMatchPassword' /\ HoldersCurrent' /\ HoldersMarked' /\ SessionsSeen'
  <2>1. /\ UNCHANGED <<password, revoked>>
        /\ Return(c) /\ call[c].pc = "issue"
        /\ owner' = [owner EXCEPT ![t] = call[c].user]
        /\ opened' = [opened EXCEPT ![t] = call[c].pass]
        /\ late' = IF c \in overlapped THEN late \cup {t} ELSE late
    BY <1>8 DEF IssueTokenPair
  <2>2. /\ owner'[t] = call[c].user /\ opened'[t] = call[c].pass
        /\ \A s \in Tokens \ {t} : owner'[s] = owner[s] /\ opened'[s] = opened[s]
        /\ late \subseteq late' /\ late' \subseteq late \cup {t}
        /\ c \in overlapped => t \in late'
    BY <1>a, <2>1 DEF RowTypes
  <2>3. SessionsMatchPassword'
    BY <1>a, <2>1, <2>2 DEF SessionsMatchPassword, HoldersCurrent, Live, Holding
  <2>4. HoldersCurrent' /\ HoldersMarked'
    BY <1>a, <2>1, ReturnIs DEF HoldersCurrent, HoldersMarked, Holding
  <2>5. SessionsSeen'
    BY <1>a, <2>1, <2>2, ReturnIs DEF HoldersMarked, SessionsSeen, Live, Holding
  <2> QED
    BY <2>3, <2>4, <2>5
<1>9. ASSUME NEW c \in Calls, NEW r \in Resets, CreateCode(c, r)
      PROVE  SessionsMatchPassword' /\ HoldersCurrent' /\ HoldersMarked' /\ SessionsSeen'
  <2>1. /\ UNCHANGED <<password, owner, revoked, opened, late>>
        /\ Return(c)
    BY <1>9 DEF CreateCode, ReplaceCodes
  <2> QED
    BY <1>a, <2>1, ReturnIs DEF SessionsMatchPassword, HoldersCurrent, HoldersMarked, SessionsSeen, Live, Holding
<1>10. ASSUME NEW c \in Calls, SeeSessions(c)
       PROVE  SessionsMatchPassword' /\ HoldersCurrent' /\ HoldersMarked' /\ SessionsSeen'
  <2>1. UNCHANGED <<tables, history>> /\ overlapped' = overlapped \cup Issuing(call[c].user)
    BY <1>10 DEF SeeSessions
  <2>2. SessionsMatchPassword' /\ HoldersCurrent'
    BY <1>a, <1>10, <2>1, SeeIs DEF SessionsMatchPassword, HoldersCurrent, Live, Holding, tables, history
  <2>3. HoldersMarked'
    BY <1>a, <1>10, <2>1, SeeIs DEF HoldersMarked, Holding, Issuing
  <2>4. SessionsSeen'
    BY <1>a, <1>10, <2>1, SeeIs DEF SessionsSeen, Live, tables, history
  <2> QED
    BY <2>2, <2>3, <2>4
<1>11. ASSUME NEW c \in Calls, CommitReset(c)
       PROVE  SessionsMatchPassword' /\ HoldersCurrent' /\ HoldersMarked' /\ SessionsSeen'
  <2>0. Busy(call[c], password, family) /\ call[c].pc = "commit"
    BY <1>a, <1>11 DEF CallsBusy, CommitReset, CommitWith
  <2>1. /\ UNCHANGED <<owner, opened, late>>
        /\ Return(c)
        /\ password' = [password EXCEPT ![call[c].user] = call[c].pass]
        /\ revoked' = revoked \cup {t \in call[c].seen : owner[t] # None}
    BY <1>11 DEF CommitReset, CommitWith
  <2>2. \A u \in Users : u # call[c].user => password'[u] = password[u]
    BY <1>a, <2>1 DEF RowTypes
  <2>3. SessionsMatchPassword'
    BY <1>a, <2>0, <2>1, <2>2 DEF SessionsMatchPassword, SessionsSeen, Live, RowTypes
  <2>4. \A d \in Calls : Holding(call[d]) => call[d].user \in Users
    BY <1>a DEF CallsBusy, Busy, Holding
  <2>5. HoldersCurrent'
    BY <1>a, <2>0, <2>1, <2>2, <2>4, ReturnIs DEF HoldersCurrent, HoldersMarked, Holding
  <2>6. HoldersMarked' /\ SessionsSeen'
    BY <1>a, <2>1, ReturnIs DEF HoldersMarked, SessionsSeen, Live, Holding
  <2> QED
    BY <2>3, <2>5, <2>6
<1>12. ASSUME NEW c \in Calls, Abort(c)
       PROVE  SessionsMatchPassword' /\ HoldersCurrent' /\ HoldersMarked' /\ SessionsSeen'
  <2>1. UNCHANGED <<tables, history>> /\ Return(c)
    BY <1>12 DEF Abort
  <2> QED
    BY <1>a, <2>1, ReturnIs DEF SessionsMatchPassword, HoldersCurrent, HoldersMarked, SessionsSeen, Live, Holding, tables, history
<1>13. ASSUME NEW t \in Tokens, Logout(t) \/ TokenExpires(t)
       PROVE  SessionsMatchPassword' /\ HoldersCurrent' /\ HoldersMarked' /\ SessionsSeen'
  BY <1>a, <1>13 DEF SessionsMatchPassword, HoldersCurrent, HoldersMarked, SessionsSeen, Live, Holding, Logout, TokenExpires, history
<1>14. ASSUME NEW r \in Resets, CodeLapses(r)
       PROVE  SessionsMatchPassword' /\ HoldersCurrent' /\ HoldersMarked' /\ SessionsSeen'
  BY <1>a, <1>14 DEF SessionsMatchPassword, HoldersCurrent, HoldersMarked, SessionsSeen, Live, Holding, CodeLapses, history
<1>15. CASE RemoveExpiredRefreshTokens
  <2>1. \A t \in Tokens : Live(t)' => Live(t) /\ owner'[t] = owner[t]
    BY <1>a, <1>15 DEF RemoveExpiredRefreshTokens, Live, RowTypes
  <2> QED
    BY <1>a, <1>15, <2>1 DEF SessionsMatchPassword, HoldersCurrent, HoldersMarked, SessionsSeen, Holding, RemoveExpiredRefreshTokens, history
<1>16. CASE UNCHANGED vars
  BY <1>a, <1>16 DEF SessionsMatchPassword, HoldersCurrent, HoldersMarked, SessionsSeen, Live, Holding, vars, tables, history
<1> QED
  BY <1>1, <1>2, <1>3, <1>4, <1>5, <1>6, <1>7, <1>8, <1>9, <1>10, <1>11, <1>12, <1>13, <1>14,
     <1>15, <1>16 DEF Next, Request, Continue

----------------------------------------------------------------------------
(* One live token per login. *)
LEMMA FamilyStep == Basic /\ FamilyInv /\ [Next]_vars => FamilyInv'
<1> SUFFICES ASSUME Basic, FamilyInv, [Next]_vars PROVE FamilyInv'
  OBVIOUS
<1> USE SessionsAssumption, IdleIs
<1>a. RowTypes /\ CallsBusy /\ RowsIssued /\ OneLivePerLogin /\ OneRefresher /\ RefresherHolds
  BY DEF Basic, FamilyInv
<1>1. ASSUME NEW c \in Calls, NEW u \in Users, NEW p \in Passwords, Register(c, u, p)
      PROVE  FamilyInv'
  <2>1. UNCHANGED <<tables, history>>
    BY <1>1 DEF Register
  <2> QED
    BY <1>a, <1>1, <2>1, RegisterIs
       DEF FamilyInv, OneLivePerLogin, OneRefresher, RefresherHolds, Live, Holding, tables, history
<1>2. ASSUME NEW c \in Calls, NEW u \in Users, NEW p \in Passwords, Login(c, u, p)
      PROVE  FamilyInv'
  <2>1. UNCHANGED <<tables, history>>
    BY <1>2 DEF Login
  <2>2. \A t \in Tokens : Live(t) => family[t] # None
    BY <1>a DEF RowsIssued, Live
  <2> QED
    BY <1>a, <1>2, <2>1, <2>2, LoginIs
       DEF FamilyInv, OneLivePerLogin, OneRefresher, RefresherHolds, Live, Holding, tables, history
<1>3. ASSUME NEW c \in Calls, NEW t \in Tokens, Refresh(c, t)
      PROVE  FamilyInv'
  <2>1. /\ UNCHANGED <<tables, family, opened, late, crossed, spent>>
        /\ forked \subseteq forked' /\ (BeingRefreshed(t) => family[t] \in forked')
    BY <1>3 DEF Refresh, RefreshIf
  <2>2. OneLivePerLogin'
    BY <1>a, <2>1 DEF OneLivePerLogin, Live, tables
  <2>3. \A d \in Calls : Holding(call[d]) /\ call[d].fam = family[t] => family[t] \in forked'
    BY <1>a, <1>3, <2>1, RefreshIs DEF RefresherHolds, BeingRefreshed
  <2>4. OneRefresher'
    BY <1>a, <1>3, <2>1, <2>3, RefreshIs DEF OneRefresher, Holding
  <2>5. RefresherHolds'
    BY <1>a, <1>3, <2>1, RefreshIs DEF RefresherHolds, OneLivePerLogin, Holding, Live, tables
  <2> QED
    BY <2>2, <2>4, <2>5 DEF FamilyInv
<1>4. ASSUME NEW c \in Calls, NEW u \in Users, ForgotPassword(c, u)
      PROVE  FamilyInv'
  <2>1. UNCHANGED <<tables, history>>
    BY <1>4 DEF ForgotPassword
  <2> QED
    BY <1>a, <1>4, <2>1, ForgotIs
       DEF FamilyInv, OneLivePerLogin, OneRefresher, RefresherHolds, Live, Holding, tables, history
<1>5. ASSUME NEW c \in Calls, NEW r \in Resets, NEW p \in Passwords, ResetPassword(c, r, p)
      PROVE  FamilyInv'
  <2>1. UNCHANGED <<tables, history>>
    BY <1>5 DEF ResetPassword
  <2> QED
    BY <1>a, <1>5, <2>1, ResetIs
       DEF FamilyInv, OneLivePerLogin, OneRefresher, RefresherHolds, Live, Holding, tables, history
<1>6. ASSUME NEW c \in Calls, CreateUser(c)
      PROVE  FamilyInv'
  <2>0. Busy(call[c], password, family) /\ call[c].pc = "create"
    BY <1>a, <1>6 DEF CallsBusy, CreateUser
  <2>1. UNCHANGED <<owner, revoked, expired, codeOwner, used, lapsed, history>>
    BY <1>6 DEF CreateUser
  <2>2. call[c].fam = None /\ \A t \in Tokens : Live(t) => family[t] # None
    BY <1>a, <2>0 DEF RowsIssued, Live, Busy
  <2>3. CASE GoOn(c, "issue")
    BY <1>a, <2>1, <2>2, <2>3, GoOnIs
       DEF FamilyInv, OneLivePerLogin, OneRefresher, RefresherHolds, Live, Holding, history
  <2>4. CASE Return(c)
    BY <1>a, <2>1, <2>4, ReturnIs
       DEF FamilyInv, OneLivePerLogin, OneRefresher, RefresherHolds, Live, Holding, history
  <2> QED
    BY <1>6, <2>3, <2>4 DEF CreateUser
<1>7. ASSUME NEW c \in Calls, RevokeUsed(c)
      PROVE  FamilyInv'
  <2>1. /\ UNCHANGED <<password, owner, expired, codeOwner, used, lapsed, history>>
        /\ revoked \subseteq revoked' /\ call[c].pc = "revoke"
    BY <1>7 DEF RevokeUsed
  <2>2. CASE GoOn(c, "issue") /\ call[c].tok \in revoked'
    BY <1>a, <2>1, <2>2, GoOnIs
       DEF FamilyInv, OneLivePerLogin, OneRefresher, RefresherHolds, Live, Holding, history
  <2>3. CASE Return(c)
    BY <1>a, <2>1, <2>3, ReturnIs
       DEF FamilyInv, OneLivePerLogin, OneRefresher, RefresherHolds, Live, Holding, history
  <2> QED
    BY <1>7, <2>2, <2>3 DEF RevokeUsed
<1>8. ASSUME NEW c \in Calls, NEW t \in Tokens, IssueTokenPair(c, t)
      PROVE  FamilyInv'
  <2>0. Busy(call[c], password, family) /\ call[c].pc = "issue" /\ call[c] \in Call
    BY <1>a, <1>8 DEF CallsBusy, IssueTokenPair, RowTypes
  <2> DEFINE f == IF call[c].fam = None THEN t ELSE call[c].fam
  <2>1. /\ UNCHANGED <<revoked, forked>>
        /\ Return(c) /\ family[t] = None
        /\ owner' = [owner EXCEPT ![t] = call[c].user]
        /\ family' = [family EXCEPT ![t] = f]
    BY <1>8 DEF IssueTokenPair
  <2>2. /\ owner'[t] = call[c].user /\ family'[t] = f
        /\ \A s \in Tokens \ {t} : owner'[s] = owner[s] /\ family'[s] = family[s]
    BY <1>a, <2>1 DEF RowTypes
  <2>3. \A s \in Tokens : family[s] # t
    BY <1>a, <2>1 DEF RowsIssued, RowTypes
  <2>4. \A s \in Tokens \ {t} : Live(s) /\ family[s] = f => f \in forked
    BY <1>a, <2>0, <2>3 DEF RefresherHolds, Holding
  <2>5. \A d \in Calls : Holding(call[d]) => call[d].fam # t
    BY <1>a, <2>1 DEF CallsBusy, Busy, Holding
  <2>6. \A d \in Calls \ {c} : Holding(call[d]) /\ call[d].fam = f => f \in forked
    BY <1>a, <2>0, <2>5 DEF OneRefresher, Holding
  <2> HIDE DEF f
  <2>7. OneLivePerLogin'
    BY <1>a, <2>1, <2>2, <2>4 DEF OneLivePerLogin, Live
  <2>8. OneRefresher'
    BY <1>a, <2>1, ReturnIs DEF OneRefresher, Holding
  <2>9. RefresherHolds'
    BY <1>a, <2>1, <2>2, <2>6, ReturnIs DEF RefresherHolds, Live, Holding
  <2> QED
    BY <2>7, <2>8, <2>9 DEF FamilyInv
<1>9. ASSUME NEW c \in Calls, NEW r \in Resets, CreateCode(c, r)
      PROVE  FamilyInv'
  <2>1. UNCHANGED <<owner, revoked, family, forked>> /\ Return(c)
    BY <1>9 DEF CreateCode, ReplaceCodes
  <2> QED
    BY <1>a, <2>1, ReturnIs DEF FamilyInv, OneLivePerLogin, OneRefresher, RefresherHolds, Live, Holding
<1>10. ASSUME NEW c \in Calls, SeeSessions(c)
       PROVE  FamilyInv'
  <2>1. UNCHANGED <<tables, history>>
    BY <1>10 DEF SeeSessions
  <2> QED
    BY <1>a, <1>10, <2>1, SeeIs
       DEF FamilyInv, OneLivePerLogin, OneRefresher, RefresherHolds, Live, Holding, tables, history
<1>11. ASSUME NEW c \in Calls, CommitReset(c)
       PROVE  FamilyInv'
  <2>1. UNCHANGED <<owner, family, forked>> /\ Return(c) /\ revoked \subseteq revoked'
    BY <1>11 DEF CommitReset, CommitWith
  <2> QED
    BY <1>a, <2>1, ReturnIs DEF FamilyInv, OneLivePerLogin, OneRefresher, RefresherHolds, Live, Holding
<1>12. ASSUME NEW c \in Calls, Abort(c)
       PROVE  FamilyInv'
  <2>1. UNCHANGED <<tables, history>> /\ Return(c)
    BY <1>12 DEF Abort
  <2> QED
    BY <1>a, <2>1, ReturnIs
       DEF FamilyInv, OneLivePerLogin, OneRefresher, RefresherHolds, Live, Holding, tables, history
<1>13. ASSUME NEW t \in Tokens, Logout(t) \/ TokenExpires(t)
       PROVE  FamilyInv'
  BY <1>a, <1>13
     DEF FamilyInv, OneLivePerLogin, OneRefresher, RefresherHolds, Live, Holding, Logout, TokenExpires, history
<1>14. ASSUME NEW r \in Resets, CodeLapses(r)
       PROVE  FamilyInv'
  BY <1>a, <1>14
     DEF FamilyInv, OneLivePerLogin, OneRefresher, RefresherHolds, Live, Holding, CodeLapses, history
<1>15. CASE RemoveExpiredRefreshTokens
  <2>1. \A t \in Tokens : Live(t)' => Live(t)
    BY <1>a, <1>15 DEF RemoveExpiredRefreshTokens, Live, RowTypes
  <2> QED
    BY <1>a, <1>15, <2>1
       DEF FamilyInv, OneLivePerLogin, OneRefresher, RefresherHolds, Holding, RemoveExpiredRefreshTokens, history
<1>16. CASE UNCHANGED vars
  BY <1>a, <1>16
     DEF FamilyInv, OneLivePerLogin, OneRefresher, RefresherHolds, Live, Holding, vars, tables, history
<1> QED
  BY <1>1, <1>2, <1>3, <1>4, <1>5, <1>6, <1>7, <1>8, <1>9, <1>10, <1>11, <1>12, <1>13, <1>14,
     <1>15, <1>16 DEF Next, Request, Continue

----------------------------------------------------------------------------
(* Codes: one is valid, and it is used once.  Most steps leave the codes alone *)
(* and touch no request that asks for one or resets with one.                  *)
Codes == <<codeOwner, used, crossed, spent>>

LEMMA CodesKept ==
  ASSUME RowTypes, CodeInv, SpentInv, UNCHANGED Codes, NEW c \in Calls,
         \A d \in Calls \ {c} : call'[d] = call[d],
         call'[c].pc # "forgot", call'[c].row = None,
         overlapped \subseteq overlapped' \cup {c}
  PROVE  CodeInv' /\ SpentInv'
<1>1. OneValidCode' /\ AsksMarked' /\ CodesSeen'
  BY DEF CodeInv, OneValidCode, AsksMarked, CodesSeen, Unused, Codes
<1>2. OneTimeCode' /\ (spent \subseteq used)' /\ ResetsMarked'
  BY SessionsAssumption DEF RowTypes, SpentInv, OneTimeCode, ResetsMarked, Codes
<1> QED
  BY <1>1, <1>2 DEF CodeInv, SpentInv

LEMMA CodeStep == Basic /\ CodeInv /\ SpentInv /\ [Next]_vars => CodeInv' /\ SpentInv'
<1> SUFFICES ASSUME Basic, CodeInv, SpentInv, [Next]_vars PROVE CodeInv' /\ SpentInv'
  OBVIOUS
<1> USE SessionsAssumption, IdleIs
<1>a. RowTypes /\ CallsBusy /\ RowsIssued
  BY DEF Basic
<1>b. OneValidCode /\ AsksMarked /\ CodesSeen /\ OneTimeCode /\ spent \subseteq used /\ ResetsMarked
  BY DEF CodeInv, SpentInv
<1>1. ASSUME NEW c \in Calls, NEW u \in Users, NEW p \in Passwords, Register(c, u, p)
      PROVE  CodeInv' /\ SpentInv'
  <2>1. UNCHANGED Codes
    BY <1>1 DEF Register, tables, history, Codes
  <2> QED
    BY <1>a, <1>1, <2>1, RegisterIs, CodesKept
<1>2. ASSUME NEW c \in Calls, NEW u \in Users, NEW p \in Passwords, Login(c, u, p)
      PROVE  CodeInv' /\ SpentInv'
  <2>1. UNCHANGED Codes
    BY <1>2 DEF Login, tables, history, Codes
  <2> QED
    BY <1>a, <1>2, <2>1, LoginIs, CodesKept
<1>3. ASSUME NEW c \in Calls, NEW t \in Tokens, Refresh(c, t)
      PROVE  CodeInv' /\ SpentInv'
  <2>1. UNCHANGED Codes
    BY <1>3 DEF Refresh, RefreshIf, tables, Codes
  <2> QED
    BY <1>a, <1>3, <2>1, RefreshIs, CodesKept
<1>4. ASSUME NEW c \in Calls, NEW u \in Users, ForgotPassword(c, u)
      PROVE  CodeInv' /\ SpentInv'
  <2>1. UNCHANGED Codes
    BY <1>4 DEF ForgotPassword, tables, history, Codes
  <2>2. OneValidCode' /\ OneTimeCode' /\ (spent \subseteq used)' /\ ResetsMarked'
    BY <1>a, <1>b, <1>4, <2>1, ForgotIs
       DEF OneValidCode, OneTimeCode, ResetsMarked, Unused, Codes, RowTypes
  <2>3. AsksMarked'
    BY <1>b, <1>4, ForgotIs DEF AsksMarked
  <2>4. CodesSeen'
    BY <1>b, <1>4, <2>1, ForgotIs DEF CodesSeen, Unused, Codes
  <2> QED
    BY <2>2, <2>3, <2>4 DEF CodeInv, SpentInv
<1>5. ASSUME NEW c \in Calls, NEW r \in Resets, NEW p \in Passwords, ResetPassword(c, r, p)
      PROVE  CodeInv' /\ SpentInv'
  <2>1. UNCHANGED Codes
    BY <1>5 DEF ResetPassword, tables, history, Codes
  <2>2. OneValidCode' /\ AsksMarked' /\ CodesSeen' /\ (spent \subseteq used)'
    BY <1>b, <1>5, <2>1, ResetIs DEF OneValidCode, AsksMarked, CodesSeen, Unused, Codes
  <2>3. OneTimeCode'
    BY <1>b, <1>5, <2>1, ResetIs DEF OneTimeCode, Unused, Codes
  <2>4. \A d \in Calls : call[d].row = r => d \in overlapped' /\ c \in overlapped'
    BY <1>a, <1>5, ResetIs DEF CallsBusy, Busy
  <2>5. ResetsMarked'
    BY <1>b, <1>5, <2>4, ResetIs DEF ResetsMarked
  <2> QED
    BY <2>2, <2>3, <2>5 DEF CodeInv, SpentInv
<1>6. ASSUME NEW c \in Calls, CreateUser(c)
      PROVE  CodeInv' /\ SpentInv'
  <2>1. UNCHANGED Codes
    BY <1>6 DEF CreateUser, history, Codes
  <2>2. call[c].row = None
    BY <1>a, <1>6 DEF CreateUser, CallsBusy, Busy, RowTypes, Call
  <2>3. CASE GoOn(c, "issue")
    BY <1>a, <2>1, <2>2, <2>3, GoOnIs, CodesKept
  <2>4. CASE Return(c)
    BY <1>a, <2>1, <2>4, ReturnIs, CodesKept
  <2> QED
    BY <1>6, <2>3, <2>4 DEF CreateUser
<1>7. ASSUME NEW c \in Calls, RevokeUsed(c)
      PROVE  CodeInv' /\ SpentInv'
  <2>1. UNCHANGED Codes
    BY <1>7 DEF RevokeUsed, history, Codes
  <2>2. call[c].row = None
    BY <1>a, <1>7 DEF RevokeUsed, CallsBusy, Busy, RowTypes, Call
  <2>3. CASE GoOn(c, "issue")
    BY <1>a, <2>1, <2>2, <2>3, GoOnIs, CodesKept
  <2>4. CASE Return(c)
    BY <1>a, <2>1, <2>4, ReturnIs, CodesKept
  <2> QED
    BY <1>7, <2>3, <2>4 DEF RevokeUsed
<1>8. ASSUME NEW c \in Calls, NEW t \in Tokens, IssueTokenPair(c, t)
      PROVE  CodeInv' /\ SpentInv'
  <2>1. UNCHANGED Codes /\ Return(c)
    BY <1>8 DEF IssueTokenPair, Codes
  <2> QED
    BY <1>a, <2>1, ReturnIs, CodesKept
<1>9. ASSUME NEW c \in Calls, NEW r \in Resets, CreateCode(c, r)
      PROVE  CodeInv' /\ SpentInv'
  <2> DEFINE u == call[c].user
  <2>0. call[c].pc = "forgot" /\ call[c] \in Call
    BY <1>a, <1>9 DEF CreateCode, ReplaceCodes, RowTypes
  <2>1. /\ UNCHANGED spent
        /\ Return(c) /\ used' = used \cup call[c].seen /\ codeOwner[r] = None
        /\ codeOwner' = [codeOwner EXCEPT ![r] = u]
        /\ crossed' = IF c \in overlapped THEN crossed \cup {u} ELSE crossed \ {u}
    BY <1>9 DEF CreateCode, ReplaceCodes
  <2>2. codeOwner'[r] = u /\ \A s \in Resets \ {r} : codeOwner'[s] = codeOwner[s]
    BY <1>a, <2>1 DEF RowTypes
  <2> HIDE DEF u
  <2>3. \A s \in Resets : Unused(s)' => s = r \/ (Unused(s) /\ codeOwner'[s] = codeOwner[s])
    BY <2>1, <2>2 DEF Unused
  <2>4. ASSUME c \notin overlapped, NEW s \in Resets, Unused(s)', codeOwner'[s] = u
        PROVE  s = r
    BY <1>b, <2>0, <2>1, <2>3, <2>4 DEF CodesSeen, Unused, u
  <2>5. OneValidCode'
    <3> SUFFICES ASSUME NEW s1 \in Resets, NEW s2 \in Resets, Unused(s1)', Unused(s2)',
                        codeOwner'[s1] = codeOwner'[s2], s1 # s2
                 PROVE  codeOwner'[s1] \in crossed'
      BY DEF OneValidCode
    <3>1. CASE codeOwner'[s1] = u
      BY <2>1, <2>4, <3>1
    <3>2. CASE codeOwner'[s1] # u
      <4>1. codeOwner[s1] \in crossed
        BY <1>b, <2>2, <2>3, <3>2 DEF OneValidCode
      <4> QED
        BY <2>1, <2>2, <2>3, <3>2, <4>1
    <3> QED
      BY <3>1, <3>2
  <2>6. AsksMarked'
    BY <1>b, <2>1, ReturnIs, <1>a DEF AsksMarked
  <2>7. CodesSeen'
    <3> SUFFICES ASSUME NEW d \in Calls, NEW s \in Resets, call'[d].pc = "forgot",
                        d \notin overlapped', Unused(s)', codeOwner'[s] = call'[d].user
                 PROVE  s \in call'[d].seen
      BY DEF CodesSeen
    <3>1. d # c /\ call'[d] = call[d] /\ d \notin overlapped
      BY <1>a, <2>1, ReturnIs
    <3>2. call[d].user # u
      BY <1>b, <2>0, <3>1 DEF AsksMarked, u
    <3> QED
      BY <1>b, <2>2, <2>3, <3>1, <3>2 DEF CodesSeen
  <2>8. OneTimeCode' /\ (spent \subseteq used)' /\ ResetsMarked'
    BY <1>a, <1>b, <2>1, ReturnIs DEF OneTimeCode, ResetsMarked, RowTypes
  <2> QED
    BY <2>5, <2>6, <2>7, <2>8 DEF CodeInv, SpentInv
<1>10. ASSUME NEW c \in Calls, SeeSessions(c)
       PROVE  CodeInv' /\ SpentInv'
  <2>1. UNCHANGED Codes /\ overlapped \subseteq overlapped' /\ call[c].pc = "reset"
    BY <1>10 DEF SeeSessions, tables, history, Codes
  <2>2. OneValidCode' /\ AsksMarked' /\ CodesSeen'
    BY <1>a, <1>b, <1>10, <2>1, SeeIs DEF OneValidCode, AsksMarked, CodesSeen, Unused, Codes
  <2>3. OneTimeCode' /\ (spent \subseteq used)' /\ ResetsMarked'
    BY <1>a, <1>b, <1>10, <2>1, SeeIs DEF OneTimeCode, ResetsMarked, Codes
  <2> QED
    BY <2>2, <2>3 DEF CodeInv, SpentInv
<1>11. ASSUME NEW c \in Calls, CommitReset(c)
       PROVE  CodeInv' /\ SpentInv'
  <2>1. /\ UNCHANGED <<codeOwner, crossed>> /\ call[c].pc = "commit"
        /\ Return(c) /\ used' = used \cup {call[c].row}
        /\ spent' = IF c \in overlapped THEN spent ELSE spent \cup {call[c].row}
    BY <1>11 DEF CommitReset, CommitWith
  <2>2. call[c].row \in Resets
    BY <1>a, <2>1 DEF CallsBusy, Busy
  <2>3. OneValidCode' /\ AsksMarked' /\ CodesSeen'
    BY <1>a, <1>b, <2>1, ReturnIs DEF OneValidCode, AsksMarked, CodesSeen, Unused
  <2>4. (spent \subseteq used)' /\ ResetsMarked'
    BY <1>a, <1>b, <2>1, ReturnIs DEF ResetsMarked
  <2>5. OneTimeCode'
    BY <1>a, <1>b, <2>1, <2>2, ReturnIs DEF OneTimeCode, ResetsMarked, RowTypes
  <2> QED
    BY <2>3, <2>4, <2>5 DEF CodeInv, SpentInv
<1>12. ASSUME NEW c \in Calls, Abort(c)
       PROVE  CodeInv' /\ SpentInv'
  <2>1. UNCHANGED Codes /\ Return(c)
    BY <1>12 DEF Abort, tables, history, Codes
  <2> QED
    BY <1>a, <2>1, ReturnIs, CodesKept
<1>13. CASE UNCHANGED <<Codes, call, overlapped>>
  BY <1>b, <1>13 DEF CodeInv, SpentInv, OneValidCode, AsksMarked, CodesSeen, OneTimeCode,
     ResetsMarked, Unused, Codes
<1>14. ASSUME NEW t \in Tokens, Logout(t) \/ TokenExpires(t)
       PROVE  CodeInv' /\ SpentInv'
  BY <1>13, <1>14 DEF Logout, TokenExpires, Codes, history
<1>15. ASSUME NEW r \in Resets, CodeLapses(r)
       PROVE  CodeInv' /\ SpentInv'
  BY <1>13, <1>15 DEF CodeLapses, Codes, history
<1>16. CASE RemoveExpiredRefreshTokens \/ UNCHANGED vars
  BY <1>13, <1>16 DEF RemoveExpiredRefreshTokens, Codes, vars, tables, history
<1> QED
  BY <1>1, <1>2, <1>3, <1>4, <1>5, <1>6, <1>7, <1>8, <1>9, <1>10, <1>11, <1>12, <1>14,
     <1>15, <1>16 DEF Next, Request, Continue

----------------------------------------------------------------------------
(* A family that is not alive stays so: where it can come alive, from its      *)
(* tokens and from the requests that hold it, it was.                          *)
Ended(f) == family[f] = f /\ ~ Alive(f)

LEMMA RenewerAlive ==
  ASSUME NEW c \in Calls, Renewing(c), NEW f \in Tokens, call[c].fam = f
  PROVE  Alive(f)
BY DEF Alive

LEMMA NotRevived ==
  ASSUME CallsBusy, NEW f \in Tokens, ~ Alive(f), UNCHANGED family, NEW c \in Calls,
         \A t \in Tokens : Live(t)' => Live(t),
         \A t \in Tokens : owner'[t] # None => owner[t] # None,
         \A d \in Calls \ {c} : call'[d] = call[d],
         Renewing(c)' => call'[c].fam # f
  PROVE  ~ Alive(f)'
<1>1. ASSUME NEW d \in Calls \ {c}, Renewing(d)', call'[d].fam = f PROVE FALSE
  <2>1. call'[d] = call[d] /\ (call[d].pc = "revoke" => call[d].tok \in Tokens)
    BY <1>1, IdleIs DEF CallsBusy, Busy
  <2>2. Renewing(d)
    BY <1>1, <2>1 DEF Renewing
  <2> QED BY <1>1, <2>1, <2>2, RenewerAlive
<1>2. ASSUME NEW t \in Tokens, family'[t] = f, Live(t)' PROVE FALSE
  BY <1>2 DEF Alive
<1> QED BY <1>1, <1>2 DEF Alive

LEMMA EndedStep == Basic /\ [Next]_vars => \A f \in Tokens : Ended(f) => ~ Alive(f)'
<1> SUFFICES ASSUME Basic, [Next]_vars, NEW f \in Tokens, Ended(f)
             PROVE  ~ Alive(f)'
  OBVIOUS
<1> USE SessionsAssumption, IdleIs
<1>a. RowTypes /\ CallsBusy /\ RowsIssued /\ family[f] = f /\ ~ Alive(f)
  BY DEF Basic, Ended
<1>1. ASSUME NEW c \in Calls, NEW u \in Users, NEW p \in Passwords,
             Register(c, u, p) \/ Login(c, u, p)
      PROVE  ~ Alive(f)'
  <2>1. UNCHANGED <<tables, history>>
    BY <1>1 DEF Register, Login
  <2>2. call'[c].fam = None /\ \A d \in Calls \ {c} : call'[d] = call[d]
    BY <1>1, RegisterIs, LoginIs
  <2>3. \A t \in Tokens : Live(t)' => Live(t)
    BY <2>1 DEF Live, tables
  <2> QED
    BY <1>a, <2>1, <2>2, <2>3, NotRevived DEF history, tables
<1>2. ASSUME NEW c \in Calls, NEW t \in Tokens, Refresh(c, t)
      PROVE  ~ Alive(f)'
  <2>1. UNCHANGED <<tables, family>>
    BY <1>2 DEF Refresh, RefreshIf
  <2>2. call'[c].fam # f
    BY <1>a, <1>2, RefreshIs DEF Alive
  <2>3. \A s \in Tokens : Live(s)' => Live(s)
    BY <2>1 DEF Live, tables
  <2> QED
    BY <1>a, <1>2, <2>1, <2>2, <2>3, RefreshIs, NotRevived DEF tables
<1>3. ASSUME NEW c \in Calls, NEW u \in Users, ForgotPassword(c, u)
      PROVE  ~ Alive(f)'
  <2>1. UNCHANGED <<tables, history>>
    BY <1>3 DEF ForgotPassword
  <2>2. \A s \in Tokens : Live(s)' => Live(s)
    BY <2>1 DEF Live, tables
  <2> QED
    BY <1>a, <1>3, <2>1, <2>2, ForgotIs, NotRevived DEF Renewing, history, tables
<1>4. ASSUME NEW c \in Calls, NEW r \in Resets, NEW p \in Passwords, ResetPassword(c, r, p)
      PROVE  ~ Alive(f)'
  <2>1. UNCHANGED <<tables, history>>
    BY <1>4 DEF ResetPassword
  <2>2. \A s \in Tokens : Live(s)' => Live(s)
    BY <2>1 DEF Live, tables
  <2> QED
    BY <1>a, <1>4, <2>1, <2>2, ResetIs, NotRevived DEF Renewing, history, tables
<1>5. ASSUME NEW c \in Calls, CreateUser(c) \/ RevokeUsed(c)
      PROVE  ~ Alive(f)'
  <2>1. UNCHANGED <<owner, history>> /\ revoked \subseteq revoked'
    BY <1>5 DEF CreateUser, RevokeUsed
  <2>2. \A s \in Tokens : Live(s)' => Live(s)
    BY <2>1 DEF Live
  <2>3. ASSUME GoOn(c, "issue"), call[c].fam # f PROVE ~ Alive(f)'
    BY <1>a, <2>1, <2>2, <2>3, GoOnIs, NotRevived DEF history
  <2>4. CASE CreateUser(c)
    <3>1. call[c].fam # f
      BY <1>a, <2>4 DEF CreateUser, CallsBusy, Busy
    <3>2. GoOn(c, "issue") \/ Return(c)
      BY <2>4 DEF CreateUser
    <3>3. CASE Return(c)
      BY <1>a, <2>1, <2>2, <3>3, ReturnIs, NotRevived DEF history, Renewing
    <3> QED BY <2>3, <3>1, <3>2, <3>3
  <2>5. CASE RevokeUsed(c) /\ owner[call[c].tok] # None
    <3>1. call[c].fam # f
      BY <1>a, <2>5, RenewerAlive DEF RevokeUsed, Renewing
    <3> QED BY <2>3, <2>5, <3>1 DEF RevokeUsed
  <2>6. CASE RevokeUsed(c) /\ owner[call[c].tok] = None
    <3>1. Return(c)
      BY <2>6 DEF RevokeUsed
    <3> QED BY <1>a, <2>1, <2>2, <3>1, ReturnIs, NotRevived DEF history, Renewing
  <2> QED
    BY <1>5, <2>4, <2>5, <2>6
<1>6. ASSUME NEW c \in Calls, NEW t \in Tokens, IssueTokenPair(c, t)
      PROVE  ~ Alive(f)'
  <2>1. /\ UNCHANGED revoked /\ Return(c) /\ call[c].pc = "issue" /\ family[t] = None
        /\ owner' = [owner EXCEPT ![t] = call[c].user]
        /\ family' = [family EXCEPT ![t] = IF call[c].fam = None THEN t ELSE call[c].fam]
    BY <1>6 DEF IssueTokenPair
  <2>2. call[c].fam # f
    BY <1>a, <2>1, RenewerAlive DEF Renewing
  <2>3. family'[t] # f
    BY <1>a, <2>1, <2>2 DEF RowTypes
  <2>4. \A s \in Tokens \ {t} : owner'[s] = owner[s] /\ family'[s] = family[s]
    BY <1>a, <2>1 DEF RowTypes
  <2>5. ASSUME NEW s \in Tokens, family'[s] = f, Live(s)' PROVE FALSE
    BY <1>a, <2>1, <2>3, <2>4, <2>5 DEF Alive, Live
  <2>6. ASSUME NEW d \in Calls, Renewing(d)', call'[d].fam = f PROVE FALSE
    <3>1. d # c /\ call'[d] = call[d]
      BY <1>a, <2>1, <2>6, ReturnIs DEF Renewing
    <3>2. call[d].pc = "revoke" => call[d].tok \in Tokens \ {t}
      BY <1>a, <2>1 DEF CallsBusy, Busy
    <3>3. Renewing(d)
      BY <2>4, <2>6, <3>1, <3>2 DEF Renewing
    <3> QED BY <1>a, <2>6, <3>1, <3>3, RenewerAlive
  <2> QED
    BY <2>5, <2>6 DEF Alive
<1>7. ASSUME NEW c \in Calls,
             \/ \E r \in Resets : CreateCode(c, r)
             \/ CommitReset(c) \/ Abort(c)
      PROVE  ~ Alive(f)'
  <2>1. UNCHANGED <<owner, family>> /\ revoked \subseteq revoked' /\ Return(c)
    BY <1>7 DEF CreateCode, ReplaceCodes, CommitReset, CommitWith, Abort, tables, history
  <2>2. \A s \in Tokens : Live(s)' => Live(s)
    BY <2>1 DEF Live
  <2> QED
    BY <1>a, <2>1, <2>2, ReturnIs, NotRevived DEF Renewing
<1>8. ASSUME NEW c \in Calls, SeeSessions(c)
      PROVE  ~ Alive(f)'
  <2>1. UNCHANGED <<tables, history>>
    BY <1>8 DEF SeeSessions
  <2>2. \A s \in Tokens : Live(s)' => Live(s)
    BY <2>1 DEF Live, tables
  <2> QED
    BY <1>a, <1>8, <2>1, <2>2, SeeIs, NotRevived DEF Renewing, history, tables
<1>9. CASE /\ UNCHANGED <<call, family>>
           /\ \A t \in Tokens : (Live(t)' => Live(t)) /\ (owner'[t] # None => owner[t] # None)
  <2>1. \A c \in Calls : call[c].pc = "revoke" => call[c].tok \in Tokens
    BY <1>a DEF CallsBusy, Busy
  <2>2. \A c \in Calls : Renewing(c)' => Renewing(c)
    BY <1>9, <2>1 DEF Renewing
  <2> QED BY <1>a, <1>9, <2>2 DEF Alive
<1>10. ASSUME NEW t \in Tokens, Logout(t) \/ TokenExpires(t)
       PROVE  ~ Alive(f)'
  BY <1>9, <1>10 DEF Logout, TokenExpires, history, Live
<1>11. ASSUME NEW r \in Resets, CodeLapses(r)
       PROVE  ~ Alive(f)'
  BY <1>9, <1>11 DEF CodeLapses, history, Live
<1>12. CASE RemoveExpiredRefreshTokens
  BY <1>a, <1>9, <1>12 DEF RemoveExpiredRefreshTokens, history, Live, RowTypes
<1>13. CASE UNCHANGED vars
  BY <1>9, <1>13 DEF vars, tables, history, Live
<1> QED
  BY <1>1, <1>2, <1>3, <1>4, <1>5, <1>6, <1>7, <1>8, <1>10, <1>11, <1>12, <1>13
     DEF Next, Request, Continue

----------------------------------------------------------------------------
(* The tables of AuthService keep their types; rows, and requests past their   *)
(* checks, belong to registered users.                                         *)
THEOREM TypeCorrect == Spec => []TypeOK
<1>1. Basic => TypeOK
  BY IdleIs DEF Basic, CallsBusy, Busy, TypeOK
<1> QED
  BY <1>1, InitBasic, BasicStep, PTL DEF Spec

(* resetPassword: every live session that was not opened, or refreshed, while  *)
(* a reset was under way was opened with the user's current password.          *)
THEOREM SessionsCurrent == Spec => []SessionsMatchPassword
<1>1. PasswordInv => SessionsMatchPassword
  BY DEF PasswordInv
<1> QED
  BY <1>1, InitBasic, InitRest, BasicStep, PasswordStep, PTL DEF Spec

(* refresh: a login has one live token, unless one was refreshed twice at once. *)
THEOREM RotationHolds == Spec => []OneLivePerLogin
<1>1. FamilyInv => OneLivePerLogin
  BY DEF FamilyInv
<1> QED
  BY <1>1, InitBasic, InitRest, BasicStep, FamilyStep, PTL DEF Spec

(* The two are preserved together. *)
LEMMA CodesHold == Spec => [](CodeInv /\ SpentInv)
<1> QED
  BY InitBasic, InitRest, BasicStep, CodeStep, PTL DEF Spec

(* forgotPassword leaves one unused code, unless two overlap. *)
THEOREM CodesSingle == Spec => []OneValidCode
<1>1. CodeInv => OneValidCode
  BY DEF CodeInv
<1> QED
  BY <1>1, CodesHold, PTL

(* resetPassword takes a code once, unless two with the same code overlap. *)
THEOREM CodesOneTime == Spec => []OneTimeCode
<1>1. SpentInv => OneTimeCode
  BY DEF SpentInv
<1> QED
  BY <1>1, CodesHold, PTL

(* A session that has ended, by logout, reset or a lost refresh, stays ended. *)
THEOREM SessionsStayEnded == Spec => EndedStaysEnded
<1>1. Basic /\ [Next]_vars
        => [\A f \in Tokens : family[f] = f /\ ~ Alive(f) => ~ Alive(f)']_vars
  BY EndedStep DEF Ended
<1> QED
  BY <1>1, InitBasic, BasicStep, PTL DEF Spec, EndedStaysEnded

============================================================================
