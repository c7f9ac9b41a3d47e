------------------------------ MODULE Accounts ------------------------------
(***************************************************************************)
(* Accounts and sessions: services/auth.ts, services/auth/oauth.ts, the    *)
(* routes that call them, and the cleanup that deletes accounts.           *)
(*                                                                         *)
(* A login reads the user's row, spends a while on the password, writes    *)
(* the row from what it read, and opens the session by a later insertion.  *)
(* What sets or replaces a password or unlinks Google reads the row, is    *)
(* away with bcrypt, and UPDATEs by id alone; what ends sessions does so   *)
(* by a DELETE, an await after its UPDATE. Nothing is a transaction.       *)
(*                                                                         *)
(* A request that needs a session is let in by one of the account's; the   *)
(* check and the handler's read of the row are one step here.              *)
(***************************************************************************)
EXTENDS Naturals, FiniteSets

CONSTANTS
  User,      \* ids of users: one account each, an id is not used again
  Login,     \* login requests that may be under way at once
  Lockout,   \* LOGIN_SECURITY.ATTEMPTS_BEFORE_LOCKOUT
  MaxEpoch,  \* bound: how often an account's password is replaced
  MaxHandlers, \* bound: handlers of one account under way that begin with a check
  MaxEnding  \* bound: handlers of one account that are ending its sessions at once

ASSUME AccountsAssumption ==
  Lockout \in Nat \ {0} /\ {MaxEpoch, MaxHandlers, MaxEnding} \subseteq Nat

VARIABLES
  account,  \* users: password and its epoch, oauthProvider, the counters, the deletion;
            \* ends: (history) the epoch begun last by a handler that ends sessions
  session,  \* sessions: of whom, under which epoch opened, and (history) if too late
  login,    \* where each login stands, and the row it read
  writing,  \* handlers of the account that have checked its row and not written it
  ending,   \* handlers of the account that have yet to delete its sessions
  cut,      \* history: such a handler has died
  token,    \* the mailed tokens that are valid
  sweep,    \* accounts the cleanup has listed and not yet deleted
  moved     \* history: its schedule has been changed since the cleanup listed it

authVars == <<account, session, login, writing, ending, cut, token, sweep, moved>>

NoAccount == [exists |-> FALSE, verified |-> FALSE, password |-> FALSE, epoch |-> 0,
              ends |-> 0, oauth |-> FALSE, attempts |-> 0, locked |-> FALSE, deletion |-> "no"]
\* What a login uses of the row it has read.
Read(row) == [epoch |-> row.epoch, attempts |-> row.attempts, locked |-> row.locked,
              deletion |-> row.deletion]
Gone == [NoAccount EXCEPT !.deletion = "due"]
Idle(u) == [at |-> "idle", of |-> u, right |-> FALSE, row |-> Read(NoAccount)]
Tokens == {"verify", "change", "reset"}
Handler == {"update", "set", "reset", "unlink"}
Snapshots == [epoch : 0..MaxEpoch, attempts : 0..Lockout, locked : BOOLEAN,
              deletion : {"no", "grace", "due"}]
Rows == [exists : BOOLEAN, verified : BOOLEAN, password : BOOLEAN, oauth : BOOLEAN,
         epoch : 0..MaxEpoch, ends : 0..MaxEpoch, attempts : 0..Lockout, locked : BOOLEAN,
         deletion : {"no", "grace", "due"}]

AuthTypeOK ==
  /\ account \in [User -> Rows]
  /\ session \subseteq [of : User, born : 0..MaxEpoch, late : BOOLEAN]
  /\ login \in [Login -> [at : {"idle", "read", "write", "open"}, of : User, right : BOOLEAN,
                          row : Snapshots]]
  /\ writing \in [User -> [Handler -> Nat]]
  /\ ending \in [User -> 0..MaxEnding]
  /\ cut \in [User -> BOOLEAN]
  /\ token \in [User -> SUBSET Tokens]
  /\ sweep \subseteq User
  /\ moved \in [User -> BOOLEAN]

AuthInit ==
  /\ account = [u \in User |-> NoAccount]
  /\ session = {}
  /\ login \in {[l \in Login |-> Idle(u)] : u \in User}
  /\ writing = [u \in User |-> [h \in Handler |-> 0]]
  /\ ending = [u \in User |-> 0]
  /\ cut = [u \in User |-> FALSE]
  /\ token = [u \in User |-> {}]
  /\ sweep = {}
  /\ moved = [u \in User |-> FALSE]

--------------------------------------------------------------------------
(* What the handlers have in common. *)

Exists(u) == account[u].exists
Unused(u) == account[u] = NoAccount
SignedIn(u) == Exists(u) /\ \E s \in session : s.of = u

\* A handler that has found its user and goes on to open a session for it.
WillOpen(l, u, row) ==
  login' = [login EXCEPT ![l] = [at |-> "open", of |-> u, right |-> TRUE,
                                 row |-> [Read(NoAccount) EXCEPT !.epoch = row.epoch]]]
Leaves(l) == login' = [login EXCEPT ![l] = Idle(login[l].of)]

\* The sessions are deleted an await later.
WillEnd(u) == ending[u] < MaxEnding /\ ending' = [ending EXCEPT ![u] = @ + 1]

\* scheduledDeletionAt is written, perhaps after the cleanup has read it.
Reschedules(u) == moved' = [moved EXCEPT ![u] = @ \/ u \in sweep]

--------------------------------------------------------------------------
(* Signing up and in with a password. *)

\* The insertion, the token (whose failure leaves the account), then the session.
Signup(l, u) ==
  /\ login[l].at = "idle" /\ Unused(u)
  /\ account' = [account EXCEPT ![u] = [NoAccount EXCEPT !.exists = TRUE, !.password = TRUE]]
  /\ \/ token' = [token EXCEPT ![u] = {"verify"}] /\ WillOpen(l, u, account'[u])
     \/ UNCHANGED <<token, login>>
  /\ UNCHANGED <<session, writing, ending, cut, sweep, moved>>

\* login reads the row and compares with its hash (or a dummy's). A wrong password
\* needs the attempts counted so far; the right one, the rest.
BeginLogin(l, u) ==
  /\ login[l].at = "idle" /\ Exists(u)
  /\ \E right \in BOOLEAN :
       /\ right => account[u].password
       /\ login' = [login EXCEPT ![l] =
            [at |-> "read", of |-> u, right |-> right,
             row |-> IF right THEN [Read(account[u]) EXCEPT !.attempts = 0]
                     ELSE [Read(NoAccount) EXCEPT !.attempts = account[u].attempts]]]
  /\ UNCHANGED <<account, session, writing, ending, cut, token, sweep, moved>>

\* The attempts written are those of the row as it was read, and one. (Beyond the
\* lockout the count makes no difference any more, and stops here.)
LoginFails(l) ==
  LET u == login[l].of
      attempts == IF login[l].row.attempts = Lockout THEN Lockout ELSE login[l].row.attempts + 1 IN
  /\ login[l].at = "read" /\ ~login[l].right
  /\ account' = [account EXCEPT
       ![u].attempts = IF Exists(u) THEN attempts ELSE @,
       ![u].locked = @ \/ (Exists(u) /\ attempts = Lockout)]
  /\ Leaves(l)
  /\ UNCHANGED <<session, writing, ending, cut, token, sweep, moved>>

\* The lock and the schedule are those of the row read, against the clock now.
Refused(l) ==
  \/ login[l].row.locked /\ account[login[l].of].locked
  \/ login[l].row.deletion # "no" /\ account[login[l].of].deletion = "due"
  \/ login[l].row.deletion = "due"

CheckLogin(l) ==
  /\ login[l].at = "read" /\ login[l].right
  /\ IF Refused(l) THEN Leaves(l) ELSE login' = [login EXCEPT ![l].at = "write"]
  /\ UNCHANGED <<account, session, writing, ending, cut, token, sweep, moved>>

\* Clears the counters, and an account in its grace period is reactivated.
AcceptLogin(l) ==
  LET u == login[l].of IN
  /\ login[l].at = "write"
  /\ account' = [account EXCEPT
       ![u].attempts = IF Exists(u) THEN 0 ELSE @,
       ![u].locked = FALSE,
       ![u].deletion = IF Exists(u) /\ login[l].row.deletion # "no" THEN "no" ELSE @]
  /\ IF login[l].row.deletion # "no" THEN Reschedules(u) ELSE UNCHANGED moved
  /\ WillOpen(l, u, login[l].row)
  /\ UNCHANGED <<session, writing, ending, cut, token, sweep>>

\* createSession; the foreign key refuses one for a deleted account. It is late when
\* a handler that ends sessions has replaced the password since the row was read.
OpenSession(l) ==
  LET u == login[l].of IN
  /\ login[l].at = "open"
  /\ session' = IF Exists(u)
                THEN session \cup {[of |-> u, born |-> login[l].row.epoch,
                                    late |-> login[l].row.epoch \notin account[u].ends..MaxEpoch]}
                ELSE session
  /\ Leaves(l)
  /\ UNCHANGED <<account, writing, ending, cut, token, sweep, moved>>

LoginDies(l) ==
  /\ login[l].at # "idle"
  /\ Leaves(l)
  /\ UNCHANGED <<account, session, writing, ending, cut, token, sweep, moved>>

--------------------------------------------------------------------------
(* Signing in with Google: determineAction and what follows from it. *)

OAuthCreate(l, u) ==
  /\ login[l].at = "idle" /\ Unused(u)
  /\ account' = [account EXCEPT ![u] =
                   [NoAccount EXCEPT !.exists = TRUE, !.oauth = TRUE, !.verified = TRUE]]
  /\ WillOpen(l, u, account'[u])
  /\ UNCHANGED <<session, writing, ending, cut, token, sweep, moved>>

\* Neither the lock nor the deletion is looked at.
OAuthLogin(l, u) ==
  /\ login[l].at = "idle" /\ Exists(u) /\ account[u].oauth
  /\ WillOpen(l, u, account[u])
  /\ UNCHANGED <<account, session, writing, ending, cut, token, sweep, moved>>

\* linkOAuthToUser (a verified account), linkWithPasswordConfirmation (one that
\* gives its password), linkOAuthByUserId (one that is signed in: it is not
\* marked verified).
OAuthLink(l, u) ==
  /\ login[l].at = "idle" /\ Exists(u) /\ ~account[u].oauth
  /\ \/ account[u].verified /\ account' = [account EXCEPT ![u].oauth = TRUE]
     \/ account[u].password /\ account' = [account EXCEPT ![u].oauth = TRUE, ![u].verified = TRUE]
     \/ SignedIn(u) /\ account' = [account EXCEPT ![u].oauth = TRUE]
  /\ WillOpen(l, u, account'[u])
  /\ UNCHANGED <<session, writing, ending, cut, token, sweep, moved>>

--------------------------------------------------------------------------
(* Passwords, and unlinking Google: the check, and an await or two later   *)
(* the write, which asks nothing of the row it finds.                      *)

NoPasswordMutant(u) == account[u].oauth
MayUnlink(u) == account[u].password /\ account[u].oauth

\* What each handler has found in the row, or of the token, before it goes on.
Admitted(u, h) ==
  \/ h = "update" /\ SignedIn(u) /\ account[u].password
  \/ h = "set" /\ SignedIn(u) /\ ~account[u].password
  \/ h = "reset" /\ Exists(u) /\ "reset" \in token[u]
  \/ h = "unlink" /\ SignedIn(u) /\ MayUnlink(u)

\* Handlers of the account that have begun and not ended.
Underway(u) ==
  writing[u]["update"] + writing[u]["set"] + writing[u]["reset"] + writing[u]["unlink"] + ending[u]

BeginHandler(u, h) ==
  /\ Admitted(u, h)
  /\ Underway(u) < MaxHandlers
  /\ writing' = [writing EXCEPT ![u][h] = @ + 1]
  /\ UNCHANGED <<account, session, login, ending, cut, token, sweep, moved>>

Written(u, h) == writing[u][h] > 0 /\ writing' = [writing EXCEPT ![u][h] = @ - 1]

\* It dies, or refuses the password it was given.
HandlerFails(u, h) ==
  /\ Written(u, h)
  /\ UNCHANGED <<account, session, login, ending, cut, token, sweep, moved>>

UnlinkOAuth(u) ==
  /\ Written(u, "unlink")
  /\ account' = [account EXCEPT ![u].oauth = FALSE]
  /\ WillEnd(u)
  /\ UNCHANGED <<session, login, cut, token, sweep, moved>>

NewPassword(u) ==
  /\ account[u].epoch < MaxEpoch
  /\ account' = [account EXCEPT ![u].password = TRUE, ![u].epoch = @ + 1,
                                ![u].ends = account[u].epoch + 1]

UpdatePassword(u) ==
  /\ Written(u, "update")
  /\ NewPassword(u)
  /\ WillEnd(u)
  /\ UNCHANGED <<session, login, cut, token, sweep, moved>>

\* setPasswordForOAuthUser: meant to be the first password, it replaces one that
\* was set since it looked, and sessions stay.
SetPasswordForOAuthUser(u) ==
  /\ Written(u, "set")
  /\ \/ ~account[u].password /\ account' = [account EXCEPT ![u].password = TRUE]
     \/ /\ account[u].password /\ account[u].epoch < MaxEpoch
        /\ account' = [account EXCEPT ![u].epoch = @ + 1]
  /\ UNCHANGED <<session, login, ending, cut, token, sweep, moved>>

\* Replaces the tokens mailed before.
RequestPasswordReset(u) ==
  /\ Exists(u)
  /\ token' = [token EXCEPT ![u] = @ \cup {"reset"}]
  /\ UNCHANGED <<account, session, login, writing, ending, cut, sweep, moved>>

\* Sets nothing but the hash, and deletes the account's reset tokens.
ResetPassword(u) ==
  /\ Written(u, "reset")
  /\ NewPassword(u)
  /\ token' = [token EXCEPT ![u] = @ \ {"reset"}]
  /\ WillEnd(u)
  /\ UNCHANGED <<session, login, cut, sweep, moved>>

--------------------------------------------------------------------------
(* What ends the account's sessions. *)

CurrentMutant(u) ==
  LET own == {s \in session : s.of = u} IN
  (session \ own) \cup (IF own = {} THEN {} ELSE {CHOOSE s \in own : TRUE})
Others(u) == {s \in session : s.of # u}

\* deleteAllUserSessions, at the end of each handler that ends them.
DeleteAllUserSessions(u) ==
  /\ ending[u] > 0
  /\ ending' = [ending EXCEPT ![u] = @ - 1]
  /\ session' = Others(u)
  /\ UNCHANGED <<account, login, writing, cut, token, sweep, moved>>

HandlerDies(u) ==
  /\ ending[u] > 0
  /\ ending' = [ending EXCEPT ![u] = @ - 1]
  /\ cut' = [cut EXCEPT ![u] = TRUE]
  /\ UNCHANGED <<account, session, login, writing, token, sweep, moved>>

--------------------------------------------------------------------------
(* E-mail addresses. Both kinds of token live in one table. *)

\* Replaces every token of the table.
ResendVerificationEmail(u) ==
  /\ SignedIn(u) /\ ~account[u].verified
  /\ token' = [token EXCEPT ![u] = (@ \ {"change"}) \cup {"verify"}]
  /\ UNCHANGED <<account, session, login, writing, ending, cut, sweep, moved>>

VerifyEmail(u) ==
  /\ Exists(u) /\ "verify" \in token[u]
  /\ account' = [account EXCEPT ![u].verified = TRUE]
  /\ token' = [token EXCEPT ![u] = @ \ {"verify", "change"}]
  /\ UNCHANGED <<session, login, writing, ending, cut, sweep, moved>>

InitiateEmailChange(u) ==
  /\ SignedIn(u) /\ account[u].password
  /\ token' = [token EXCEPT ![u] = @ \cup {"change"}]
  /\ UNCHANGED <<account, session, login, writing, ending, cut, sweep, moved>>

\* (The unique index may refuse the new address: then nothing changes.)
VerifyEmailChange(u) ==
  /\ Exists(u) /\ "change" \in token[u]
  /\ account' = [account EXCEPT ![u].verified = TRUE]
  /\ token' = [token EXCEPT ![u] = @ \ {"verify", "change"}]
  /\ WillEnd(u)
  /\ UNCHANGED <<session, login, writing, cut, sweep, moved>>

--------------------------------------------------------------------------
(* The end of an account. *)

InitiateAccountDeletion(u) ==
  /\ SignedIn(u)
  /\ account' = [account EXCEPT ![u].deletion = "grace"]
  /\ Reschedules(u)
  /\ WillEnd(u)
  /\ UNCHANGED <<session, login, writing, cut, token, sweep>>

CancelAccountDeletion(u) ==
  /\ SignedIn(u) /\ account[u].deletion # "no"
  /\ account' = [account EXCEPT ![u].deletion = "no"]
  /\ Reschedules(u)
  /\ UNCHANGED <<session, login, writing, ending, cut, token, sweep>>

ScheduledMutant == {u \in User : Exists(u) /\ account[u].deletion # "no"}
PastDeletion == {u \in User : Exists(u) /\ account[u].deletion = "due"}

\* The daily cleanup selects the accounts, then deletes them one by one.
CleanupLists ==
  /\ sweep = {} /\ PastDeletion # {}
  /\ sweep' = PastDeletion
  /\ moved' = [u \in User |-> FALSE]
  /\ UNCHANGED <<account, session, login, writing, ending, cut, token>>

\* (A handler that still has this row to write finds none.)
PermanentlyDeleteUser(u) ==
  /\ u \in sweep
  /\ sweep' = sweep \ {u}
  /\ account' = [account EXCEPT ![u] = Gone]
  /\ session' = Others(u)
  /\ token' = [token EXCEPT ![u] = {}]
  /\ writing' = [writing EXCEPT ![u] = [h \in Handler |-> 0]]
  /\ ending' = [ending EXCEPT ![u] = 0]
  /\ cut' = [cut EXCEPT ![u] = FALSE]
  /\ UNCHANGED <<login, moved>>

--------------------------------------------------------------------------
(* Time, and leaving. *)

GraceEnds(u) ==
  /\ account[u].deletion = "grace"
  /\ account' = [account EXCEPT ![u].deletion = "due"]
  /\ UNCHANGED <<session, login, writing, ending, cut, token, sweep, moved>>

LockExpires(u) ==
  /\ account[u].locked
  /\ account' = [account EXCEPT ![u].locked = FALSE]
  /\ UNCHANGED <<session, login, writing, ending, cut, token, sweep, moved>>

TokenExpires(u) ==
  /\ \E kind \in token[u] : token' = [token EXCEPT ![u] = @ \ {kind}]
  /\ UNCHANGED <<account, session, login, writing, ending, cut, sweep, moved>>

\* Signed out, or seven days old.
SessionEnds ==
  /\ \E s \in session : session' = session \ {s}
  /\ UNCHANGED <<account, login, writing, ending, cut, token, sweep, moved>>

AuthNext ==
  \/ \E l \in Login :
       \/ \E u \in User : Signup(l, u) \/ BeginLogin(l, u) \/ OAuthCreate(l, u) \/ OAuthLogin(l, u)
                          \/ OAuthLink(l, u)
       \/ LoginFails(l) \/ CheckLogin(l) \/ AcceptLogin(l) \/ OpenSession(l) \/ LoginDies(l)
  \/ \E u \in User :
       \/ \E h \in Handler : BeginHandler(u, h) \/ HandlerFails(u, h)
       \/ UnlinkOAuth(u) \/ UpdatePassword(u) \/ SetPasswordForOAuthUser(u)
       \/ RequestPasswordReset(u) \/ ResetPassword(u)
       \/ DeleteAllUserSessions(u) \/ HandlerDies(u)
       \/ ResendVerificationEmail(u) \/ VerifyEmail(u) \/ InitiateEmailChange(u) \/ VerifyEmailChange(u)
       \/ InitiateAccountDeletion(u) \/ CancelAccountDeletion(u)
       \/ PermanentlyDeleteUser(u) \/ GraceEnds(u) \/ LockExpires(u) \/ TokenExpires(u)
  \/ CleanupLists \/ SessionEnds

AuthSpec == AuthInit /\ [][AuthNext]_authVars

--------------------------------------------------------------------------
(* Properties. *)

\* An account always has a way in, its password or Google, in whichever order
\* passwords are set and replaced and providers linked and unlinked.
AccountCanLogIn ==
  \A u \in User : Exists(u) => account[u].password \/ account[u].oauth

\* A session opened before updatePassword or resetPassword replaced the password is
\* gone once the handlers under way are done, unless one of them died half-way or a
\* login that had read the old row opened it afterwards. (Nothing is claimed of a
\* password that setPasswordForOAuthUser replaces: that ends no session.)
OldSessionsEnd ==
  \A s \in session :
    s.born >= account[s.of].ends \/ s.late \/ ending[s.of] > 0 \/ cut[s.of]

\* An account is deleted for good when its grace period is over and nothing else;
\* the one exception is an owner who comes back between the cleanup's SELECT and
\* its DELETE.
DeletedWhenDue ==
  [][\A u \in User : Exists(u) /\ ~account'[u].exists =>
       account[u].deletion = "due" \/ moved[u]]_authVars
=============================================================================
