---------------------------- MODULE ServiceProofs ----------------------------
(***************************************************************************)
(* Proofs about the services around the analysis.                          *)
(*                                                                         *)
(*   AuthTypeCorrect, DocTypeCorrect, StreamTypeCorrect                    *)
(*   NobodyIsLockedOut           an account keeps a way to log in          *)
(*   SessionsEndWithThePassword  updatePassword and resetPassword end the  *)
(*                               sessions opened before                    *)
(*   OnlyTheDueAreDeleted        accounts are deleted when that is due     *)
(*   UnchangedIsAnalysed         "no changes" means what was analysed      *)
(*   OverwrittenIsRecorded       a text that is overwritten is a version   *)
(*   StreamImplementsFeed        the stream of events implements EventFeed *)
(*                                                                         *)
(* The inductive invariants are AuthInv, DocInv and StreamInv: each adds   *)
(* to what is claimed what an operation holds on to between its awaits     *)
(* (the accounts a cleanup has listed, the version a save has found, the   *)
(* events a replay has still to send) and what others may do to it then.   *)
(***************************************************************************)
EXTENDS Accounts, Documents, EventStream, SequenceTheorems, FiniteSetTheorems, TLAPS

LoginRun == [at : {"idle", "read", "write", "open"}, of : User, right : BOOLEAN, row : Snapshots]

\* What the cleanup has listed is still there, and still due unless it was moved.
SweptAreDue ==
  \A u \in sweep : Exists(u) /\ (account[u].deletion = "due" \/ moved[u])

\* A handler that goes on to unlink Google has seen a password, and it still is there.
UnlinkingChecked == \A u \in User : writing[u]["unlink"] > 0 => account[u].password

AuthInv == AuthTypeOK /\ AccountCanLogIn /\ OldSessionsEnd /\ SweptAreDue /\ UnlinkingChecked

USE AccountsAssumption

-----------------------------------------------------------------------------
(* Types. *)

LEMMA NoAccountType ==
  /\ NoAccount \in Rows
  /\ ~NoAccount.exists /\ NoAccount.ends = 0 /\ NoAccount.deletion = "no" /\ ~NoAccount.password
BY DEF NoAccount, Rows

LEMMA SnapshotType ==
  ASSUME NEW row \in Rows
  PROVE  /\ Read(row) \in Snapshots /\ Read(row).epoch = row.epoch
         /\ [Read(row) EXCEPT !.attempts = 0] \in Snapshots
         /\ \A attempts \in 0..Lockout : [Read(row) EXCEPT !.attempts = attempts] \in Snapshots
         /\ \A epoch \in 0..MaxEpoch : [Read(row) EXCEPT !.epoch = epoch] \in Snapshots
BY DEF Read, Rows, Snapshots

LEMMA IdleType == ASSUME NEW u \in User PROVE Idle(u) \in LoginRun
BY NoAccountType, SnapshotType DEF Idle, LoginRun

LEMMA LeavesType ==
  ASSUME AuthTypeOK, NEW l \in Login, Leaves(l)
  PROVE  login' \in [Login -> LoginRun]
<1>1. login[l].of \in User
  BY DEF AuthTypeOK
<1>2. PICK run \in LoginRun : run = Idle(login[l].of)
  BY <1>1, IdleType
<1>3. login' = [login EXCEPT ![l] = run]
  BY <1>2 DEF Leaves
<1> QED
  BY <1>3 DEF AuthTypeOK, LoginRun

LEMMA WillOpenType ==
  ASSUME AuthTypeOK, NEW l \in Login, NEW u \in User, NEW row, row.epoch \in 0..MaxEpoch,
         WillOpen(l, u, row)
  PROVE  login' \in [Login -> LoginRun]
<1>1. PICK read \in Snapshots : read = [Read(NoAccount) EXCEPT !.epoch = row.epoch]
  BY NoAccountType, SnapshotType
<1>2. PICK run : run = [at |-> "open", of |-> u, right |-> TRUE, row |-> read]
  OBVIOUS
<1>3. run \in LoginRun
  BY <1>2 DEF LoginRun
<1>4. login' = [login EXCEPT ![l] = run]
  BY <1>1, <1>2 DEF WillOpen
<1> QED
  BY <1>3, <1>4 DEF AuthTypeOK, LoginRun

LEMMA WillEndType ==
  ASSUME AuthTypeOK, NEW u \in User, WillEnd(u)
  PROVE  /\ ending' \in [User -> 0..MaxEnding] /\ ending'[u] > 0
         /\ \A o \in User \ {u} : ending'[o] = ending[o]
BY DEF AuthTypeOK, WillEnd

LEMMA WrittenType ==
  ASSUME AuthTypeOK, NEW u \in User, NEW h \in Handler, Written(u, h)
  PROVE  /\ writing' \in [User -> [Handler -> Nat]]
         /\ \A g \in Handler : writing'[u][g] > 0 => writing[u][g] > 0
         /\ \A o \in User \ {u} : writing'[o] = writing[o]
<1>1. PICK n \in Nat : n = writing[u][h] - 1
  BY DEF AuthTypeOK, Written
<1>2. writing' = [writing EXCEPT ![u] = [writing[u] EXCEPT ![h] = n]]
  BY <1>1 DEF AuthTypeOK, Written
<1>3. writing[u][h] > 0
  BY DEF Written
<1> QED
  BY <1>1, <1>2, <1>3 DEF AuthTypeOK

LEMMA ReschedulesType ==
  ASSUME AuthTypeOK, NEW u \in User, Reschedules(u)
  PROVE  /\ moved' \in [User -> BOOLEAN] /\ (u \in sweep => moved'[u])
         /\ \A o \in User \ {u} : moved'[o] = moved[o]
<1>1. PICK b \in BOOLEAN : b = (moved[u] \/ u \in sweep)
  OBVIOUS
<1>2. moved' = [moved EXCEPT ![u] = b]
  BY <1>1 DEF Reschedules
<1> QED
  BY <1>1, <1>2 DEF AuthTypeOK

LEMMA RowWritten ==
  ASSUME AuthTypeOK, NEW u \in User, NEW row \in Rows, account' = [account EXCEPT ![u] = row]
  PROVE  /\ account' \in [User -> Rows] /\ account'[u] = row
         /\ \A o \in User \ {u} : account'[o] = account[o]
BY DEF AuthTypeOK

-----------------------------------------------------------------------------
(* Steps about one account. *)

\* Nothing is done to other accounts, to sessions or to what the cleanup has listed.
OnlyOf(u) ==
  /\ \A o \in User \ {u} : /\ account'[o] = account[o] /\ ending'[o] = ending[o]
                           /\ writing'[o] = writing[o]
                           /\ cut'[o] = cut[o] /\ moved'[o] = moved[o]
  /\ UNCHANGED <<session, sweep>>

\* Only accounts the cleanup has listed are deleted.
OnlySwept == \A u \in User : Exists(u) /\ ~account'[u].exists => u \in sweep

\* What has to be seen of the account itself.
StaysSound(u) ==
  /\ account[u].exists => account'[u].exists
  /\ account'[u].exists => account'[u].password \/ account'[u].oauth
  /\ account'[u].ends = account[u].ends \/ ending'[u] > 0 \/ cut'[u]
  /\ writing'[u]["unlink"] > 0 => account'[u].password
  /\ ending[u] > 0 => ending'[u] > 0
  /\ cut[u] => cut'[u]
  /\ u \in sweep => account'[u].exists /\ (account'[u].deletion = "due" \/ moved'[u])

LEMMA AccountStep ==
  ASSUME AuthInv, AuthTypeOK', NEW u \in User, OnlyOf(u), StaysSound(u)
  PROVE  AuthInv' /\ OnlySwept
<1>1. AccountCanLogIn'
  BY DEF AuthInv, AccountCanLogIn, OnlyOf, StaysSound, Exists
<1>2. OldSessionsEnd'
  <2>1. session \subseteq [of : User, born : 0..MaxEpoch, late : BOOLEAN]
    BY DEF AuthInv, AuthTypeOK
  <2>2. \A s \in session : s.of \in User
    BY <2>1
  <2> QED
    BY <2>2 DEF AuthInv, OldSessionsEnd, OnlyOf, StaysSound
<1>3. SweptAreDue'
  <2>1. sweep \subseteq User
    BY DEF AuthInv, AuthTypeOK
  <2> QED
    BY <2>1 DEF AuthInv, SweptAreDue, OnlyOf, StaysSound, Exists
<1>4. OnlySwept
  BY DEF OnlySwept, OnlyOf, StaysSound, Exists
<1>5. UnlinkingChecked'
  BY DEF AuthInv, UnlinkingChecked, OnlyOf, StaysSound
<1> QED
  BY <1>1, <1>2, <1>3, <1>4, <1>5 DEF AuthInv

LEMMA LoginFailsKeeps ==
  ASSUME AuthInv, NEW l \in Login, LoginFails(l)
  PROVE  AuthInv' /\ OnlySwept
<1> USE DEF AuthInv
<1> DEFINE u == login[l].of
<1>1. u \in User
  BY DEF AuthTypeOK
<1>2. PICK attempts, locked :
        /\ attempts \in 0..Lockout /\ locked \in BOOLEAN
        /\ account' = [account EXCEPT ![u].attempts = attempts, ![u].locked = locked]
  <2>1. login[l].row.attempts \in 0..Lockout
    BY DEF AuthTypeOK, Snapshots
  <2>2. account[u].attempts \in 0..Lockout /\ account[u].locked \in BOOLEAN
    BY <1>1 DEF AuthTypeOK, Rows
  <2>3. PICK next \in 0..Lockout :
          next = IF login[l].row.attempts = Lockout THEN Lockout ELSE login[l].row.attempts + 1
    BY <2>1
  <2> QED
    BY <2>2, <2>3 DEF LoginFails
<1> HIDE DEF u
<1>3. account[u] \in Rows
  BY <1>1 DEF AuthTypeOK
<1>4. PICK row : row = [account[u] EXCEPT !.attempts = attempts, !.locked = locked]
  OBVIOUS
<1>5. row \in Rows /\ row.exists = account[u].exists /\ row.password = account[u].password /\ row.oauth = account[u].oauth /\ row.ends = account[u].ends /\ row.deletion = account[u].deletion
  BY <1>3, <1>4, <1>1, <1>2 DEF Rows
<1>6. account' = [account EXCEPT ![u] = row]
  BY <1>1, <1>3, <1>4, <1>2 DEF AuthTypeOK, Rows
<1>7. /\ account' \in [User -> Rows] /\ account'[u] = row
      /\ \A o \in User \ {u} : account'[o] = account[o]
  BY <1>1, <1>5, <1>6, RowWritten
<1>8. login' \in [Login -> LoginRun]
  BY LeavesType DEF LoginFails
<1>9. AuthTypeOK'
  BY <1>1, <1>5, <1>7, <1>8 DEF LoginFails, AuthTypeOK, LoginRun, Tokens
<1>10. OnlyOf(u) /\ StaysSound(u)
  BY <1>1, <1>5, <1>7, <1>8 DEF LoginFails, AuthTypeOK, OnlyOf, StaysSound, AccountCanLogIn, UnlinkingChecked, SweptAreDue, Exists
<1> QED
  BY <1>1, <1>9, <1>10, AccountStep

LEMMA UnlinkOAuthKeeps ==
  ASSUME AuthInv, NEW u \in User, UnlinkOAuth(u)
  PROVE  AuthInv' /\ OnlySwept
<1> USE DEF AuthInv
<1>1. account[u] \in Rows
  BY DEF AuthTypeOK
<1>2. PICK row : row = [account[u] EXCEPT !.oauth = FALSE]
  OBVIOUS
<1>3. row \in Rows /\ row.exists = account[u].exists /\ row.password = account[u].password /\ row.ends = account[u].ends /\ row.deletion = account[u].deletion /\ row.oauth = FALSE
  BY <1>1, <1>2 DEF Rows
<1>4. account' = [account EXCEPT ![u] = row]
  BY <1>1, <1>2 DEF UnlinkOAuth, AuthTypeOK, Rows
<1>5. /\ account' \in [User -> Rows] /\ account'[u] = row
      /\ \A o \in User \ {u} : account'[o] = account[o]
  BY <1>3, <1>4, RowWritten
<1>6. /\ ending' \in [User -> 0..MaxEnding] /\ ending'[u] > 0
      /\ \A o \in User \ {u} : ending'[o] = ending[o]
  BY WillEndType DEF UnlinkOAuth
<1>8. account[u].password
  BY DEF UnlinkOAuth, Written, UnlinkingChecked, Handler
<1>9. /\ writing' \in [User -> [Handler -> Nat]]
      /\ writing'[u]["unlink"] > 0 => writing[u]["unlink"] > 0
      /\ \A o \in User \ {u} : writing'[o] = writing[o]
  BY WrittenType DEF UnlinkOAuth, Handler
<1>20. AuthTypeOK'
  BY <1>3, <1>5, <1>6, <1>8, <1>9 DEF UnlinkOAuth, AuthTypeOK, LoginRun, Tokens
<1>21. OnlyOf(u) /\ StaysSound(u)
  BY <1>3, <1>5, <1>6, <1>8, <1>9 DEF UnlinkOAuth, AuthTypeOK, OnlyOf, StaysSound, AccountCanLogIn, UnlinkingChecked, SweptAreDue, Exists
<1> QED
  BY <1>20, <1>21, AccountStep

LEMMA UpdatePasswordKeeps ==
  ASSUME AuthInv, NEW u \in User, UpdatePassword(u)
  PROVE  AuthInv' /\ OnlySwept
<1> USE DEF AuthInv
<1>0. account[u].epoch + 1 \in 0..MaxEpoch
  BY DEF UpdatePassword, NewPassword, AuthTypeOK, Rows
<1>1. account[u] \in Rows
  BY DEF AuthTypeOK
<1>2. PICK row : row = [account[u] EXCEPT !.password = TRUE, !.epoch = @ + 1,
                                          !.ends = account[u].epoch + 1]
  OBVIOUS
<1>3. row \in Rows /\ row.exists = account[u].exists /\ row.oauth = account[u].oauth /\ row.deletion = account[u].deletion /\ row.password = TRUE
  BY <1>1, <1>2, <1>0 DEF Rows
<1>4. account' = [account EXCEPT ![u] = row]
  BY <1>1, <1>2, <1>0 DEF UpdatePassword, AuthTypeOK, Rows, NewPassword
<1>5. /\ account' \in [User -> Rows] /\ account'[u] = row
      /\ \A o \in User \ {u} : account'[o] = account[o]
  BY <1>3, <1>4, RowWritten
<1>6. /\ ending' \in [User -> 0..MaxEnding] /\ ending'[u] > 0
      /\ \A o \in User \ {u} : ending'[o] = ending[o]
  BY WillEndType DEF UpdatePassword
<1>9. /\ writing' \in [User -> [Handler -> Nat]]
      /\ writing'[u]["unlink"] > 0 => writing[u]["unlink"] > 0
      /\ \A o \in User \ {u} : writing'[o] = writing[o]
  BY WrittenType DEF UpdatePassword, Handler
<1>20. AuthTypeOK'
  BY <1>3, <1>5, <1>6, <1>9 DEF UpdatePassword, AuthTypeOK, LoginRun, Tokens
<1>21. OnlyOf(u) /\ StaysSound(u)
  BY <1>3, <1>5, <1>6, <1>9 DEF UpdatePassword, AuthTypeOK, OnlyOf, StaysSound, AccountCanLogIn, UnlinkingChecked, SweptAreDue, Exists
<1> QED
  BY <1>20, <1>21, AccountStep

LEMMA ResetPasswordKeeps ==
  ASSUME AuthInv, NEW u \in User, ResetPassword(u)
  PROVE  AuthInv' /\ OnlySwept
<1> USE DEF AuthInv
<1>0. account[u].epoch + 1 \in 0..MaxEpoch
  BY DEF ResetPassword, NewPassword, AuthTypeOK, Rows
<1>1. account[u] \in Rows
  BY DEF AuthTypeOK
<1>2. PICK row : row = [account[u] EXCEPT !.password = TRUE, !.epoch = @ + 1,
                                          !.ends = account[u].epoch + 1]
  OBVIOUS
<1>3. row \in Rows /\ row.exists = account[u].exists /\ row.oauth = account[u].oauth /\ row.deletion = account[u].deletion /\ row.password = TRUE
  BY <1>1, <1>2, <1>0 DEF Rows
<1>4. account' = [account EXCEPT ![u] = row]
  BY <1>1, <1>2, <1>0 DEF ResetPassword, AuthTypeOK, Rows, NewPassword
<1>5. /\ account' \in [User -> Rows] /\ account'[u] = row
      /\ \A o \in User \ {u} : account'[o] = account[o]
  BY <1>3, <1>4, RowWritten
<1>6. /\ ending' \in [User -> 0..MaxEnding] /\ ending'[u] > 0
      /\ \A o \in User \ {u} : ending'[o] = ending[o]
  BY WillEndType DEF ResetPassword
<1>9. /\ writing' \in [User -> [Handler -> Nat]]
      /\ writing'[u]["unlink"] > 0 => writing[u]["unlink"] > 0
      /\ \A o \in User \ {u} : writing'[o] = writing[o]
  BY WrittenType DEF ResetPassword, Handler
<1>20. AuthTypeOK'
  BY <1>3, <1>5, <1>6, <1>9 DEF ResetPassword, AuthTypeOK, LoginRun, Tokens
<1>21. OnlyOf(u) /\ StaysSound(u)
  BY <1>3, <1>5, <1>6, <1>9 DEF ResetPassword, AuthTypeOK, OnlyOf, StaysSound, AccountCanLogIn, UnlinkingChecked, SweptAreDue, Exists
<1> QED
  BY <1>20, <1>21, AccountStep

LEMMA SetPasswordForOAuthUserKeeps ==
  ASSUME AuthInv, NEW u \in User, SetPasswordForOAuthUser(u)
  PROVE  AuthInv' /\ OnlySwept
<1> USE DEF AuthInv
<1>1. account[u] \in Rows
  BY DEF AuthTypeOK
<1>2. PICK row \in Rows :
        /\ account' = [account EXCEPT ![u] = row]
        /\ row.exists = account[u].exists /\ row.oauth = account[u].oauth
        /\ row.ends = account[u].ends /\ row.deletion = account[u].deletion /\ row.password
  <2>1. CASE account' = [account EXCEPT ![u].password = TRUE]
    <3>1. PICK row : row = [account[u] EXCEPT !.password = TRUE]
      OBVIOUS
    <3>2. /\ row \in Rows
          /\ row.exists = account[u].exists /\ row.oauth = account[u].oauth
          /\ row.ends = account[u].ends /\ row.deletion = account[u].deletion /\ row.password
      BY <1>1, <3>1 DEF Rows
    <3> QED
      BY <2>1, <3>1, <3>2
  <2>2. CASE /\ account[u].password /\ account[u].epoch < MaxEpoch
             /\ account' = [account EXCEPT ![u].epoch = @ + 1]
    <3>1. PICK row : row = [account[u] EXCEPT !.epoch = @ + 1]
      OBVIOUS
    <3>2. account[u].epoch + 1 \in 0..MaxEpoch
      BY <1>1, <2>2 DEF Rows
    <3>3. /\ row \in Rows
          /\ row.exists = account[u].exists /\ row.oauth = account[u].oauth
          /\ row.ends = account[u].ends /\ row.deletion = account[u].deletion /\ row.password
      BY <1>1, <2>2, <3>1, <3>2 DEF Rows
    <3> QED
      BY <2>2, <3>1, <3>3
  <2> QED
    BY <2>1, <2>2 DEF SetPasswordForOAuthUser
<1>5. /\ account' \in [User -> Rows] /\ account'[u] = row
      /\ \A o \in User \ {u} : account'[o] = account[o]
  BY <1>2, RowWritten
<1>9. /\ writing' \in [User -> [Handler -> Nat]]
      /\ writing'[u]["unlink"] > 0 => writing[u]["unlink"] > 0
      /\ \A o \in User \ {u} : writing'[o] = writing[o]
  BY WrittenType DEF SetPasswordForOAuthUser, Handler
<1>20. AuthTypeOK'
  BY <1>2, <1>5, <1>9 DEF SetPasswordForOAuthUser, AuthTypeOK, LoginRun, Tokens
<1>21. OnlyOf(u) /\ StaysSound(u)
  BY <1>2, <1>5, <1>9 DEF SetPasswordForOAuthUser, AuthTypeOK, OnlyOf, StaysSound, AccountCanLogIn, UnlinkingChecked, SweptAreDue, Exists
<1> QED
  BY <1>20, <1>21, AccountStep

LEMMA VerifyEmailKeeps ==
  ASSUME AuthInv, NEW u \in User, VerifyEmail(u)
  PROVE  AuthInv' /\ OnlySwept
<1> USE DEF AuthInv
<1>1. account[u] \in Rows
  BY DEF AuthTypeOK
<1>2. PICK row : row = [account[u] EXCEPT !.verified = TRUE]
  OBVIOUS
<1>3. row \in Rows /\ row.exists = account[u].exists /\ row.password = account[u].password /\ row.oauth = account[u].oauth /\ row.ends = account[u].ends /\ row.deletion = account[u].deletion
  BY <1>1, <1>2 DEF Rows
<1>4. account' = [account EXCEPT ![u] = row]
  BY <1>1, <1>2 DEF VerifyEmail, AuthTypeOK, Rows
<1>5. /\ account' \in [User -> Rows] /\ account'[u] = row
      /\ \A o \in User \ {u} : account'[o] = account[o]
  BY <1>3, <1>4, RowWritten
<1>20. AuthTypeOK'
  BY <1>3, <1>5 DEF VerifyEmail, AuthTypeOK, LoginRun, Tokens
<1>21. OnlyOf(u) /\ StaysSound(u)
  BY <1>3, <1>5 DEF VerifyEmail, AuthTypeOK, OnlyOf, StaysSound, AccountCanLogIn, UnlinkingChecked, SweptAreDue, Exists
<1> QED
  BY <1>20, <1>21, AccountStep

LEMMA VerifyEmailChangeKeeps ==
  ASSUME AuthInv, NEW u \in User, VerifyEmailChange(u)
  PROVE  AuthInv' /\ OnlySwept
<1> USE DEF AuthInv
<1>1. account[u] \in Rows
  BY DEF AuthTypeOK
<1>2. PICK row : row = [account[u] EXCEPT !.verified = TRUE]
  OBVIOUS
<1>3. row \in Rows /\ row.exists = account[u].exists /\ row.password = account[u].password /\ row.oauth = account[u].oauth /\ row.ends = account[u].ends /\ row.deletion = account[u].deletion
  BY <1>1, <1>2 DEF Rows
<1>4. account' = [account EXCEPT ![u] = row]
  BY <1>1, <1>2 DEF VerifyEmailChange, AuthTypeOK, Rows
<1>5. /\ account' \in [User -> Rows] /\ account'[u] = row
      /\ \A o \in User \ {u} : account'[o] = account[o]
  BY <1>3, <1>4, RowWritten
<1>6. /\ ending' \in [User -> 0..MaxEnding] /\ ending'[u] > 0
      /\ \A o \in User \ {u} : ending'[o] = ending[o]
  BY WillEndType DEF VerifyEmailChange
<1>20. AuthTypeOK'
  BY <1>3, <1>5, <1>6 DEF VerifyEmailChange, AuthTypeOK, LoginRun, Tokens
<1>21. OnlyOf(u) /\ StaysSound(u)
  BY <1>3, <1>5, <1>6 DEF VerifyEmailChange, AuthTypeOK, OnlyOf, StaysSound, AccountCanLogIn, UnlinkingChecked, SweptAreDue, Exists
<1> QED
  BY <1>20, <1>21, AccountStep

LEMMA InitiateAccountDeletionKeeps ==
  ASSUME AuthInv, NEW u \in User, InitiateAccountDeletion(u)
  PROVE  AuthInv' /\ OnlySwept
<1> USE DEF AuthInv
<1>1. account[u] \in Rows
  BY DEF AuthTypeOK
<1>2. PICK row : row = [account[u] EXCEPT !.deletion = "grace"]
  OBVIOUS
<1>3. row \in Rows /\ row.exists = account[u].exists /\ row.password = account[u].password /\ row.oauth = account[u].oauth /\ row.ends = account[u].ends /\ row.deletion = "grace"
  BY <1>1, <1>2 DEF Rows
<1>4. account' = [account EXCEPT ![u] = row]
  BY <1>1, <1>2 DEF InitiateAccountDeletion, AuthTypeOK, Rows
<1>5. /\ account' \in [User -> Rows] /\ account'[u] = row
      /\ \A o \in User \ {u} : account'[o] = account[o]
  BY <1>3, <1>4, RowWritten
<1>6. /\ ending' \in [User -> 0..MaxEnding] /\ ending'[u] > 0
      /\ \A o \in User \ {u} : ending'[o] = ending[o]
  BY WillEndType DEF InitiateAccountDeletion
<1>7. /\ moved' \in [User -> BOOLEAN] /\ (u \in sweep => moved'[u])
      /\ \A o \in User \ {u} : moved'[o] = moved[o]
  BY ReschedulesType DEF InitiateAccountDeletion
<1>20. AuthTypeOK'
  BY <1>3, <1>5, <1>6, <1>7 DEF InitiateAccountDeletion, AuthTypeOK, LoginRun, Tokens
<1>21. OnlyOf(u) /\ StaysSound(u)
  BY <1>3, <1>5, <1>6, <1>7 DEF InitiateAccountDeletion, AuthTypeOK, OnlyOf, StaysSound, AccountCanLogIn, UnlinkingChecked, SweptAreDue, Exists
<1> QED
  BY <1>20, <1>21, AccountStep

LEMMA CancelAccountDeletionKeeps ==
  ASSUME AuthInv, NEW u \in User, CancelAccountDeletion(u)
  PROVE  AuthInv' /\ OnlySwept
<1> USE DEF AuthInv
<1>1. account[u] \in Rows
  BY DEF AuthTypeOK
<1>2. PICK row : row = [account[u] EXCEPT !.deletion = "no"]
  OBVIOUS
<1>3. row \in Rows /\ row.exists = account[u].exists /\ row.password = account[u].password /\ row.oauth = account[u].oauth /\ row.ends = account[u].ends /\ row.deletion = "no"
  BY <1>1, <1>2 DEF Rows
<1>4. account' = [account EXCEPT ![u] = row]
  BY <1>1, <1>2 DEF CancelAccountDeletion, AuthTypeOK, Rows
<1>5. /\ account' \in [User -> Rows] /\ account'[u] = row
      /\ \A o \in User \ {u} : account'[o] = account[o]
  BY <1>3, <1>4, RowWritten
<1>7. /\ moved' \in [User -> BOOLEAN] /\ (u \in sweep => moved'[u])
      /\ \A o \in User \ {u} : moved'[o] = moved[o]
  BY ReschedulesType DEF CancelAccountDeletion
<1>20. AuthTypeOK'
  BY <1>3, <1>5, <1>7 DEF CancelAccountDeletion, AuthTypeOK, LoginRun, Tokens
<1>21. OnlyOf(u) /\ StaysSound(u)
  BY <1>3, <1>5, <1>7 DEF CancelAccountDeletion, AuthTypeOK, OnlyOf, StaysSound, AccountCanLogIn, UnlinkingChecked, SweptAreDue, Exists
<1> QED
  BY <1>20, <1>21, AccountStep

LEMMA GraceEndsKeeps ==
  ASSUME AuthInv, NEW u \in User, GraceEnds(u)
  PROVE  AuthInv' /\ OnlySwept
<1> USE DEF AuthInv
<1>1. account[u] \in Rows
  BY DEF AuthTypeOK
<1>2. PICK row : row = [account[u] EXCEPT !.deletion = "due"]
  OBVIOUS
<1>3. row \in Rows /\ row.exists = account[u].exists /\ row.password = account[u].password /\ row.oauth = account[u].oauth /\ row.ends = account[u].ends /\ row.deletion = "due"
  BY <1>1, <1>2 DEF Rows
<1>4. account' = [account EXCEPT ![u] = row]
  BY <1>1, <1>2 DEF GraceEnds, AuthTypeOK, Rows
<1>5. /\ account' \in [User -> Rows] /\ account'[u] = row
      /\ \A o \in User \ {u} : account'[o] = account[o]
  BY <1>3, <1>4, RowWritten
<1>20. AuthTypeOK'
  BY <1>3, <1>5 DEF GraceEnds, AuthTypeOK, LoginRun, Tokens
<1>21. OnlyOf(u) /\ StaysSound(u)
  BY <1>3, <1>5 DEF GraceEnds, AuthTypeOK, OnlyOf, StaysSound, AccountCanLogIn, UnlinkingChecked, SweptAreDue, Exists
<1> QED
  BY <1>20, <1>21, AccountStep

LEMMA LockExpiresKeeps ==
  ASSUME AuthInv, NEW u \in User, LockExpires(u)
  PROVE  AuthInv' /\ OnlySwept
<1> USE DEF AuthInv
<1>1. account[u] \in Rows
  BY DEF AuthTypeOK
<1>2. PICK row : row = [account[u] EXCEPT !.locked = FALSE]
  OBVIOUS
<1>3. row \in Rows /\ row.exists = account[u].exists /\ row.password = account[u].password /\ row.oauth = account[u].oauth /\ row.ends = account[u].ends /\ row.deletion = account[u].deletion
  BY <1>1, <1>2 DEF Rows
<1>4. account' = [account EXCEPT ![u] = row]
  BY <1>1, <1>2 DEF LockExpires, AuthTypeOK, Rows
<1>5. /\ account' \in [User -> Rows] /\ account'[u] = row
      /\ \A o \in User \ {u} : account'[o] = account[o]
  BY <1>3, <1>4, RowWritten
<1>20. AuthTypeOK'
  BY <1>3, <1>5 DEF LockExpires, AuthTypeOK, LoginRun, Tokens
<1>21. OnlyOf(u) /\ StaysSound(u)
  BY <1>3, <1>5 DEF LockExpires, AuthTypeOK, OnlyOf, StaysSound, AccountCanLogIn, UnlinkingChecked, SweptAreDue, Exists
<1> QED
  BY <1>20, <1>21, AccountStep

LEMMA SignupKeeps ==
  ASSUME AuthInv, NEW l \in Login, NEW u \in User, Signup(l, u)
  PROVE  AuthInv' /\ OnlySwept
<1> USE DEF AuthInv
<1>1. account[u] \in Rows
  BY DEF AuthTypeOK
<1>2. PICK row : row = [NoAccount EXCEPT !.exists = TRUE, !.password = TRUE]
  OBVIOUS
<1>3. row \in Rows /\ row.exists = TRUE /\ row.password = TRUE /\ row.ends = account[u].ends
  BY <1>1, <1>2 DEF Rows, NoAccount, Signup, Unused
<1>4. account' = [account EXCEPT ![u] = row]
  BY <1>1, <1>2 DEF Signup, AuthTypeOK, Rows
<1>5. /\ account' \in [User -> Rows] /\ account'[u] = row
      /\ \A o \in User \ {u} : account'[o] = account[o]
  BY <1>3, <1>4, RowWritten
<1>6. account[u].ends = 0 /\ ~account[u].exists /\ ~account[u].password
  BY NoAccountType DEF Signup, Unused
<1>7. login' \in [Login -> LoginRun]
  <2>1. row.epoch \in 0..MaxEpoch
    BY <1>3 DEF Rows
  <2> QED
    BY <1>5, <2>1, WillOpenType DEF Signup, AuthTypeOK, LoginRun
<1>8. token' \in [User -> SUBSET Tokens]
  BY DEF Signup, AuthTypeOK, Tokens
<1>20. AuthTypeOK'
  BY <1>5, <1>7, <1>8 DEF Signup, AuthTypeOK, LoginRun
<1>21. OnlyOf(u) /\ StaysSound(u)
  BY <1>3, <1>5, <1>6, <1>7 DEF Signup, AuthTypeOK, OnlyOf, StaysSound, AccountCanLogIn, UnlinkingChecked, SweptAreDue, Exists
<1> QED
  BY <1>20, <1>21, AccountStep

LEMMA OAuthCreateKeeps ==
  ASSUME AuthInv, NEW l \in Login, NEW u \in User, OAuthCreate(l, u)
  PROVE  AuthInv' /\ OnlySwept
<1> USE DEF AuthInv
<1>1. account[u] \in Rows
  BY DEF AuthTypeOK
<1>2. PICK row : row = [NoAccount EXCEPT !.exists = TRUE, !.oauth = TRUE, !.verified = TRUE]
  OBVIOUS
<1>3. row \in Rows /\ row.exists = TRUE /\ row.oauth = TRUE /\ row.ends = account[u].ends
  BY <1>1, <1>2 DEF Rows, NoAccount, OAuthCreate, Unused
<1>4. account' = [account EXCEPT ![u] = row]
  BY <1>1, <1>2 DEF OAuthCreate, AuthTypeOK, Rows
<1>5. /\ account' \in [User -> Rows] /\ account'[u] = row
      /\ \A o \in User \ {u} : account'[o] = account[o]
  BY <1>3, <1>4, RowWritten
<1>6. account[u].ends = 0 /\ ~account[u].exists /\ ~account[u].password
  BY NoAccountType DEF OAuthCreate, Unused
<1>7. login' \in [Login -> LoginRun]
  <2>1. row.epoch \in 0..MaxEpoch
    BY <1>3 DEF Rows
  <2> QED
    BY <1>5, <2>1, WillOpenType DEF OAuthCreate
<1>20. AuthTypeOK'
  BY <1>3, <1>5, <1>6, <1>7 DEF OAuthCreate, AuthTypeOK, LoginRun, Tokens
<1>21. OnlyOf(u) /\ StaysSound(u)
  BY <1>3, <1>5, <1>6, <1>7 DEF OAuthCreate, AuthTypeOK, OnlyOf, StaysSound, AccountCanLogIn, UnlinkingChecked, SweptAreDue, Exists
<1> QED
  BY <1>20, <1>21, AccountStep

LEMMA OAuthLinkKeeps ==
  ASSUME AuthInv, NEW l \in Login, NEW u \in User, OAuthLink(l, u)
  PROVE  AuthInv' /\ OnlySwept
<1> USE DEF AuthInv
<1>1. account[u] \in Rows
  BY DEF AuthTypeOK
<1>2. PICK row \in Rows :
        /\ account' = [account EXCEPT ![u] = row]
        /\ row.exists = account[u].exists /\ row.password = account[u].password /\ row.oauth
        /\ row.ends = account[u].ends /\ row.deletion = account[u].deletion
  <2>1. CASE account' = [account EXCEPT ![u].oauth = TRUE]
    <3>1. PICK row : row = [account[u] EXCEPT !.oauth = TRUE]
      OBVIOUS
    <3>2. /\ row \in Rows
          /\ row.exists = account[u].exists /\ row.password = account[u].password /\ row.oauth
          /\ row.ends = account[u].ends /\ row.deletion = account[u].deletion
      BY <1>1, <3>1 DEF Rows
    <3> QED
      BY <2>1, <3>1, <3>2
  <2>2. CASE account' = [account EXCEPT ![u].oauth = TRUE, ![u].verified = TRUE]
    <3>1. PICK row : row = [account[u] EXCEPT !.oauth = TRUE, !.verified = TRUE]
      OBVIOUS
    <3>2. /\ row \in Rows
          /\ row.exists = account[u].exists /\ row.password = account[u].password /\ row.oauth
          /\ row.ends = account[u].ends /\ row.deletion = account[u].deletion
      BY <1>1, <3>1 DEF Rows
    <3>3. account' = [account EXCEPT ![u] = row]
      BY <1>1, <2>2, <3>1 DEF AuthTypeOK, Rows
    <3> QED
      BY <3>2, <3>3
  <2> QED
    BY <2>1, <2>2 DEF OAuthLink
<1>5. /\ account' \in [User -> Rows] /\ account'[u] = row
      /\ \A o \in User \ {u} : account'[o] = account[o]
  BY <1>2, RowWritten
<1>6. login' \in [Login -> LoginRun]
  <2>1. row.epoch \in 0..MaxEpoch
    BY <1>2 DEF Rows
  <2> QED
    BY <1>5, <2>1, WillOpenType DEF OAuthLink
<1>20. AuthTypeOK'
  BY <1>2, <1>5, <1>6 DEF OAuthLink, AuthTypeOK, LoginRun, Tokens
<1>21. OnlyOf(u) /\ StaysSound(u)
  BY <1>2, <1>5, <1>6 DEF OAuthLink, AuthTypeOK, OnlyOf, StaysSound, AccountCanLogIn, UnlinkingChecked, SweptAreDue, Exists
<1> QED
  BY <1>20, <1>21, AccountStep

LEMMA AcceptLoginKeeps ==
  ASSUME AuthInv, NEW l \in Login, AcceptLogin(l)
  PROVE  AuthInv' /\ OnlySwept
<1> USE DEF AuthInv
<1> DEFINE u == login[l].of
           back == login[l].row.deletion # "no"
<1>0. u \in User /\ login[l].row \in Snapshots
  BY DEF AuthTypeOK
<1>1. account[u] \in Rows
  BY <1>0 DEF AuthTypeOK
<1>2. PICK attempts, deletion :
        /\ attempts \in 0..Lockout /\ deletion \in {"no", "grace", "due"}
        /\ deletion = account[u].deletion \/ (back /\ deletion = "no")
        /\ account' = [account EXCEPT ![u].attempts = attempts, ![u].locked = FALSE,
                                      ![u].deletion = deletion]
  <2>1. account[u].attempts \in 0..Lockout /\ account[u].deletion \in {"no", "grace", "due"}
    BY <1>1 DEF Rows
  <2>2. 0 \in 0..Lockout
    OBVIOUS
  <2>3. CASE Exists(u)
    <3>1. CASE back
      BY <2>2, <2>3, <3>1 DEF AcceptLogin
    <3>2. CASE ~back
      BY <2>1, <2>2, <2>3, <3>2 DEF AcceptLogin
    <3> QED
      BY <3>1, <3>2
  <2>4. CASE ~Exists(u)
    BY <2>1, <2>4 DEF AcceptLogin
  <2> QED
    BY <2>3, <2>4
<1>3. PICK row : row = [account[u] EXCEPT !.attempts = attempts, !.locked = FALSE, !.deletion = deletion]
  OBVIOUS
<1>4. row \in Rows /\ row.exists = account[u].exists /\ row.password = account[u].password /\ row.oauth = account[u].oauth /\ row.ends = account[u].ends /\ row.deletion = deletion
  BY <1>1, <1>2, <1>3 DEF Rows
<1>5. /\ account' \in [User -> Rows] /\ account'[u] = row
      /\ \A o \in User \ {u} : account'[o] = account[o]
  <2>1. account' = [account EXCEPT ![u] = row]
    BY <1>0, <1>1, <1>2, <1>3 DEF AuthTypeOK, Rows
  <2> QED
    BY <1>0, <1>4, <2>1, RowWritten
<1>6. login' \in [Login -> LoginRun]
  <2>1. login[l].row.epoch \in 0..MaxEpoch
    BY <1>0 DEF Snapshots
  <2> QED
    BY <1>0, <2>1, WillOpenType DEF AcceptLogin
<1>7. /\ moved' \in [User -> BOOLEAN]
      /\ u \in sweep => moved'[u] \/ (deletion = account[u].deletion /\ moved'[u] = moved[u])
      /\ \A o \in User \ {u} : moved'[o] = moved[o]
  <2>1. CASE back
    BY <1>0, <2>1, ReschedulesType DEF AcceptLogin
  <2>2. CASE ~back
    BY <1>2, <2>2 DEF AcceptLogin, AuthTypeOK
  <2> QED
    BY <2>1, <2>2
<1> HIDE DEF u
<1>20. AuthTypeOK'
  BY <1>5, <1>6, <1>7 DEF AcceptLogin, AuthTypeOK, LoginRun
<1>21. OnlyOf(u)
  BY <1>0, <1>5, <1>7 DEF AcceptLogin, OnlyOf
<1>22. StaysSound(u)
  BY <1>0, <1>4, <1>5, <1>7 DEF AcceptLogin, StaysSound, AccountCanLogIn, UnlinkingChecked, SweptAreDue, Exists, AuthTypeOK
<1> QED
  BY <1>0, <1>20, <1>21, <1>22, AccountStep

-----------------------------------------------------------------------------
(* Steps that leave the accounts as they are. *)

LEMMA LoginStepsKeep ==
  ASSUME AuthInv, NEW l \in Login, NEW u \in User,
         \/ BeginLogin(l, u) \/ OAuthLogin(l, u) \/ CheckLogin(l) \/ LoginDies(l)
  PROVE  AuthInv' /\ OnlySwept
<1> USE DEF AuthInv
<1>1. /\ login' \in [Login -> LoginRun]
      /\ UNCHANGED <<account, session, writing, ending, cut, token, sweep, moved>>
  <2>1. CASE BeginLogin(l, u)
    <3>1. PICK right \in BOOLEAN : login' = [login EXCEPT ![l] =
            [at |-> "read", of |-> u, right |-> right,
             row |-> IF right THEN [Read(account[u]) EXCEPT !.attempts = 0]
                     ELSE [Read(NoAccount) EXCEPT !.attempts = account[u].attempts]]]
      BY <2>1 DEF BeginLogin
    <3>2. account[u] \in Rows /\ account[u].attempts \in 0..Lockout
      BY DEF AuthTypeOK, Rows
    <3>3. PICK read \in Snapshots :
            read = IF right THEN [Read(account[u]) EXCEPT !.attempts = 0]
                   ELSE [Read(NoAccount) EXCEPT !.attempts = account[u].attempts]
      <4>1. [Read(account[u]) EXCEPT !.attempts = 0] \in Snapshots
        BY <3>2, SnapshotType
      <4>2. [Read(NoAccount) EXCEPT !.attempts = account[u].attempts] \in Snapshots
        BY <3>2, NoAccountType, SnapshotType
      <4> QED
        BY <4>1, <4>2
    <3>4. PICK run : run = [at |-> "read", of |-> u, right |-> right, row |-> read]
      OBVIOUS
    <3>5. run \in LoginRun
      BY <3>4 DEF LoginRun
    <3> QED
      BY <2>1, <3>1, <3>3, <3>4, <3>5 DEF BeginLogin, AuthTypeOK, LoginRun
  <2>2. CASE OAuthLogin(l, u)
    <3>1. account[u].epoch \in 0..MaxEpoch
      BY DEF AuthTypeOK, Rows
    <3> QED
      BY <2>2, <3>1, WillOpenType DEF OAuthLogin
  <2>3. CASE CheckLogin(l)
    <3>1. CASE Leaves(l)
      BY <2>3, <3>1, LeavesType DEF CheckLogin
    <3>2. CASE login' = [login EXCEPT ![l].at = "write"]
      BY <2>3, <3>2 DEF CheckLogin, AuthTypeOK, LoginRun
    <3> QED
      BY <2>3, <3>1, <3>2 DEF CheckLogin
  <2>4. CASE LoginDies(l)
    BY <2>4, LeavesType DEF LoginDies
  <2> QED
    BY <2>1, <2>2, <2>3, <2>4
<1> QED
  BY <1>1 DEF AuthTypeOK, LoginRun, AccountCanLogIn, OldSessionsEnd, UnlinkingChecked, SweptAreDue, Exists, OnlySwept

LEMMA OpenSessionKeeps ==
  ASSUME AuthInv, NEW l \in Login, OpenSession(l)
  PROVE  AuthInv' /\ OnlySwept
<1> USE DEF AuthInv
<1>0. PICK late \in BOOLEAN : late = (login[l].row.epoch \notin account[login[l].of].ends..MaxEpoch)
  OBVIOUS
<1> DEFINE u == login[l].of
           new == [of |-> u, born |-> login[l].row.epoch, late |-> late]
<1>1. u \in User /\ login[l].row.epoch \in 0..MaxEpoch /\ account[u].ends \in 0..MaxEpoch
  BY DEF AuthTypeOK, Snapshots, Rows
<1>2. /\ new \in [of : User, born : 0..MaxEpoch, late : BOOLEAN]
      /\ new.born >= account[new.of].ends \/ new.late
  <2>0. late \/ login[l].row.epoch \in account[u].ends..MaxEpoch
    BY ONLY <1>0 DEF u
  <2>1. login[l].row.epoch >= account[u].ends \/ late
    BY <1>1, <2>0
  <2> QED
    BY <1>1, <2>1
<1>3. session' \subseteq session \cup {new}
  BY <1>0 DEF OpenSession
<1>4. login' \in [Login -> LoginRun] /\ UNCHANGED <<account, writing, ending, cut, token, sweep, moved>>
  BY LeavesType DEF OpenSession
<1> HIDE DEF new
<1>5. AuthTypeOK'
  BY <1>2, <1>3, <1>4 DEF AuthTypeOK, LoginRun
<1>6. OldSessionsEnd'
  BY <1>2, <1>3, <1>4 DEF OldSessionsEnd
<1> QED
  BY <1>4, <1>5, <1>6 DEF AccountCanLogIn, UnlinkingChecked, SweptAreDue, Exists, OnlySwept

LEMMA MailStepsKeep ==
  ASSUME AuthInv, NEW u \in User,
         \/ RequestPasswordReset(u) \/ ResendVerificationEmail(u) \/ InitiateEmailChange(u)
         \/ TokenExpires(u)
  PROVE  AuthInv' /\ OnlySwept
<1>1. /\ token' \in [User -> SUBSET Tokens]
      /\ UNCHANGED <<account, session, login, writing, ending, cut, sweep, moved>>
  BY DEF AuthInv, AuthTypeOK, Tokens, RequestPasswordReset, ResendVerificationEmail,
         InitiateEmailChange, TokenExpires
<1> QED
  BY <1>1 DEF AuthInv, AuthTypeOK, AccountCanLogIn, OldSessionsEnd, UnlinkingChecked, SweptAreDue, Exists, OnlySwept

LEMMA HandlerStepsKeep ==
  ASSUME AuthInv, NEW u \in User, NEW h \in Handler, BeginHandler(u, h) \/ HandlerFails(u, h)
  PROVE  AuthInv' /\ OnlySwept
<1> USE DEF AuthInv
<1>1. UNCHANGED <<account, session, login, ending, cut, token, sweep, moved>>
  BY DEF BeginHandler, HandlerFails
<1>2. /\ writing' \in [User -> [Handler -> Nat]]
      /\ \A o \in User : writing'[o]["unlink"] > 0 => account[o].password
  <2>1. CASE BeginHandler(u, h)
    <3>1. PICK n \in Nat : n = writing[u][h] + 1
      BY DEF AuthTypeOK
    <3>2. writing' = [writing EXCEPT ![u] = [writing[u] EXCEPT ![h] = n]]
      BY <2>1, <3>1 DEF BeginHandler, AuthTypeOK
    <3>3. h = "unlink" => account[u].password
      BY <2>1 DEF BeginHandler, Admitted, MayUnlink
    <3> QED
      BY <3>1, <3>2, <3>3 DEF AuthTypeOK, UnlinkingChecked, Handler
  <2>2. CASE HandlerFails(u, h)
    BY <2>2, WrittenType DEF HandlerFails, UnlinkingChecked, Handler
  <2> QED
    BY <2>1, <2>2
<1> QED
  BY <1>1, <1>2 DEF AuthTypeOK, AccountCanLogIn, OldSessionsEnd, UnlinkingChecked, SweptAreDue, Exists, OnlySwept

LEMMA SessionsDeletedKeeps ==
  ASSUME AuthInv, NEW u \in User, DeleteAllUserSessions(u)
  PROVE  AuthInv' /\ OnlySwept
<1> USE DEF AuthInv
<1>1. /\ ending' \in [User -> 0..MaxEnding]
      /\ \A o \in User \ {u} : ending'[o] = ending[o]
  BY DEF DeleteAllUserSessions, AuthTypeOK
<1>2. \A s \in session' : s \in session /\ s.of # u
  BY DEF DeleteAllUserSessions, Others
<1>3. AuthTypeOK'
  BY <1>1, <1>2 DEF DeleteAllUserSessions, AuthTypeOK
<1>4. OldSessionsEnd'
  BY <1>1, <1>2 DEF DeleteAllUserSessions, OldSessionsEnd, AuthTypeOK
<1> QED
  BY <1>3, <1>4 DEF DeleteAllUserSessions, AccountCanLogIn, UnlinkingChecked, SweptAreDue, Exists, OnlySwept

LEMMA HandlerDiesKeeps ==
  ASSUME AuthInv, NEW u \in User, HandlerDies(u)
  PROVE  AuthInv' /\ OnlySwept
<1> USE DEF AuthInv
<1>1. /\ ending' \in [User -> 0..MaxEnding] /\ cut' \in [User -> BOOLEAN] /\ cut'[u]
      /\ \A o \in User \ {u} : ending'[o] = ending[o] /\ cut'[o] = cut[o]
  BY DEF HandlerDies, AuthTypeOK
<1>2. AuthTypeOK'
  BY <1>1 DEF HandlerDies, AuthTypeOK
<1>3. OldSessionsEnd'
  BY <1>1 DEF HandlerDies, OldSessionsEnd, AuthTypeOK
<1> QED
  BY <1>2, <1>3 DEF HandlerDies, AccountCanLogIn, UnlinkingChecked, SweptAreDue, Exists, OnlySwept

-----------------------------------------------------------------------------
(* The cleanup. *)

LEMMA CleanupListsKeeps ==
  ASSUME AuthInv, CleanupLists
  PROVE  AuthInv' /\ OnlySwept
<1>1. sweep' \subseteq User /\ \A u \in sweep' : Exists(u) /\ account[u].deletion = "due"
  BY DEF CleanupLists, PastDeletion
<1> QED
  BY <1>1 DEF CleanupLists, AuthInv, AuthTypeOK, AccountCanLogIn, OldSessionsEnd, UnlinkingChecked, SweptAreDue, Exists, OnlySwept

LEMMA PermanentlyDeleteUserKeeps ==
  ASSUME AuthInv, NEW u \in User, PermanentlyDeleteUser(u)
  PROVE  AuthInv' /\ OnlySwept
<1> USE DEF AuthInv
<1>1. PICK row \in Rows : row = Gone /\ ~row.exists
  <2>1. Gone \in Rows /\ ~Gone.exists
    BY NoAccountType DEF Gone, Rows
  <2> QED
    BY <2>1
<1>2. account' = [account EXCEPT ![u] = row]
  BY <1>1 DEF PermanentlyDeleteUser
<1>3. /\ account' \in [User -> Rows] /\ account'[u] = row
      /\ \A o \in User \ {u} : account'[o] = account[o]
  BY <1>2, RowWritten
<1>4. \A s \in session' : s \in session /\ s.of # u
  BY DEF PermanentlyDeleteUser, Others
<1>5. /\ ending' \in [User -> 0..MaxEnding] /\ cut' \in [User -> BOOLEAN]
      /\ token' \in [User -> SUBSET Tokens]
      /\ \A o \in User \ {u} : ending'[o] = ending[o] /\ cut'[o] = cut[o]
  BY DEF PermanentlyDeleteUser, AuthTypeOK
<1>50. /\ writing' \in [User -> [Handler -> Nat]]
       /\ ~(writing'[u]["unlink"] > 0)
       /\ \A o \in User \ {u} : writing'[o] = writing[o]
  <2>1. PICK none \in [Handler -> Nat] : none = [h \in Handler |-> 0]
    OBVIOUS
  <2>2. ~(none["unlink"] > 0)
    BY <2>1 DEF Handler
  <2>3. writing' = [writing EXCEPT ![u] = none]
    BY <2>1 DEF PermanentlyDeleteUser
  <2> QED
    BY <2>2, <2>3 DEF AuthTypeOK
<1>6. AuthTypeOK'
  BY <1>3, <1>4, <1>5, <1>50 DEF PermanentlyDeleteUser, AuthTypeOK
<1>7. OldSessionsEnd'
  BY <1>3, <1>4, <1>5 DEF OldSessionsEnd, AuthTypeOK
<1>8. AccountCanLogIn'
  BY <1>1, <1>3 DEF AccountCanLogIn, Exists
<1>9. SweptAreDue'
  BY <1>3 DEF PermanentlyDeleteUser, SweptAreDue, Exists, AuthTypeOK
<1>10. OnlySwept
  BY <1>3 DEF PermanentlyDeleteUser, OnlySwept, Exists
<1>11. UnlinkingChecked'
  BY <1>3, <1>50 DEF UnlinkingChecked
<1> QED
  BY <1>6, <1>7, <1>8, <1>9, <1>10, <1>11

-----------------------------------------------------------------------------
(* The theorems. *)

LEMMA AuthNextKeeps == AuthInv /\ [AuthNext]_authVars => AuthInv' /\ OnlySwept
<1> SUFFICES ASSUME AuthInv, [AuthNext]_authVars PROVE AuthInv' /\ OnlySwept
  OBVIOUS
<1>1. CASE UNCHANGED authVars
  BY <1>1 DEF authVars, AuthInv, AuthTypeOK, AccountCanLogIn, OldSessionsEnd, UnlinkingChecked, SweptAreDue, Exists, OnlySwept
<1>2. ASSUME NEW l \in Login, NEW u \in User,
             \/ Signup(l, u) \/ BeginLogin(l, u) \/ OAuthCreate(l, u) \/ OAuthLogin(l, u)
             \/ OAuthLink(l, u)
      PROVE  AuthInv' /\ OnlySwept
  BY <1>2, SignupKeeps, OAuthCreateKeeps, OAuthLinkKeeps, LoginStepsKeep
<1>3. ASSUME NEW l \in Login,
             LoginFails(l) \/ CheckLogin(l) \/ AcceptLogin(l) \/ OpenSession(l) \/ LoginDies(l)
      PROVE  AuthInv' /\ OnlySwept
  <2>1. login[l].of \in User
    BY DEF AuthInv, AuthTypeOK
  <2> QED
    BY <1>3, <2>1, LoginFailsKeeps, LoginStepsKeep, AcceptLoginKeeps, OpenSessionKeeps
<1>4. ASSUME NEW u \in User,
             \/ UnlinkOAuth(u) \/ UpdatePassword(u) \/ SetPasswordForOAuthUser(u)
             \/ ResetPassword(u) \/ VerifyEmail(u) \/ VerifyEmailChange(u)
      PROVE  AuthInv' /\ OnlySwept
  BY <1>4, UnlinkOAuthKeeps, UpdatePasswordKeeps, SetPasswordForOAuthUserKeeps, ResetPasswordKeeps,
     VerifyEmailKeeps, VerifyEmailChangeKeeps
<1>5. ASSUME NEW u \in User,
             \/ RequestPasswordReset(u) \/ DeleteAllUserSessions(u) \/ HandlerDies(u)
             \/ ResendVerificationEmail(u) \/ InitiateEmailChange(u) \/ TokenExpires(u)
      PROVE  AuthInv' /\ OnlySwept
  BY <1>5, MailStepsKeep, SessionsDeletedKeeps, HandlerDiesKeeps
<1>6. ASSUME NEW u \in User,
             \/ InitiateAccountDeletion(u) \/ CancelAccountDeletion(u) \/ PermanentlyDeleteUser(u)
             \/ GraceEnds(u) \/ LockExpires(u)
      PROVE  AuthInv' /\ OnlySwept
  BY <1>6, InitiateAccountDeletionKeeps, CancelAccountDeletionKeeps, PermanentlyDeleteUserKeeps,
     GraceEndsKeeps, LockExpiresKeeps
<1>60. ASSUME NEW u \in User, NEW h \in Handler, BeginHandler(u, h) \/ HandlerFails(u, h)
       PROVE  AuthInv' /\ OnlySwept
  BY <1>60, HandlerStepsKeep
<1>7. CASE CleanupLists
  BY <1>7, CleanupListsKeeps
<1>8. CASE SessionEnds
  BY <1>8 DEF SessionEnds, AuthInv, AuthTypeOK, AccountCanLogIn, OldSessionsEnd, UnlinkingChecked, SweptAreDue, Exists, OnlySwept
<1> QED
  BY <1>1, <1>2, <1>3, <1>4, <1>5, <1>6, <1>60, <1>7, <1>8 DEF AuthNext

LEMMA AuthInvariant == AuthSpec => []AuthInv
<1>1. AuthInit => AuthInv
  <2> SUFFICES ASSUME AuthInit PROVE AuthInv
    OBVIOUS
  <2>1. login \in [Login -> LoginRun]
    BY IdleType DEF AuthInit
  <2>2. PICK none \in [Handler -> Nat] : none = [h \in Handler |-> 0]
    OBVIOUS
  <2>3. ~(none["unlink"] > 0) /\ writing = [u \in User |-> none]
    BY <2>2 DEF Handler, AuthInit
  <2>4. writing \in [User -> [Handler -> Nat]] /\ UnlinkingChecked
    BY <2>3 DEF UnlinkingChecked
  <2> QED
    BY <2>1, <2>4, NoAccountType
       DEF AuthInit, AuthInv, AuthTypeOK, LoginRun, AccountCanLogIn, OldSessionsEnd, SweptAreDue, Exists
<1> QED
  BY <1>1, AuthNextKeeps, PTL DEF AuthSpec

\* Accounts, sessions, logins, tokens and the cleanup's list are of their types.
THEOREM AuthTypeCorrect == AuthSpec => []AuthTypeOK
<1>1. AuthInv => AuthTypeOK
  BY DEF AuthInv
<1> QED
  BY <1>1, AuthInvariant, PTL

\* For any number of users, of logins under way and of passwords: an account always
\* has a password or Google to sign in with.
THEOREM NobodyIsLockedOut == AuthSpec => []AccountCanLogIn
<1>1. AuthInv => AccountCanLogIn
  BY DEF AuthInv
<1> QED
  BY <1>1, AuthInvariant, PTL

\* However many handlers overlap: a session opened before updatePassword or
\* resetPassword replaced the password is gone once the handlers under way are done,
\* but for the two ways the property names. (It does not speak of a password that
\* setPasswordForOAuthUser replaces.)
THEOREM SessionsEndWithThePassword == AuthSpec => []OldSessionsEnd
<1>1. AuthInv => OldSessionsEnd
  BY DEF AuthInv
<1> QED
  BY <1>1, AuthInvariant, PTL

\* What the cleanup deletes was due when it listed it, and still is unless its owner
\* has moved the schedule since.
THEOREM OnlyTheDueAreDeleted == AuthSpec => DeletedWhenDue
<1> DEFINE OnlyDue == \A u \in User : Exists(u) /\ ~account'[u].exists =>
                                     account[u].deletion = "due" \/ moved[u]
<1>1. AuthInv /\ [AuthNext]_authVars => [OnlyDue]_authVars
  <2> SUFFICES ASSUME AuthInv, AuthNext, NEW u \in User, Exists(u), ~account'[u].exists
               PROVE  account[u].deletion = "due" \/ moved[u]
    OBVIOUS
  <2>1. u \in sweep
    BY AuthNextKeeps DEF OnlySwept
  <2> QED
    BY <2>1 DEF AuthInv, SweptAreDue
<1> QED
  BY <1>1, AuthInvariant, PTL DEF AuthSpec, DeletedWhenDue

-----------------------------------------------------------------------------
(* Documents: what the versions are. *)

LEMMA VersionsAre ==
  /\ \A v \in Versions : v \in Seq(Text) /\ Len(v) \in 0..MaxVersions
  /\ \A v \in Seq(Text) : Len(v) <= MaxVersions => v \in Versions
<1>1. ASSUME NEW v \in Versions PROVE v \in Seq(Text) /\ Len(v) \in 0..MaxVersions
  <2>1. PICK n \in 0..MaxVersions : v \in [1..n -> Text]
    BY DEF Versions, BoundedSeq, SeqOf
  <2> QED
    BY <2>1, DocumentsAssumption
<1>2. ASSUME NEW v \in Seq(Text), Len(v) <= MaxVersions PROVE v \in Versions
  <2>1. Len(v) \in 0..MaxVersions /\ v \in [1..Len(v) -> Text]
    BY <1>2, DocumentsAssumption
  <2> QED
    BY <2>1 DEF Versions, BoundedSeq, SeqOf
<1> QED
  BY <1>1, <1>2

LEMMA NoVersions == <<>> \in Versions
<1>1. <<>> \in Seq(Text) /\ Len(<<>>) <= MaxVersions
  BY DocumentsAssumption
<1> QED
  BY <1>1, VersionsAre

LEMMA OneMoreVersion ==
  ASSUME NEW v \in Versions, Len(v) < MaxVersions, NEW text \in Text
  PROVE  /\ Append(v, text) \in Versions /\ Len(Append(v, text)) = Len(v) + 1
         /\ text \in Range(Append(v, text)) /\ Range(v) \subseteq Range(Append(v, text))
<1>1. v \in Seq(Text) /\ Len(v) \in 0..MaxVersions
  BY VersionsAre
<1>2. Append(v, text) \in Seq(Text) /\ Len(Append(v, text)) = Len(v) + 1
  BY <1>1
<1>3. Append(v, text) \in Versions
  <2>1. Len(Append(v, text)) <= MaxVersions
    BY <1>1, <1>2, DocumentsAssumption
  <2> QED
    BY <1>2, <2>1, VersionsAre
<1>4. \A i \in 1..Len(v) : Append(v, text)[i] = v[i]
  BY <1>1
<1>5. Append(v, text)[Len(v) + 1] = text
  BY <1>1
<1> QED
  BY <1>1, <1>2, <1>3, <1>4, <1>5 DEF Range

LEMMA RecordedIsThere ==
  ASSUME NEW v \in Versions, v # <<>>
  PROVE  Last(v) \in Range(v)
<1>1. v \in Seq(Text) /\ Len(v) \in 1..Len(v)
  BY VersionsAre
<1> QED
  BY <1>1 DEF Last, Range

-----------------------------------------------------------------------------
(* What an analysis has read is not from the future, and is the text as it is *)
(* while its version is; what a save has read is the text as it is, and then  *)
(* is recorded, unless another save wrote in between.                         *)

Reading(r) == r.some => r.version <= Len(version) /\ (r.version = Len(version) => doc.text = r.text \/ blind)
SaveSound(s) ==
  ~overlap[s] => /\ save[s].at = "read" => save[s].old = doc.text
                 /\ save[s].at = "ready" => doc.text \in Range(version) \cup {Empty}

DocInv ==
  /\ DocTypeOK
  /\ doc.state # "gone" => Reading(analysis) /\ Reading(mark) /\ \A s \in Save : SaveSound(s)

SaveRow == [at : {"idle", "checked", "read", "ready", "summary"}, old : Text, bumped : BOOLEAN]

LEMMA AtRest ==
  /\ NotSaving \in SaveRow /\ NotSaving.at = "idle"
  /\ Nothing \in Readings /\ ~Nothing.some
BY DocumentsAssumption DEF NotSaving, SaveRow, Nothing, Readings

LEMMA SaveSteps ==
  ASSUME NEW row \in SaveRow
  PROVE  /\ [row EXCEPT !.at = "checked"] \in SaveRow /\ [row EXCEPT !.at = "checked"].at = "checked"
         /\ [row EXCEPT !.at = "summary", !.bumped = FALSE] \in SaveRow
         /\ [row EXCEPT !.at = "summary", !.bumped = FALSE].at = "summary"
BY DocumentsAssumption DEF SaveRow

\* One save has moved on, the document and its versions are as they were.
LEMMA SaveMoves ==
  ASSUME DocInv, NEW s \in Save, NEW row \in SaveRow,
         save' = [save EXCEPT ![s] = row],
         overlap' \in [Save -> BOOLEAN], \A t \in Save \ {s} : overlap'[t] = overlap[t],
         UNCHANGED <<doc, version, analysis, mark, blind>>,
         row.at = "read" => row.old = doc.text,
         row.at = "ready" => doc.text = Empty
  PROVE  DocInv'
<1>1. DocTypeOK'
  BY DEF DocInv, DocTypeOK, SaveRow
<1>2. \A t \in Save \ {s} : SaveSound(t) => SaveSound(t)'
  BY DEF SaveSound, DocInv, DocTypeOK
<1>3. SaveSound(s)'
  BY DEF SaveSound, DocInv, DocTypeOK
<1> QED
  BY <1>1, <1>2, <1>3 DEF DocInv, Reading

LEMMA CreateVersionKeeps ==
  ASSUME DocInv, NEW s \in Save, CreateVersion(s)
  PROVE  DocInv'
<1>0. save[s] \in SaveRow /\ version \in Versions /\ overlap' = overlap
  BY DEF DocInv, DocTypeOK, SaveRow, CreateVersion
<1>1. CASE doc.state = "gone"
  <2>1. save' = [save EXCEPT ![s] = NotSaving] /\ UNCHANGED <<doc, version, analysis, mark, overlap, blind>>
    BY <1>1 DEF CreateVersion
  <2> QED
    BY <2>1, AtRest, SaveMoves DEF DocInv, DocTypeOK
<1>2. CASE doc.state # "gone"
  <2>1. PICK new \in {TRUE, ~Recorded(save[s].old)} :
          /\ new => Len(version) < MaxVersions
          /\ version' = IF new THEN Append(version, save[s].old) ELSE version
          /\ save' = [save EXCEPT ![s].at = "ready", ![s].bumped = new, ![s].old = Empty]
    BY <1>2 DEF CreateVersion
  <2>2. new \in BOOLEAN /\ save[s].old \in Text
    BY <1>0, <2>1 DEF SaveRow, Recorded
  <2>3. PICK row : row = [save[s] EXCEPT !.at = "ready", !.bumped = new, !.old = Empty]
    OBVIOUS
  <2>4. row \in SaveRow /\ row.at = "ready"
    <3>1. new \in BOOLEAN
      BY <2>2
    <3> QED
      BY <1>0, <3>1, <2>3, DocumentsAssumption DEF SaveRow
  <2>5. save' = [save EXCEPT ![s] = row]
    BY <1>0, <2>1, <2>2, <2>3 DEF DocInv, DocTypeOK, SaveRow
  <2>6. /\ version' \in Versions /\ save[s].old \in Range(version') /\ Range(version) \subseteq Range(version')
        /\ Len(version') = Len(version) + 1 \/ version' = version
    <3>1. CASE new
      BY <1>0, <2>1, <2>2, <3>1, OneMoreVersion
    <3>2. CASE ~new
      BY <1>0, <2>1, <3>2, RecordedIsThere DEF Recorded
    <3> QED
      BY <2>2, <3>1, <3>2
  <2>7. DocTypeOK'
    BY <1>0, <2>4, <2>5, <2>6 DEF CreateVersion, DocInv, DocTypeOK, SaveRow
  <2>8. Len(version) \in Nat
    BY <1>0, VersionsAre
  <2>9. ASSUME NEW r \in Readings, Reading(r), r.some
        PROVE  /\ r.version <= Len(version')
               /\ r.version = Len(version') => doc.text = r.text \/ blind
    BY <2>6, <2>8, <2>9 DEF Reading, Readings
  <2>10. UNCHANGED <<doc, analysis, mark, overlap, blind>>
    BY DEF CreateVersion
  <2>11. Reading(analysis)' /\ Reading(mark)'
    BY <1>2, <2>9, <2>10 DEF DocInv, DocTypeOK, Reading
  <2>12. \A t \in Save : SaveSound(t)'
    BY <1>2, <2>4, <2>5, <2>6, <2>10 DEF CreateVersion, DocInv, DocTypeOK, SaveSound
  <2> QED
    BY <2>7, <2>11, <2>12 DEF DocInv
<1> QED
  BY <1>1, <1>2

LEMMA WriteTextKeeps ==
  ASSUME DocInv, NEW s \in Save, WriteText(s)
  PROVE  DocInv'
<1>0. save[s] \in SaveRow
  BY DEF DocInv, DocTypeOK, SaveRow
<1>1. CASE doc.state = "gone"
  <2>1. save' = [save EXCEPT ![s] = NotSaving] /\ UNCHANGED <<doc, version, analysis, mark, overlap, blind>>
    BY <1>1 DEF WriteText
  <2> QED
    BY <2>1, AtRest, SaveMoves DEF DocInv, DocTypeOK
<1>2. CASE doc.state # "gone"
  <2>1. PICK text \in Text : doc' = [doc EXCEPT !.text = text]
    BY <1>2 DEF WriteText
  <2>2. doc' \in DocRow /\ doc'.state = doc.state
    BY <2>1 DEF DocInv, DocTypeOK, DocRow
  <2>3. PICK row : row = [save[s] EXCEPT !.at = "summary", !.bumped = FALSE]
    OBVIOUS
  <2>4. row \in SaveRow /\ row.at = "summary"
    BY <1>0, <2>3, SaveSteps
  <2>5. save' = [save EXCEPT ![s] = row]
    BY <1>0, <1>2, <2>3 DEF WriteText, DocInv, DocTypeOK, SaveRow
  <2>6. /\ overlap' = [t \in Save |-> t # s /\ (overlap[t] \/ save[t].at \in {"read", "ready"})]
        /\ blind' = (~save[s].bumped \/ \E r \in {analysis, mark} : r.some /\ r.version = Len(version))
        /\ UNCHANGED <<version, analysis, mark>>
    BY <1>2 DEF WriteText
  <2>7. overlap' \in [Save -> BOOLEAN]
    BY <2>6 DEF DocInv, DocTypeOK
  <2>8. DocTypeOK'
    BY <2>2, <2>4, <2>5, <2>6, <2>7 DEF DocInv, DocTypeOK, SaveRow
  <2>9. Reading(analysis)' /\ Reading(mark)'
    BY <1>2, <2>6 DEF DocInv, Reading
  <2>10. \A t \in Save : SaveSound(t)'
    BY <2>4, <2>5, <2>6 DEF DocInv, DocTypeOK, SaveSound
  <2> QED
    BY <2>8, <2>9, <2>10 DEF DocInv
<1> QED
  BY <1>1, <1>2

LEMMA OtherSaveStepsKeep ==
  ASSUME DocInv, NEW s \in Save,
         CheckVersion(s) \/ ReadCurrent(s) \/ UpdateSummary(s) \/ SaveDies(s)
  PROVE  DocInv'
<1>0. save[s] \in SaveRow
  BY DEF DocInv, DocTypeOK, SaveRow
<1>1. CASE CheckVersion(s)
  BY <1>0, <1>1, SaveSteps, SaveMoves DEF CheckVersion, DocInv, DocTypeOK
<1>2. CASE ReadCurrent(s)
  <2>1. PICK at \in {"read", "ready"} :
          /\ at = "ready" => doc.text = Empty
          /\ save' = [save EXCEPT ![s] =
               IF doc.state # "here" THEN NotSaving ELSE [save[s] EXCEPT !.at = at, !.old = doc.text]]
    BY <1>2 DEF ReadCurrent
  <2>2. doc.text \in Text
    BY DEF DocInv, DocTypeOK, DocRow
  <2>3. PICK row : row = IF doc.state # "here" THEN NotSaving ELSE [save[s] EXCEPT !.at = at, !.old = doc.text]
    OBVIOUS
  <2>4. /\ row \in SaveRow /\ row.at \in {"idle", at}
        /\ row.at = at => row.old = doc.text
    <3>1. CASE doc.state # "here"
      BY <2>3, <3>1, AtRest
    <3>2. CASE doc.state = "here"
      <4>1. row = [save[s] EXCEPT !.at = at, !.old = doc.text]
        BY <2>3, <3>2
      <4> QED
        BY <1>0, <2>2, <4>1 DEF SaveRow
    <3> QED
      BY <3>1, <3>2
  <2>5. save' = [save EXCEPT ![s] = row]
    BY <2>1, <2>3
  <2>6. overlap' \in [Save -> BOOLEAN] /\ \A t \in Save \ {s} : overlap'[t] = overlap[t]
    BY <1>2 DEF ReadCurrent, DocInv, DocTypeOK
  <2> QED
    BY <1>2, <2>1, <2>4, <2>5, <2>6, SaveMoves DEF ReadCurrent
<1>3. CASE UpdateSummary(s)
  BY <1>3, AtRest, SaveMoves DEF UpdateSummary, DocInv, DocTypeOK
<1>4. CASE SaveDies(s)
  <2>1. overlap' \in [Save -> BOOLEAN] /\ \A t \in Save \ {s} : overlap'[t] = overlap[t]
    BY <1>4 DEF SaveDies, DocInv, DocTypeOK
  <2> QED
    BY <1>4, <2>1, AtRest, SaveMoves DEF SaveDies
<1> QED
  BY <1>1, <1>2, <1>3, <1>4

LEMMA AnalysisStepsKeep ==
  ASSUME DocInv, AnalysisReads \/ AnalysisCompletes \/ AnalysisStops
  PROVE  DocInv'
<1>1. Nothing \in Readings /\ ~Nothing.some
  BY AtRest
<1>2. CASE AnalysisReads
  <2>1. Len(version) \in 0..MaxVersions /\ doc.text \in Text
    BY VersionsAre DEF DocInv, DocTypeOK, DocRow
  <2>2. PICK r : r = [version |-> Len(version), text |-> doc.text, some |-> TRUE]
    OBVIOUS
  <2>3. r \in Readings /\ r.version = Len(version) /\ r.text = doc.text
    BY <2>1, <2>2 DEF Readings
  <2>4. analysis' = r /\ UNCHANGED <<doc, version, save, mark, overlap, blind>>
    BY <1>2, <2>2 DEF AnalysisReads
  <2> QED
    BY <2>1, <2>3, <2>4 DEF DocInv, DocTypeOK, Reading, SaveSound
<1>3. CASE AnalysisCompletes
  BY <1>1, <1>3 DEF AnalysisCompletes, DocInv, DocTypeOK, Reading, SaveSound
<1>4. CASE AnalysisStops
  BY <1>1, <1>4 DEF AnalysisStops, DocInv, DocTypeOK, Reading, SaveSound
<1> QED
  BY <1>2, <1>3, <1>4

LEMMA TrashStepsKeep ==
  ASSUME DocInv, DeleteDocument \/ RestoreDocument \/ PermanentDelete \/ RetentionEnds \/ CleanupDocuments
  PROVE  DocInv'
<1>1. ASSUME NEW from, NEW to \in {"here", "trash", "old"}, DocMoves(from, to), "gone" \notin from,
             UNCHANGED <<version, save, analysis, mark, overlap, blind>>
      PROVE  DocInv'
  <2>1. doc.state # "gone" /\ doc' \in DocRow /\ doc'.text = doc.text
    BY <1>1 DEF DocMoves, DocInv, DocTypeOK, DocRow
  <2> QED
    BY <1>1, <2>1 DEF DocInv, DocTypeOK, Reading, SaveSound
<1>2. ASSUME NEW from, Erase(from)
      PROVE  DocInv'
  <2>1. Nothing \in Readings /\ <<>> \in Versions
    BY AtRest, NoVersions
  <2>2. doc' \in DocRow /\ doc'.state = "gone"
    BY <1>2, DocumentsAssumption DEF Erase, DocRow
  <2> QED
    BY <1>2, <2>1, <2>2 DEF Erase, DocInv, DocTypeOK
<1> QED
  BY <1>1, <1>2 DEF DeleteDocument, RestoreDocument, PermanentDelete, RetentionEnds, CleanupDocuments

LEMMA DocInvariant == DocSpec => []DocInv
<1>1. DocInit => DocInv
  <2> SUFFICES ASSUME DocInit PROVE DocInv
    OBVIOUS
  <2>1. PICK text \in Text : doc = [state |-> "here", text |-> text]
    BY DEF DocInit
  <2>2. doc \in DocRow
    BY <2>1 DEF DocRow
  <2>3. Nothing \in Readings /\ ~Nothing.some /\ <<>> \in Versions
    BY AtRest, NoVersions
  <2>4. NotSaving \in SaveRow /\ NotSaving.at = "idle"
    BY AtRest
  <2>5. DocTypeOK
    BY <2>2, <2>3, <2>4 DEF DocInit, DocTypeOK, SaveRow
  <2> QED
    BY <2>3, <2>4, <2>5 DEF DocInit, DocInv, Reading, SaveSound
<1>2. DocInv /\ [DocNext]_docVars => DocInv'
  <2>1. DocInv /\ UNCHANGED docVars => DocInv'
    BY DEF docVars, DocInv, DocTypeOK, Reading, SaveSound
  <2> QED
    BY <2>1, CreateVersionKeeps, WriteTextKeeps, OtherSaveStepsKeep, AnalysisStepsKeep, TrashStepsKeep
       DEF DocNext
<1> QED
  BY <1>1, <1>2, PTL DEF DocSpec

\* The document, its versions, the saves and what analyses have read are of their types.
THEOREM DocTypeCorrect == DocSpec => []DocTypeOK
<1>1. DocInv => DocTypeOK
  BY DEF DocInv
<1> QED
  BY <1>1, DocInvariant, PTL

\* For any number of saves, texts and versions: a document that is said to have no
\* changes holds the text that was analysed, but for a write under a number already read.
THEOREM UnchangedIsAnalysed == DocSpec => []NoChangesMeansAnalysed
<1>1. DocInv => NoChangesMeansAnalysed
  <2> SUFFICES ASSUME DocInv, doc.state = "here", mark.some, ~HasChanges
               PROVE  doc.text = mark.text \/ blind
    BY DEF NoChangesMeansAnalysed
  <2>1. Len(version) \in Nat /\ mark.version \in Nat
    BY VersionsAre, DocumentsAssumption DEF DocInv, DocTypeOK, Readings
  <2> QED
    BY <2>1 DEF DocInv, Reading, HasChanges
<1> QED
  BY <1>1, DocInvariant, PTL

\* A text that a save overwrites is among the recorded versions, for any number of
\* saves under way, unless another save overtook this one.
THEOREM OverwrittenIsRecorded == DocSpec => EditsKept
<1> DEFINE Kept == doc' # doc => \A s \in Save : WriteText(s) =>
                     doc.text \in Range(version) \cup {Empty} \/ overlap[s]
<1>1. DocInv /\ [DocNext]_docVars => [Kept]_docVars
  <2> SUFFICES ASSUME DocInv, doc' # doc, NEW s \in Save, WriteText(s)
               PROVE  doc.text \in Range(version) \cup {Empty} \/ overlap[s]
    OBVIOUS
  <2>1. doc.state # "gone" /\ save[s].at = "ready"
    BY DEF WriteText
  <2> QED
    BY <2>1 DEF DocInv, SaveSound
<1> QED
  BY <1>1, DocInvariant, PTL DEF DocSpec, EditsKept

-----------------------------------------------------------------------------
(* The stream of events. *)

\* The log is in the order of its numbers.
LogSound ==
  /\ IsFiniteSet(log)
  /\ \A e \in log : e.id <= counter
  /\ \A e, f \in log : e.id = f.id => e = f

\* What is still to be replayed on a connection has not been sent on it, and is
\* older than what will be broadcast.
ReplaySound ==
  \A b \in Browser : \A n \in connection[b].replay : n <= counter /\ n \notin Range(received[b])

StreamInv == StreamTypeOK /\ LogSound /\ ReplaySound

USE StreamAssumption

LEMMA RangeOfAppend ==
  ASSUME NEW seq \in Seq(Ids), NEW id \in Ids
  PROVE  Append(seq, id) \in Seq(Ids) /\ Range(Append(seq, id)) = Range(seq) \cup {id}
<1>1. Append(seq, id) \in Seq(Ids) /\ Len(Append(seq, id)) = Len(seq) + 1 /\ Len(seq) \in Nat
  OBVIOUS
<1>2. /\ \A i \in 1..Len(seq) : Append(seq, id)[i] = seq[i]
      /\ Append(seq, id)[Len(seq) + 1] = id
  OBVIOUS
<1>3. Range(Append(seq, id)) = {Append(seq, id)[i] : i \in 1..Len(seq) + 1} /\ Range(seq) = {seq[i] : i \in 1..Len(seq)}
  BY <1>1, RangeEquality
<1> QED
  BY <1>1, <1>2, <1>3

\* Of a log with distinct numbers no more than k events have fewer than k later ones.
LEMMA LastOfLog ==
  ASSUME NEW events, IsFiniteSet(events), \A e \in events : e.id \in Ids,
         \A e, f \in events : e.id = f.id => e = f, NEW k \in Nat
  PROVE  Cardinality({e \in events : Cardinality(Later(events, e)) < k}) <= k
<1> DEFINE rest == {e \in events : Cardinality(Later(events, e)) < k}
           place == [e \in rest |-> Cardinality(Later(events, e))]
<1>1. \A e \in events : IsFiniteSet(Later(events, e)) /\ Cardinality(Later(events, e)) \in Nat
  <2> SUFFICES ASSUME NEW e \in events
               PROVE  IsFiniteSet(Later(events, e)) /\ Cardinality(Later(events, e)) \in Nat
    OBVIOUS
  <2>1. Later(events, e) \subseteq events
    BY DEF Later
  <2>2. IsFiniteSet(Later(events, e))
    BY <2>1, FS_Subset
  <2> QED
    BY <2>2, FS_CardinalityType
<1>2. ASSUME NEW e \in events, NEW f \in events, e.id < f.id
      PROVE  Cardinality(Later(events, f)) # Cardinality(Later(events, e))
  <2>1. Later(events, f) \subseteq Later(events, e)
    BY <1>2 DEF Later, Ids
  <2>2. f \in Later(events, e) /\ f \notin Later(events, f)
    BY <1>2 DEF Later, Ids
  <2>3. IsFiniteSet(Later(events, e))
    BY <1>1
  <2> QED
    BY <2>1, <2>2, <2>3, FS_Subset
<1>3. place \in [rest -> 0..(k - 1)]
  BY <1>1
<1>4. ASSUME NEW e \in rest, NEW f \in rest, place[e] = place[f]
      PROVE  e = f
  <2>1. ~(e.id < f.id) /\ ~(f.id < e.id)
    BY <1>2, <1>4
  <2> QED
    BY <2>1 DEF Ids
<1>5. place \in Injection(rest, 0..(k - 1))
  BY <1>3, <1>4 DEF Injection, IsInjective
<1>6. IsFiniteSet(0..(k - 1)) /\ Cardinality(0..(k - 1)) = k
  <2>1. 0 \in Int /\ k - 1 \in Int
    OBVIOUS
  <2>2. /\ IsFiniteSet(0..(k - 1))
        /\ Cardinality(0..(k - 1)) = IF 0 > k - 1 THEN 0 ELSE (k - 1) - 0 + 1
    BY <2>1, FS_Interval
  <2> QED
    BY <2>2
<1> QED
  BY <1>5, <1>6, FS_Injection

LEMMA LoggedType ==
  ASSUME StreamTypeOK, LogSound, counter < MaxEvents, NEW event \in Event, event.id = counter + 1
  PROVE  /\ Logged(event) \subseteq log \cup {event}
         /\ IsFiniteSet(Logged(event)) /\ Cardinality(Logged(event)) <= MaxLog
<1> DEFINE longer == log \cup {event}
<1>1. IsFiniteSet(longer) /\ \A e \in longer : e.id \in Ids
  BY FS_AddElement DEF LogSound, StreamTypeOK, Event
<1>2. \A e, f \in longer : e.id = f.id => e = f
  BY DEF LogSound, StreamTypeOK, Event, Ids
<1>3. MaxLog \div 2 \in Nat /\ MaxLog \div 2 <= MaxLog
  OBVIOUS
<1>4. Logged(event) \subseteq longer
  BY DEF Logged
<1>5. IsFiniteSet(Logged(event))
  BY <1>1, <1>4, FS_Subset
<1>6. Cardinality(Logged(event)) <= MaxLog
  <2>1. CASE Cardinality(longer) <= MaxLog
    BY <2>1 DEF Logged
  <2>2. CASE ~(Cardinality(longer) <= MaxLog)
    <3>1. Logged(event) = {e \in longer : Cardinality(Later(longer, e)) < MaxLog \div 2}
      BY <2>2 DEF Logged
    <3>2. Cardinality({e \in longer : Cardinality(Later(longer, e)) < MaxLog \div 2}) <= MaxLog \div 2
      <4> HIDE DEF longer
      <4> QED
        BY <1>1, <1>2, <1>3, LastOfLog
    <3>3. Cardinality(Logged(event)) \in Nat
      BY <1>5, FS_CardinalityType
    <3> QED
      BY <1>3, <3>1, <3>2, <3>3
  <2> QED
    BY <2>1, <2>2
<1> QED
  BY <1>4, <1>5, <1>6

LEMMA ConnectionType ==
  /\ Closed \in Connection /\ Closed.channels = {} /\ Closed.replay = {}
  /\ \A c \in Connection : c.channels \in SUBSET Channels /\ c.replay \in SUBSET Ids
  /\ \A c \in Connection, channels \in SUBSET Channels :
       /\ [c EXCEPT !.channels = channels] \in Connection
       /\ [c EXCEPT !.channels = channels].channels = channels
       /\ [c EXCEPT !.channels = channels].replay = c.replay
  /\ \A c \in Connection, replay \in SUBSET Ids :
       /\ [c EXCEPT !.replay = replay] \in Connection
       /\ [c EXCEPT !.replay = replay].channels = c.channels
       /\ [c EXCEPT !.replay = replay].replay = replay
BY DEF Closed, Connection

-----------------------------------------------------------------------------
(* Each step keeps the invariant and is one of the feed's. *)

Kept == {e.id : e \in Replayable}
Following == {b \in Browser : UserChannel \in connection[b].channels}
Owed == [b \in Browser |-> connection[b].replay]

\* The connection of one browser has changed; the events and what was received have not.
LEMMA ConnectionChanges ==
  ASSUME StreamInv, NEW b \in Browser, NEW new \in Connection,
         connection' = [connection EXCEPT ![b] = new],
         UNCHANGED <<counter, log, received, last, restarts>>,
         \A n \in new.replay : n \in connection[b].replay
  PROVE  /\ StreamInv'
         /\ Owed' = [Owed EXCEPT ![b] = new.replay]
         /\ Following' = IF UserChannel \in new.channels THEN Following \cup {b} ELSE Following \ {b}
         /\ Kept' = Kept
<1>1. connection' \in [Browser -> Connection] /\ connection'[b] = new
      /\ \A c \in Browser \ {b} : connection'[c] = connection[c]
  BY DEF StreamInv, StreamTypeOK
<1>2. StreamInv'
  BY <1>1 DEF StreamInv, StreamTypeOK, LogSound, ReplaySound
<1>3. Owed' = [Owed EXCEPT ![b] = new.replay]
  BY <1>1 DEF Owed
<1>4. Following' = IF UserChannel \in new.channels THEN Following \cup {b} ELSE Following \ {b}
  BY <1>1 DEF Following
<1> QED
  BY <1>2, <1>3, <1>4 DEF Kept, Replayable

LEMMA SubscriptionStep ==
  ASSUME StreamInv, NEW b \in Browser, NEW channel \in Channels,
         Subscribe(b, channel) \/ Unsubscribe(b, channel)
  PROVE  StreamInv' /\ Feed!Follow(b)
<1>1. connection[b] \in Connection /\ connection[b].channels \in SUBSET Channels
  BY ConnectionType DEF StreamInv, StreamTypeOK
<1>2. PICK channels \in SUBSET Channels :
        connection' = [connection EXCEPT ![b] = [connection[b] EXCEPT !.channels = channels]]
  BY <1>1 DEF Subscribe, Unsubscribe
<1>3. PICK new \in Connection :
        new = [connection[b] EXCEPT !.channels = channels] /\ new.replay = connection[b].replay
  BY <1>1, ConnectionType
<1>4. UNCHANGED <<counter, log, received, last, restarts>>
  BY DEF Subscribe, Unsubscribe
<1>5. /\ StreamInv'
      /\ Owed' = [Owed EXCEPT ![b] = new.replay]
      /\ Following' \in {Following \cup {b}, Following \ {b}}
      /\ Kept' = Kept
  BY <1>2, <1>3, <1>4, ConnectionChanges
<1>6. Owed' = Owed
  BY <1>3, <1>5 DEF Owed
<1> QED
  BY <1>4, <1>5, <1>6 DEF Feed!Follow, Kept, Following, Owed

LEMMA DisconnectStep ==
  ASSUME StreamInv, NEW b \in Browser, Disconnect(b)
  PROVE  StreamInv' /\ Feed!Leave(b)
<1>1. /\ connection' = [connection EXCEPT ![b] = Closed]
      /\ UNCHANGED <<counter, log, received, last, restarts>>
  BY DEF Disconnect
<1>2. PICK new : new = Closed
  OBVIOUS
<1>3. new \in Connection /\ new.channels = {} /\ new.replay = {}
  BY <1>2, ConnectionType
<1>4. connection' = [connection EXCEPT ![b] = new]
  BY <1>1, <1>2
<1>5. /\ StreamInv'
      /\ Owed' = [Owed EXCEPT ![b] = new.replay]
      /\ Following' = IF UserChannel \in new.channels THEN Following \cup {b} ELSE Following \ {b}
      /\ Kept' = Kept
  BY <1>1, <1>3, <1>4, ConnectionChanges
<1>6. Owed' = [Owed EXCEPT ![b] = {}] /\ Following' = Following \ {b}
  BY <1>3, <1>5
<1> QED
  BY <1>1, <1>5, <1>6 DEF Feed!Leave, Kept, Following, Owed

LEMMA AddClientStep ==
  ASSUME StreamInv, NEW b \in Browser, AddClient(b)
  PROVE  StreamInv' /\ Feed!Connect(b)
<1> DEFINE missed == IF last[b] = 0 THEN {} ELSE {n \in Kept : n > last[b]}
<1>1. EventsToReplay(last[b]) = {n \in Kept : n > last[b]}
  BY DEF EventsToReplay, Kept, Missed
<1>2. \A n \in Kept : n \in Ids /\ n <= counter
  BY DEF StreamInv, StreamTypeOK, LogSound, Kept, Replayable, Event
<1>3. PICK new : new = [open |-> TRUE, channels |-> {UserChannel}, replay |-> missed]
  OBVIOUS
<1>4. /\ new \in Connection /\ new.channels = {UserChannel} /\ new.replay = missed
      /\ \A n \in new.replay : n \in Kept
  <2>1. missed \in SUBSET Ids /\ \A n \in missed : n \in Kept
    BY <1>2
  <2> HIDE DEF missed
  <2> QED
    BY <1>3, <2>1 DEF Connection, Channels
<1>5. connection' = [connection EXCEPT ![b] = new]
  BY <1>1, <1>3 DEF AddClient
<1>6. received' = [received EXCEPT ![b] = <<>>] /\ UNCHANGED <<counter, log, last, restarts>>
  BY DEF AddClient
<1> HIDE DEF missed
<1>7. /\ connection' \in [Browser -> Connection] /\ connection'[b] = new
      /\ \A c \in Browser \ {b} : connection'[c] = connection[c]
  BY <1>4, <1>5 DEF StreamInv, StreamTypeOK
<1>8. /\ received' \in [Browser -> Seq(Ids)] /\ received'[b] = <<>>
      /\ \A c \in Browser \ {b} : received'[c] = received[c]
  BY <1>6 DEF StreamInv, StreamTypeOK
<1>9. Range(<<>>) = {}
  BY DEF Range
<1>10. StreamInv'
  BY <1>2, <1>4, <1>6, <1>7, <1>8, <1>9 DEF StreamInv, StreamTypeOK, LogSound, ReplaySound
<1>11. Owed' = [Owed EXCEPT ![b] = missed]
  BY <1>4, <1>7 DEF Owed
<1>12. Following' = Following \cup {b}
  BY <1>4, <1>7 DEF Following
<1>13. Kept' = Kept
  BY <1>6 DEF Kept, Replayable
<1> QED
  BY <1>6, <1>10, <1>11, <1>12, <1>13 DEF Feed!Connect, Kept, Following, Owed, missed

LEMMA ReplayStep ==
  ASSUME StreamInv, NEW b \in Browser, Replay(b)
  PROVE  StreamInv' /\ Feed!CatchUp(b)
<1>1. PICK id \in connection[b].replay :
        /\ Send(b, id)
        /\ connection' = [connection EXCEPT ![b].replay = @ \ {id}]
  BY DEF Replay
<1>2. UNCHANGED <<counter, log, restarts>>
  BY DEF Replay
<1>3. connection[b] \in Connection /\ connection[b].replay \in SUBSET Ids /\ id \in Ids
  BY <1>1, ConnectionType DEF StreamInv, StreamTypeOK
<1>4. id <= counter /\ id \notin Range(received[b])
  BY <1>1 DEF StreamInv, ReplaySound
<1>5. PICK new \in Connection : /\ new = [connection[b] EXCEPT !.replay = connection[b].replay \ {id}]
                                /\ new.replay = connection[b].replay \ {id}
                                /\ new.channels = connection[b].channels
  <2>1. PICK new : new = [connection[b] EXCEPT !.replay = connection[b].replay \ {id}]
    OBVIOUS
  <2>2. connection[b].replay \ {id} \in SUBSET Ids
    BY <1>3
  <2>3. /\ new \in Connection /\ new.replay = connection[b].replay \ {id}
        /\ new.channels = connection[b].channels
    BY <1>3, <2>1, <2>2 DEF Connection
  <2> QED
    BY <2>1, <2>3
<1>6. /\ connection' \in [Browser -> Connection] /\ connection'[b] = new
      /\ \A c \in Browser \ {b} : connection'[c] = connection[c]
  BY <1>1, <1>5 DEF StreamInv, StreamTypeOK
<1>7. received[b] \in Seq(Ids)
  BY DEF StreamInv, StreamTypeOK
<1>8. Append(received[b], id) \in Seq(Ids) /\ Range(Append(received[b], id)) = Range(received[b]) \cup {id}
  BY <1>3, <1>7, RangeOfAppend
<1>9. /\ received' \in [Browser -> Seq(Ids)] /\ received'[b] = Append(received[b], id)
      /\ \A c \in Browser \ {b} : received'[c] = received[c]
  BY <1>1, <1>8 DEF Send, StreamInv, StreamTypeOK
<1>10. /\ last' \in [Browser -> 0..MaxEvents] /\ last'[b] = id
       /\ \A c \in Browser \ {b} : last'[c] = last[c]
  BY <1>1, <1>3 DEF Send, StreamInv, StreamTypeOK, Ids
<1>11. StreamTypeOK'
  BY <1>2, <1>6, <1>9, <1>10 DEF StreamInv, StreamTypeOK
<1>12. ReplaySound'
  BY <1>2, <1>5, <1>6, <1>8, <1>9 DEF StreamInv, ReplaySound
<1>13. StreamInv'
  BY <1>2, <1>11, <1>12 DEF StreamInv, LogSound
<1>14. Owed' = [Owed EXCEPT ![b] = @ \ {id}] /\ Following' = Following
  <2>1. Owed' = [Owed EXCEPT ![b] = Owed[b] \ {id}]
    BY <1>5, <1>6 DEF Owed
  <2>2. Following' = Following
    BY <1>5, <1>6 DEF Following
  <2> QED
    BY <2>1, <2>2
<1>15. Kept' = Kept
  BY <1>2 DEF Kept, Replayable
<1>16. Feed!Receive({b}, id)
  BY <1>9, <1>10 DEF Feed!Receive, StreamInv, StreamTypeOK
<1>17. id \in Owed[b] \ Feed!Range(received[b])
  BY <1>1, <1>4 DEF Owed, Range, Feed!Range
<1>18. \E n \in Owed[b] \ Feed!Range(received[b]) : /\ Owed' = [Owed EXCEPT ![b] = @ \ {n}]
                                                    /\ Feed!Receive({b}, n)
  BY <1>14, <1>16, <1>17
<1>19. UNCHANGED <<counter, Kept, Following>>
  BY <1>2, <1>14, <1>15
<1> QED
  BY <1>13, <1>18, <1>19 DEF Feed!CatchUp, Kept, Following, Owed

LEMMA BroadcastStep ==
  ASSUME StreamInv, NEW channel \in Channels, NEW buffered \in BOOLEAN, Broadcast(channel, buffered)
  PROVE  StreamInv' /\ Feed!Publish
<1> DEFINE to == {b \in Browser : channel \in connection[b].channels}
<1>1. PICK id \in Ids : id = counter + 1 /\ counter' = id
  BY DEF Broadcast, StreamInv, StreamTypeOK, Ids
<1>2. /\ counter < MaxEvents /\ counter \in Nat
      /\ UNCHANGED <<connection, restarts>>
  BY DEF Broadcast, StreamInv, StreamTypeOK
<1>3. PICK event : event = [id |-> id, channel |-> channel, fresh |-> TRUE]
  OBVIOUS
<1>4. event \in Event /\ event.id = id /\ event.channel = channel
  BY <1>3 DEF Event
<1>5. log' \subseteq log \cup {event} /\ IsFiniteSet(log') /\ Cardinality(log') <= MaxLog
  <2>1. CASE buffered
    <3>1. log' = Logged(event)
      BY <1>1, <1>3, <2>1 DEF Broadcast
    <3> QED
      BY <1>1, <1>2, <1>4, <3>1, LoggedType DEF StreamInv
  <2>2. CASE ~buffered
    BY <2>2 DEF Broadcast, StreamInv, StreamTypeOK, LogSound
  <2> QED
    BY <2>1, <2>2
<1>6. /\ received' = [b \in Browser |-> IF b \in to THEN Append(received[b], id) ELSE received[b]]
      /\ last' = [b \in Browser |-> IF b \in to THEN id ELSE last[b]]
  BY <1>1 DEF Broadcast
<1> HIDE DEF to
<1>7. ASSUME NEW b \in Browser
      PROVE  /\ received'[b] \in Seq(Ids) /\ last'[b] \in 0..MaxEvents
             /\ Range(received'[b]) \subseteq Range(received[b]) \cup {id}
  <2>1. received[b] \in Seq(Ids) /\ last[b] \in 0..MaxEvents
    BY DEF StreamInv, StreamTypeOK
  <2>2. Append(received[b], id) \in Seq(Ids) /\ Range(Append(received[b], id)) = Range(received[b]) \cup {id}
    BY <2>1, RangeOfAppend
  <2>3. CASE b \in to
    <3>1. received'[b] = Append(received[b], id) /\ last'[b] = id
      BY <1>6, <2>3
    <3> QED
      BY <2>2, <3>1 DEF Ids
  <2>4. CASE b \notin to
    <3>1. received'[b] = received[b] /\ last'[b] = last[b]
      BY <1>6, <2>4
    <3> QED
      BY <2>1, <3>1
  <2> QED
    BY <2>3, <2>4
<1>8. StreamTypeOK'
  BY <1>1, <1>2, <1>4, <1>5, <1>6, <1>7 DEF StreamInv, StreamTypeOK, Ids
<1>9. LogSound'
  <2>1. \A e \in log : e.id \in Nat /\ e.id <= counter
    BY DEF StreamInv, StreamTypeOK, LogSound, Event, Ids
  <2> QED
    BY <1>1, <1>2, <1>4, <1>5, <2>1 DEF StreamInv, LogSound
<1>10. ReplaySound'
  <2>1. ASSUME NEW b \in Browser, NEW n \in connection[b].replay
        PROVE  n <= counter' /\ n \notin Range(received'[b])
    <3>1. n \in Nat /\ n <= counter /\ n \notin Range(received[b])
      BY ConnectionType DEF StreamInv, StreamTypeOK, ReplaySound, Ids
    <3>2. n # id /\ n <= counter'
      BY <1>1, <1>2, <3>1
    <3> QED
      BY <1>7, <3>1, <3>2
  <2> QED
    BY <1>2, <2>1 DEF ReplaySound
<1>11. Kept' \subseteq Kept \cup {counter'}
  BY <1>1, <1>4, <1>5 DEF Kept, Replayable
<1>12. counter' \in Kept' => to = Following
  <2> SUFFICES ASSUME counter' \in Kept' PROVE to = Following
    OBVIOUS
  <2>1. PICK e \in log' : e.channel = UserChannel /\ e.id = id
    BY <1>1 DEF Kept, Replayable
  <2>2. e = event
    BY <1>1, <1>2, <1>5, <2>1 DEF StreamInv, LogSound
  <2> QED
    BY <1>4, <2>1, <2>2 DEF to, Following
<1>13. Feed!Receive(to, counter')
  BY <1>1, <1>6 DEF Feed!Receive
<1>14. to \in SUBSET Browser
  BY DEF to
<1>15. Owed' = Owed /\ Following' = Following
  BY <1>2 DEF Owed, Following
<1> QED
  BY <1>1, <1>8, <1>9, <1>10, <1>11, <1>12, <1>13, <1>14, <1>15
     DEF Feed!Publish, StreamInv, Kept, Following, Owed

LEMMA LogStep ==
  ASSUME StreamInv, (\E e \in log : EventExpires(e)) \/ (\E d \in Documents : ClearBuffer(d))
  PROVE  StreamInv' /\ Feed!Forget
<1>1. UNCHANGED <<counter, connection, received, last, restarts>>
  BY DEF EventExpires, ClearBuffer
<1>2. /\ log' \subseteq Event /\ IsFiniteSet(log') /\ Cardinality(log') <= MaxLog
      /\ \A e \in log' : \E f \in log : /\ f.id = e.id /\ f.channel = e.channel
                                        /\ (e.fresh => f = e)
      /\ \A e, f \in log' : e.id = f.id => e = f
  <2>1. CASE \E d \in Documents : ClearBuffer(d)
    <3>1. log' \subseteq log
      BY <2>1 DEF ClearBuffer
    <3>2. IsFiniteSet(log) /\ log \subseteq Event /\ Cardinality(log) <= MaxLog
      BY DEF StreamInv, StreamTypeOK, LogSound
    <3>3. IsFiniteSet(log') /\ Cardinality(log') <= Cardinality(log)
      BY <3>1, <3>2, FS_Subset
    <3>4. Cardinality(log) \in Nat /\ Cardinality(log') \in Nat
      BY <3>2, <3>3, FS_CardinalityType
    <3> QED
      BY <3>1, <3>2, <3>3, <3>4 DEF StreamInv, LogSound
  <2>2. CASE \E e \in log : EventExpires(e)
    <3>1. PICK e \in log : e.fresh /\ log' = (log \ {e}) \cup {[e EXCEPT !.fresh = FALSE]}
      BY <2>2 DEF EventExpires
    <3>2. e \in Event /\ IsFiniteSet(log) /\ log \subseteq Event /\ Cardinality(log) <= MaxLog
      BY DEF StreamInv, StreamTypeOK, LogSound
    <3>3. PICK f \in Event : /\ f = [e EXCEPT !.fresh = FALSE]
                             /\ f.id = e.id /\ f.channel = e.channel /\ ~f.fresh
      <4>1. [e EXCEPT !.fresh = FALSE] \in Event
        BY <3>2 DEF Event
      <4> QED
        BY <3>2, <4>1 DEF Event
    <3>4. IsFiniteSet(log \ {e}) /\ Cardinality(log \ {e}) = Cardinality(log) - 1
      BY <3>2, FS_RemoveElement
    <3>5. /\ IsFiniteSet((log \ {e}) \cup {f})
          /\ \/ Cardinality((log \ {e}) \cup {f}) = Cardinality(log \ {e})
             \/ Cardinality((log \ {e}) \cup {f}) = Cardinality(log \ {e}) + 1
      BY <3>4, FS_AddElement
    <3>6. Cardinality(log) \in Nat
      BY <3>2, FS_CardinalityType
    <3>7. IsFiniteSet(log') /\ Cardinality(log') <= MaxLog /\ log' \subseteq Event
      <4>1. log' = (log \ {e}) \cup {f}
        BY <3>1, <3>3
      <4>2. log' \subseteq Event
        BY <3>2, <3>3, <4>1
      <4>3. Cardinality(log') <= Cardinality(log)
        BY <3>4, <3>5, <3>6, <4>1
      <4>4. IsFiniteSet(log') /\ Cardinality(log') \in Nat
        BY <3>5, <4>1, FS_CardinalityType
      <4> QED
        BY <3>2, <3>6, <4>2, <4>3, <4>4
    <3>8. ASSUME NEW g \in log', NEW h \in log', g.id = h.id PROVE g = h
      <4>1. \A x, y \in log : x.id = y.id => x = y
        BY DEF StreamInv, LogSound
      <4>2. log' = (log \ {e}) \cup {f} /\ e \in log
        BY <3>1, <3>3
      <4> QED
        BY <3>3, <3>8, <4>1, <4>2
    <3>9. \A g \in log' : \E h \in log : h.id = g.id /\ h.channel = g.channel /\ (g.fresh => h = g)
      BY <3>1, <3>3
    <3> QED
      BY <3>7, <3>8, <3>9
  <2> QED
    BY <2>1, <2>2
<1>3. StreamInv'
  <2>1. StreamTypeOK'
    BY <1>1, <1>2 DEF StreamInv, StreamTypeOK
  <2>2. \A e \in log' : e.id <= counter'
    BY <1>1, <1>2 DEF StreamInv, LogSound
  <2>3. ReplaySound'
    BY <1>1 DEF StreamInv, ReplaySound
  <2> QED
    BY <1>2, <2>1, <2>2, <2>3 DEF StreamInv, LogSound
<1>4. Kept' \subseteq Kept
  <2> SUFFICES ASSUME NEW e \in log', e.channel = UserChannel, e.fresh
               PROVE  e.id \in Kept
    BY DEF Kept, Replayable
  <2> QED
    BY <1>2 DEF Kept, Replayable
<1>5. Owed' = Owed /\ Following' = Following
  BY <1>1 DEF Owed, Following
<1> QED
  BY <1>1, <1>3, <1>4, <1>5 DEF Feed!Forget, Kept, Following, Owed

LEMMA RestartStep ==
  ASSUME StreamInv, Restart
  PROVE  StreamInv' /\ Feed!StartOver
<1>1. /\ counter' = 0 /\ log' = {} /\ connection' = [b \in Browser |-> Closed]
      /\ restarts' \in 0..MaxRestarts /\ UNCHANGED <<received, last>>
  BY DEF Restart, StreamInv, StreamTypeOK
<1>2. IsFiniteSet({}) /\ Cardinality({}) = 0
  BY FS_EmptySet
<1>3. \A b \in Browser : connection'[b] = Closed
  BY <1>1
<1>4. StreamInv'
  BY <1>1, <1>2, <1>3, ConnectionType DEF StreamInv, StreamTypeOK, LogSound, ReplaySound
<1>5. Kept' = {} /\ Following' = {} /\ Owed' = [b \in Browser |-> {}]
  BY <1>1, <1>3, ConnectionType DEF Kept, Replayable, Following, Owed
<1> QED
  BY <1>1, <1>4, <1>5 DEF Feed!StartOver, Kept, Following, Owed

LEMMA StreamStarts == StreamInit => StreamInv /\ Feed!FeedInit
<1> SUFFICES ASSUME StreamInit PROVE StreamInv /\ Feed!FeedInit
  OBVIOUS
<1>1. IsFiniteSet({}) /\ Cardinality({}) = 0
  BY FS_EmptySet
<1>2. \A b \in Browser : connection[b] = Closed
  BY DEF StreamInit
<1>3. \A b \in Browser : received[b] \in Seq(Ids)
  BY DEF StreamInit
<1>4. StreamInv
  BY <1>1, <1>2, <1>3, ConnectionType DEF StreamInit, StreamInv, StreamTypeOK, LogSound, ReplaySound
<1>5. Kept = {} /\ Following = {} /\ Owed = [b \in Browser |-> {}]
  BY <1>2, ConnectionType DEF StreamInit, Kept, Replayable, Following, Owed
<1> QED
  BY <1>4, <1>5 DEF StreamInit, Feed!FeedInit, Kept, Following, Owed

LEMMA StreamSteps == StreamInv /\ [StreamNext]_streamVars => StreamInv' /\ [Feed!FeedNext]_(Feed!feedVars)
<1> SUFFICES ASSUME StreamInv, [StreamNext]_streamVars
             PROVE  StreamInv' /\ [Feed!FeedNext]_(Feed!feedVars)
  OBVIOUS
<1>1. CASE UNCHANGED streamVars
  BY <1>1 DEF streamVars, StreamInv, StreamTypeOK, LogSound, ReplaySound, Feed!feedVars, Replayable
<1>2. ASSUME NEW b \in Browser, AddClient(b) \/ Replay(b) \/ Disconnect(b)
      PROVE  StreamInv' /\ Feed!FeedNext
  BY <1>2, AddClientStep, ReplayStep, DisconnectStep DEF Feed!FeedNext
<1>3. ASSUME NEW b \in Browser, NEW channel \in Channels, Subscribe(b, channel) \/ Unsubscribe(b, channel)
      PROVE  StreamInv' /\ Feed!FeedNext
  BY <1>3, SubscriptionStep DEF Feed!FeedNext
<1>4. ASSUME NEW channel \in Channels, NEW buffered \in BOOLEAN, Broadcast(channel, buffered)
      PROVE  StreamInv' /\ Feed!FeedNext
  BY <1>4, BroadcastStep DEF Feed!FeedNext
<1>5. ASSUME (\E e \in log : EventExpires(e)) \/ (\E d \in Documents : ClearBuffer(d))
      PROVE  StreamInv' /\ Feed!FeedNext
  BY <1>5, LogStep DEF Feed!FeedNext
<1>6. CASE Restart
  BY <1>6, RestartStep DEF Feed!FeedNext
<1> QED
  BY <1>1, <1>2, <1>3, <1>4, <1>5, <1>6 DEF StreamNext

\* The log of events, the connections and what browsers have received are of their
\* types; the log never holds more than its limit.
THEOREM StreamTypeCorrect == StreamSpec => []StreamTypeOK
<1>1. StreamInv => StreamTypeOK
  BY DEF StreamInv
<1> QED
  BY <1>1, StreamStarts, StreamSteps, PTL DEF StreamSpec

\* For any number of browsers, documents and events, and any limit of the log: the
\* stream implements EventFeed. No event is sent twice on a connection, whatever is
\* broadcast between the awaits of a replay, and a replay is of all that was missed.
THEOREM StreamImplementsFeed == StreamSpec => EachEventOnce
BY StreamStarts, StreamSteps, PTL DEF StreamSpec, EachEventOnce, Feed!FeedSpec
=============================================================================
