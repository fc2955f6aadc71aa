------------------------------ MODULE Sessions ------------------------------
(***************************************************************************)
(* The sessions of AuthService: login, rotation of refresh tokens with     *)
(* detection of reuse, logout, password reset and password change, and the *)
(* clean-up of expired tokens.                                             *)
(*                                                                         *)
(* PostgreSQL runs the statements READ COMMITTED: an UPDATE chooses its    *)
(* rows in a snapshot taken when it starts, waits for a row that another   *)
(* transaction has updated and checks it again, and does not see a row     *)
(* inserted since.  So each revocation of several rows is two steps.       *)
(***************************************************************************)
EXTENDS Accounts

\* login: the credentials are read once, then the password is verified.
LoginRead(q) ==
  /\ Called(q, "LoginRead")
  /\ user.exists /\ user.password # 0
  /\ user.isActive /\ user.isEmailVerified
  /\ Goto(q, "IssueTokens", NoJob)
  /\ UNCHANGED <<user, token>>

\* The row of a token issued now in family f.
Issued(f) == [status |-> "LIVE", family |-> f, expired |-> FALSE]

\* The row of a token that is revoked.
Spent(t) == [token[t] EXCEPT !.status = "REVOKED"]

\* A login starts a family of its own.
IssueTokens(q) ==
  /\ pc[q] = "IssueTokens"
  /\ \E t \in TokenIds, f \in FamilyIds :
       /\ token[t].status = "NONE"
       /\ \A o \in TokenIds : token[o].family # f
       /\ token' = [token EXCEPT ![t] = Issued(f)]
  /\ Goto(q, "Clean", NoJob)
  /\ UNCHANGED user

\* Wrong form of Cleanable: a revoked token is taken for garbage.
CleanableWhenSpent(t) == token[t].status = "REVOKED"

Cleanable(t) == token[t].status \in {"LIVE", "REVOKED"} /\ token[t].expired

\* RefreshTokenCleanupService.clean, at the end of every login: one that gets
\* the hourly lock deletes what has expired; any other, and one that fails,
\* does nothing.
Clean(q) ==
  /\ pc[q] = "Clean"
  /\ \/ /\ \A t \in HeldTokens : ~ Cleanable(t)
        /\ token' = [t \in TokenIds |->
             IF Cleanable(t) THEN [Spent(t) EXCEPT !.status = "DELETED"] ELSE token[t]]
     \/ UNCHANGED token
  /\ Return(q)
  /\ UNCHANGED user

\* Wrong form of FamilyOf: the family is looked for in the payload of the
\* token, which has none.
FamilyOfPayload(t) == None

FamilyOf(t) == token[t].family

\* refresh: a client presents a token; one already spent was reused.
RefreshRead(q) ==
  /\ Called(q, "RefreshRead")
  /\ \E t \in TokenIds :
       /\ ~ token[t].expired
       /\ \/ /\ token[t].status = "REVOKED"
             /\ Goto(q, "RevokeBegin", [NoJob EXCEPT !.family = FamilyOf(t)])
          \/ /\ Live(t)
             /\ user.isActive
             /\ Goto(q, "RotateUpdate",
                     [NoJob EXCEPT !.token = t, !.family = token[t].family])
  /\ UNCHANGED <<user, token>>

\* Wrong form of Rotatable: the update has no condition on revoked.
RotatableAlways(t) == token[t].status \in {"LIVE", "REVOKED"}

\* The condition of the update that spends the token.
Rotatable(t) == Live(t)

\* refresh, in its transaction: the update that spends the token.  When it
\* affects no row another request was first, and the family is revoked.
RotateUpdate(q) ==
  /\ pc[q] = "RotateUpdate"
  /\ job[q].token \notin HeldTokens
  /\ IF Rotatable(job[q].token)
       THEN Goto(q, "RotateCommit", job[q])
       ELSE Goto(q, "RevokeBegin", [NoJob EXCEPT !.family = job[q].family])
  /\ UNCHANGED <<user, token>>

\* refresh: the successor is inserted and the transaction commits.
RotateCommit(q) ==
  /\ pc[q] = "RotateCommit"
  /\ \E n \in TokenIds :
       /\ token[n].status = "NONE"
       /\ token' = [token EXCEPT ![job[q].token] = Spent(job[q].token),
                                 ![n] = Issued(job[q].family)]
  /\ Return(q)
  /\ UNCHANGED user

\* logout revokes the family of the token in the cookie.
Logout(q) ==
  /\ Called(q, "Logout")
  /\ \E t \in TokenIds :
       /\ token[t].status # "NONE" /\ ~ token[t].expired
       /\ Goto(q, "RevokeBegin", [NoJob EXCEPT !.family = FamilyOf(t)])
  /\ UNCHANGED <<user, token>>

Revoke(R) ==
  token' = [t \in TokenIds |-> IF t \in R /\ Live(t) THEN Spent(t) ELSE token[t]]

\* revokeFamily and logout: the snapshot of the update...
RevokeBegin(q) ==
  /\ pc[q] = "RevokeBegin"
  /\ Goto(q, "RevokeCommit",
          [job[q] EXCEPT !.rows = {t \in TokensOf(job[q].family) : Live(t)}])
  /\ UNCHANGED <<user, token>>

\* ...and its end, once no other transaction holds one of its rows.
RevokeCommit(q) ==
  /\ pc[q] = "RevokeCommit"
  /\ job[q].rows \cap HeldTokens = {}
  /\ Revoke(job[q].rows)
  /\ Return(q)
  /\ UNCHANGED user

\* resetPassword, once the code is accepted.
ResetRead(q) ==
  /\ Called(q, "ResetRead")
  /\ user.exists /\ user.isActive
  /\ Goto(q, "PasswordBegin", NoJob)
  /\ UNCHANGED <<user, token>>

\* changePassword: the current password is verified; the family of the cookie,
\* if there is one, is spared.
ChangeRead(q) ==
  /\ Called(q, "ChangeRead")
  /\ Authenticated /\ user.password # 0
  /\ \E f \in {None} \cup {token[t].family : t \in {o \in TokenIds : ~ token[o].expired}} :
       Goto(q, "PasswordBegin", [NoJob EXCEPT !.family = f])
  /\ UNCHANGED <<user, token>>

\* Wrong form of Sweepable: a rotated token counts for the whole family.
SweepableFirst(f) ==
  {t \in TokenIds : Live(t) /\ token[t].family # f
     /\ \A o \in TokensOf(token[t].family) : Live(o)}

\* The tokens that a password change which spares family f revokes.
Sweepable(f) == {t \in TokenIds : Live(t) /\ token[t].family # f}

\* The transaction of a password change: the update of the user, and the
\* snapshot of the update of the tokens.
PasswordBegin(q) ==
  /\ pc[q] = "PasswordBegin"
  /\ ~ UserHeld
  /\ user.password < LastPassword
  /\ Goto(q, "PasswordCommit",
          [job[q] EXCEPT !.rows = Sweepable(job[q].family), !.known = IssuedTokens])
  /\ UNCHANGED <<user, token>>

PasswordCommit(q) ==
  /\ pc[q] = "PasswordCommit"
  /\ job[q].rows \cap HeldTokens = {}
  /\ user' = [user EXCEPT !.password = @ + 1]
  /\ Revoke(job[q].rows)
  /\ Return(q)

\* The lifetime of a token runs out.
Expire(t) ==
  /\ token[t].status # "NONE" /\ ~ token[t].expired
  /\ token' = [token EXCEPT ![t].expired = TRUE]
  /\ UNCHANGED <<user, pc, job>>

=============================================================================
