-------------------------------- MODULE Users --------------------------------
(***************************************************************************)
(* UsersService and the account operations of AuthService.  Most of them   *)
(* read the whole row, change a column of it and save the row: every       *)
(* column is written back as it was read, except the password, which the   *)
(* entity never selects.                                                   *)
(***************************************************************************)
EXTENDS Accounts

\* register: the row of a new user; the address is unique.
Register(q) ==
  /\ Called(q, "Register")
  /\ ~ user.exists
  /\ user' = [NoUser EXCEPT !.exists = TRUE, !.isActive = TRUE, !.password = 1]
  /\ UNCHANGED <<token, pc, job>>

\* verifyEmail, once the code is accepted: one column is updated.
VerifyEmail(q) ==
  /\ Called(q, "VerifyEmail")
  /\ user.exists
  /\ ~ UserHeld
  /\ user' = [user EXCEPT !.isEmailVerified = TRUE]
  /\ UNCHANGED <<token, pc, job>>

\* loginWithGoogle: the user is found by the Google account, or by the address
\* and then linked, or created.
GoogleRead(q) ==
  /\ Called(q, "GoogleRead")
  /\ \/ /\ user.exists /\ user.google /\ user.isActive
        /\ Goto(q, "IssueTokens", NoJob)
        /\ UNCHANGED user
     \/ /\ user.exists /\ ~ user.google /\ user.isActive
        /\ Goto(q, "GoogleLink", [NoJob EXCEPT !.user =
             [user EXCEPT !.google = TRUE, !.isEmailVerified = TRUE]])
        /\ UNCHANGED user
     \/ /\ ~ user.exists
        /\ user' = [NoUser EXCEPT !.exists = TRUE, !.isActive = TRUE,
                                  !.isEmailVerified = TRUE, !.google = TRUE]
        /\ Goto(q, "IssueTokens", NoJob)
  /\ UNCHANGED token

\* Wrong form of Saved: the password is selected and saved with the row.
SavedWhole(old, row) == row

\* The row that a save of the entity read earlier leaves.
Saved(old, row) == [row EXCEPT !.password = old.password]

Save(q, next) ==
  /\ ~ UserHeld
  /\ user' = Saved(user, job[q].user)
  /\ Goto(q, next, NoJob)
  /\ UNCHANGED token

GoogleLink(q) == pc[q] = "GoogleLink" /\ Save(q, "IssueTokens")

SetStatusRead(q) ==
  /\ Called(q, "SetStatusRead")
  /\ user.exists
  /\ \E b \in BOOLEAN : Goto(q, "SaveUser", [NoJob EXCEPT !.user = [user EXCEPT !.isActive = b]])
  /\ UNCHANGED <<user, token>>

SetRoleRead(q) ==
  /\ Called(q, "SetRoleRead")
  /\ user.exists
  /\ \E r \in Roles : Goto(q, "SaveUser", [NoJob EXCEPT !.user = [user EXCEPT !.role = r]])
  /\ UNCHANGED <<user, token>>

\* updateProfile, setAvatar and removeAvatar save the row that the guard read
\* when the request arrived.
EditSelfRead(q) ==
  /\ Called(q, "EditSelfRead")
  /\ Authenticated
  /\ Goto(q, "SaveUser", [NoJob EXCEPT !.user = user])
  /\ UNCHANGED <<user, token>>

SaveUser(q) == pc[q] = "SaveUser" /\ Save(q, "idle")

=============================================================================
