----------------------------- MODULE TokenChains -----------------------------
(***************************************************************************)
(* What the sessions promise: a login opens a chain of refresh tokens, of  *)
(* which the last is current until it is exchanged for its one successor   *)
(* or the session ends.  A chain without a current token is never          *)
(* continued.                                                              *)
(***************************************************************************)
CONSTANTS TokenIds, FamilyIds

VARIABLES
  issued,   \* the tokens of each family
  current   \* the tokens that can be exchanged

chains == <<issued, current>>

Init ==
  /\ issued = [f \in FamilyIds |-> {}]
  /\ current = {}

Unissued == TokenIds \ UNION {issued[f] : f \in FamilyIds}

\* A login.
Open(f) ==
  /\ issued[f] = {}
  /\ \E n \in Unissued :
       /\ issued' = [issued EXCEPT ![f] = {n}]
       /\ current' = current \cup {n}

\* The current token t of family f is exchanged for a new one.
Exchange(f, t) ==
  /\ t \in issued[f] \cap current
  /\ \E n \in Unissued :
       /\ issued' = [issued EXCEPT ![f] = @ \cup {n}]
       /\ current' = (current \ {t}) \cup {n}

\* The tokens in S are revoked or deleted.
End(S) ==
  /\ current' = current \ S
  /\ UNCHANGED issued

Next ==
  \/ \E f \in FamilyIds : Open(f) \/ \E t \in TokenIds : Exchange(f, t)
  \/ \E S \in SUBSET TokenIds : End(S)

Spec == Init /\ [][Next]_chains

-----------------------------------------------------------------------------
(* What follows from the promise. *)

\* Families share no token, and each has one current token at most.
ChainsOK ==
  /\ issued \in [FamilyIds -> SUBSET TokenIds]
  /\ current \subseteq UNION {issued[f] : f \in FamilyIds}
  /\ \A f, g \in FamilyIds : f # g => issued[f] \cap issued[g] = {}
  /\ \A f \in FamilyIds : \A t, o \in issued[f] \cap current : t = o

\* A token that is no longer current never is again, and a family that has none
\* issues no other token.
ChainsEnd ==
  [][ \A f \in FamilyIds :
        /\ \A t \in issued[f] : t \in current' => t \in current
        /\ issued[f] # {} /\ issued[f] \cap current = {} => issued'[f] = issued[f] ]_chains

=============================================================================
