-------------------------- MODULE TokenChainsProofs --------------------------
(***************************************************************************)
(* What TokenChains promises in its steps, said as properties of its       *)
(* states and of pairs of them.                                            *)
(***************************************************************************)
EXTENDS TokenChains, TLAPS

LEMMA ChainsStep ==
  ASSUME ChainsOK, [Next]_chains
  PROVE  ChainsOK'
<1>1. ASSUME NEW f \in FamilyIds, Open(f) PROVE ChainsOK'
  <2>1. PICK n \in Unissued :
          /\ issued' = [issued EXCEPT ![f] = {n}]
          /\ current' = current \cup {n}
    BY <1>1 DEF Open
  <2>2. n \in TokenIds /\ \A g \in FamilyIds : n \notin issued[g]
    BY DEF Unissued
  <2>3. issued[f] = {}
    BY <1>1 DEF Open
  <2>4. issued'[f] = {n} /\ \A g \in FamilyIds \ {f} : issued'[g] = issued[g]
    BY <2>1 DEF ChainsOK
  <2>5. issued' \in [FamilyIds -> SUBSET TokenIds]
    BY <2>1, <2>2 DEF ChainsOK
  <2>6. n \notin current
    BY <2>2 DEF ChainsOK
  <2> QED
    BY <2>1, <2>2, <2>3, <2>4, <2>5, <2>6 DEF ChainsOK
<1>2. ASSUME NEW f \in FamilyIds, NEW t \in TokenIds, Exchange(f, t) PROVE ChainsOK'
  <2>1. PICK n \in Unissued :
          /\ issued' = [issued EXCEPT ![f] = @ \cup {n}]
          /\ current' = (current \ {t}) \cup {n}
    BY <1>2 DEF Exchange
  <2>2. n \in TokenIds /\ \A g \in FamilyIds : n \notin issued[g]
    BY DEF Unissued
  <2>3. issued'[f] = issued[f] \cup {n} /\ \A g \in FamilyIds \ {f} : issued'[g] = issued[g]
    BY <2>1 DEF ChainsOK
  <2>4. issued' \in [FamilyIds -> SUBSET TokenIds]
    BY <2>1, <2>2 DEF ChainsOK
  <2>5. issued[f] \cap current = {t} /\ n \notin current
    BY <1>2, <2>2 DEF Exchange, ChainsOK
  <2> QED
    BY <2>1, <2>2, <2>3, <2>4, <2>5 DEF ChainsOK
<1>3. ASSUME NEW S \in SUBSET TokenIds, End(S) PROVE ChainsOK'
  BY <1>3 DEF End, ChainsOK
<1>4. CASE UNCHANGED chains
  BY <1>4 DEF chains, ChainsOK
<1> QED
  BY <1>1, <1>2, <1>3, <1>4 DEF Next

\* A family has one current token at most, and no token belongs to two.
THEOREM ChainsHaveOneEnd == Spec => []ChainsOK
<1>1. Init => ChainsOK
  BY DEF Init, ChainsOK
<1> QED
  BY <1>1, ChainsStep, PTL DEF Spec

\* What was exchanged or revoked is never accepted again, and a session that is
\* over gets no further token.
THEOREM ChainsStayOver == Spec => ChainsEnd
<1> DEFINE Kept ==
      \A f \in FamilyIds :
        /\ \A t \in issued[f] : t \in current' => t \in current
        /\ issued[f] # {} /\ issued[f] \cap current = {} => issued'[f] = issued[f]
<1>1. ASSUME ChainsOK, [Next]_chains PROVE Kept
  <2>1. ASSUME NEW f \in FamilyIds, Open(f) PROVE Kept
    BY <1>1, <2>1 DEF Open, Unissued, ChainsOK
  <2>2. ASSUME NEW f \in FamilyIds, NEW t \in TokenIds, Exchange(f, t) PROVE Kept
    <3>1. PICK n \in Unissued :
            /\ issued' = [issued EXCEPT ![f] = @ \cup {n}]
            /\ current' = (current \ {t}) \cup {n}
      BY <2>2 DEF Exchange
    <3>2. \A g \in FamilyIds : n \notin issued[g]
      BY DEF Unissued
    <3>3. issued[f] \cap current # {} /\ \A g \in FamilyIds \ {f} : issued'[g] = issued[g]
      BY <1>1, <2>2, <3>1 DEF Exchange, ChainsOK
    <3> QED
      BY <3>1, <3>2, <3>3
  <2>3. ASSUME NEW S \in SUBSET TokenIds, End(S) PROVE Kept
    BY <2>3 DEF End
  <2>4. CASE UNCHANGED chains
    BY <2>4 DEF chains
  <2> QED
    BY <1>1, <2>1, <2>2, <2>3, <2>4 DEF Next
<1>2. ChainsOK /\ [Next]_chains => [Kept]_chains
  BY <1>1
<1> QED
  BY <1>2, ChainsHaveOneEnd, PTL DEF Spec, ChainsEnd

=============================================================================
