----------------------------- MODULE RunContract ------------------------------
(***************************************************************************)
(* What the ingest pipeline promises to the users of a document, with no   *)
(* workers, leases, retries or sessions in sight: a submitted run ends     *)
(* once, in success or failure; a document serves the corpus of its last   *)
(* successful run, and what it serves changes in that one step only        *)
(* (SYSTEM_PLAN.md, "Promotion rule").                                     *)
(***************************************************************************)
EXTENDS Naturals, TLAPS

CONSTANTS Runs, Documents, DocumentOf, None

VARIABLES
    outcome,     \* per run: absent, pending, succeeded or failed
    served,      \* per document: the run whose corpus retrieval joins to
    published    \* per document: the content of that corpus

vars == <<outcome, served, published>>

(* One run per document is under way at a time.                            *)
Submit(r) ==
    /\ outcome[r] = "absent"
    /\ \A s \in Runs : DocumentOf[s] = DocumentOf[r] => outcome[s] # "pending"
    /\ outcome' = [outcome EXCEPT ![r] = "pending"]
    /\ UNCHANGED <<served, published>>

(* The new corpus, whatever it holds, replaces an older one.               *)
Succeed(r) ==
    LET d == DocumentOf[r]
    IN  /\ outcome[r] = "pending"
        /\ served[d] # None => served[d] < r
        /\ outcome' = [outcome EXCEPT ![r] = "succeeded"]
        /\ served' = [served EXCEPT ![d] = r]
        /\ published' = [published EXCEPT ![d] = published'[d]]

(* A sweep of stale leases may give up several runs in one commit.         *)
Fail(rs) ==
    /\ \A r \in rs : outcome[r] = "pending"
    /\ outcome' = [r \in Runs |-> IF r \in rs THEN "failed" ELSE outcome[r]]
    /\ UNCHANGED <<served, published>>

Init ==
    /\ outcome = [r \in Runs |-> "absent"]
    /\ served = [d \in Documents |-> None]
    /\ published = [d \in Documents |-> None]

Next ==
    \/ \E r \in Runs : Submit(r) \/ Succeed(r)
    \/ \E rs \in SUBSET Runs : Fail(rs)

Spec == Init /\ [][Next]_vars

-------------------------------------------------------------------------------
(* What users may rely on                                                  *)

ConstantsSound ==
    /\ Runs \subseteq Nat
    /\ DocumentOf \in [Runs -> Documents]
    /\ None \notin Runs

Typed ==
    /\ outcome \in [Runs -> {"absent", "pending", "succeeded", "failed"}]
    /\ served \in [Documents -> Runs \cup {None}]

(* A document serves the newest of its runs that succeeded, and it serves  *)
(* one as soon as there is any.                                            *)
ServesLastSuccess ==
    /\ \A d \in Documents : served[d] # None =>
         DocumentOf[served[d]] = d /\ outcome[served[d]] = "succeeded"
    /\ \A r \in Runs : outcome[r] = "succeeded" =>
         served[DocumentOf[r]] # None /\ r <= served[DocumentOf[r]]

Ended(r) == outcome[r] \in {"succeeded", "failed"}

(* A run ends once: no failure is forgotten and no success revoked.        *)
OutcomesStand == [][\A r \in Runs : Ended(r) => outcome'[r] = outcome[r]]_vars

ContractInv == Typed /\ ServesLastSuccess

Keeps == ContractInv' /\ \A r \in Runs : Ended(r) => outcome'[r] = outcome[r]

LEMMA ContractSubmit ==
    ASSUME ConstantsSound, ContractInv, NEW r \in Runs, Submit(r)
    PROVE  Keeps
BY DEF ConstantsSound, ContractInv, Typed, ServesLastSuccess, Submit, Keeps, Ended

LEMMA ContractSucceed ==
    ASSUME ConstantsSound, ContractInv, NEW r \in Runs, Succeed(r)
    PROVE  Keeps
<1> DEFINE d == DocumentOf[r]
<1>1. /\ d \in Documents /\ outcome[r] = "pending" /\ r \in Nat /\ r # None
      /\ served[d] # None => served[d] < r
  BY DEF ConstantsSound, Succeed
<1>2. /\ outcome' \in [Runs -> {"absent", "pending", "succeeded", "failed"}]
      /\ outcome'[r] = "succeeded" /\ \A s \in Runs \ {r} : outcome'[s] = outcome[s]
  BY DEF Succeed, ContractInv, Typed
<1>3. /\ served' \in [Documents -> Runs \cup {None}]
      /\ served'[d] = r /\ \A e \in Documents \ {d} : served'[e] = served[e]
  BY <1>1 DEF Succeed, ContractInv, Typed
<1>4. ASSUME NEW e \in Documents, served'[e] # None
      PROVE  DocumentOf[served'[e]] = e /\ outcome'[served'[e]] = "succeeded"
  <2>1. CASE e = d
    BY <1>2, <1>3, <2>1
  <2>2. CASE e # d
    <3>1. served[e] \in Runs /\ DocumentOf[served[e]] = e /\ outcome[served[e]] = "succeeded"
          /\ served'[e] = served[e]
      BY <1>3, <1>4, <2>2 DEF ContractInv, Typed, ServesLastSuccess
    <3> QED BY <1>1, <1>2, <3>1
  <2> QED BY <2>1, <2>2
<1>5. ASSUME NEW s \in Runs, outcome'[s] = "succeeded"
      PROVE  served'[DocumentOf[s]] # None /\ s <= served'[DocumentOf[s]]
  <2>1. DocumentOf[s] \in Documents /\ s \in Nat
    BY DEF ConstantsSound
  <2>2. CASE s = r
    BY <1>1, <1>3, <2>2
  <2>3. CASE s # r
    <3>1. outcome[s] = "succeeded"
      BY <1>2, <1>5, <2>3
    <3>2. served[DocumentOf[s]] # None /\ s <= served[DocumentOf[s]]
      BY <3>1 DEF ContractInv, ServesLastSuccess
    <3>3. served[DocumentOf[s]] \in Nat
      BY <2>1, <3>2 DEF ContractInv, Typed, ConstantsSound
    <3> QED BY <1>1, <1>3, <2>1, <3>2, <3>3
  <2> QED BY <2>2, <2>3
<1>6. \A s \in Runs : Ended(s) => outcome'[s] = outcome[s]
  BY <1>1, <1>2 DEF Ended
<1> HIDE DEF d
<1> QED BY <1>2, <1>3, <1>4, <1>5, <1>6 DEF Keeps, ContractInv, Typed, ServesLastSuccess

LEMMA ContractFail ==
    ASSUME ConstantsSound, ContractInv, NEW rs \in SUBSET Runs, Fail(rs)
    PROVE  Keeps
<1>1. /\ \A r \in rs : outcome[r] = "pending"
      /\ \A r \in Runs : outcome'[r] = IF r \in rs THEN "failed" ELSE outcome[r]
      /\ served' = served
  BY DEF Fail
<1>2. outcome' \in [Runs -> {"absent", "pending", "succeeded", "failed"}]
  BY DEF Fail, ContractInv, Typed
<1>3. \A r \in Runs : outcome[r] = "succeeded" <=> outcome'[r] = "succeeded"
  BY <1>1
<1>4. \A d \in Documents : served[d] # None => served[d] \in Runs
  BY DEF ContractInv, Typed
<1>5. ServesLastSuccess'
  BY <1>1, <1>3, <1>4 DEF ContractInv, ServesLastSuccess
<1>6. \A r \in Runs : Ended(r) => outcome'[r] = outcome[r]
  BY <1>1 DEF Ended
<1> QED BY <1>1, <1>2, <1>5, <1>6 DEF Keeps, ContractInv, Typed

LEMMA ContractInit == ConstantsSound /\ Init => ContractInv
BY DEF ConstantsSound, Init, ContractInv, Typed, ServesLastSuccess

LEMMA ContractNext ==
    ASSUME ConstantsSound, ContractInv, [Next]_vars
    PROVE  Keeps
<1>1. CASE UNCHANGED vars
  BY <1>1 DEF vars, Keeps, ContractInv, Typed, ServesLastSuccess
<1> QED BY <1>1, ContractSubmit, ContractSucceed, ContractFail DEF Next

LEMMA ContractInductive == ConstantsSound => (Spec => []ContractInv)
<1> SUFFICES ASSUME ConstantsSound PROVE Spec => []ContractInv
  OBVIOUS
<1>1. ContractInv /\ [Next]_vars => ContractInv'
  BY ContractNext DEF Keeps
<1> QED BY <1>1, ContractInit, PTL DEF Spec

(* Whoever implements the contract serves the last success of each         *)
(* document.                                                               *)
THEOREM LastSuccessServed == ConstantsSound => (Spec => []ServesLastSuccess)
<1> SUFFICES ASSUME ConstantsSound PROVE Spec => []ServesLastSuccess
  OBVIOUS
<1>1. ContractInv => ServesLastSuccess
  BY DEF ContractInv
<1> QED BY <1>1, ContractInductive, PTL

(* Whoever implements the contract never changes how a run has ended.      *)
THEOREM OutcomesFinal == ConstantsSound => (Spec => OutcomesStand)
<1> SUFFICES ASSUME ConstantsSound PROVE Spec => OutcomesStand
  OBVIOUS
<1> DEFINE Stand == \A r \in Runs : Ended(r) => outcome'[r] = outcome[r]
<1>1. ContractInv /\ [Next]_vars => [Stand]_vars
  BY ContractNext DEF Keeps
<1> QED BY <1>1, ContractInductive, PTL DEF Spec, OutcomesStand

===============================================================================
