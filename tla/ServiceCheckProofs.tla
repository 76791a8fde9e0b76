------------------------- MODULE ServiceCheckProofs -------------------------
(***************************************************************************)
(* Proofs about ServiceCheck for any services and exclusions.              *)
(***************************************************************************)
EXTENDS ServiceCheck, TLAPS

LEMMA AnswerType ==
  ASSUME NEW k \in Kind, NEW a \in Answer(k)
  PROVE  /\ a \in AnswerRecord
         /\ a.failed \in {"no", "remote", "error"}
  <1>1. ServiceOf[k] \subseteq Service
    BY ServiceCheckAssumption
  <1>2. <<>> \in Seq(Service)
    OBVIOUS
  <1>3. ASSUME NEW s \in Service PROVE <<s>> \in Seq(Service)
    OBVIOUS
  <1>4. ASSUME NEW s \in Service, NEW t \in Service PROVE <<s, t>> \in Seq(Service)
    OBVIOUS
  <1>5. ASSUME NEW d \in Lists(k) PROVE d \in Seq(Service)
    <2>1. CASE d = <<>>
      BY <1>2, <2>1
    <2>2. CASE \E s \in ServiceOf[k] : d = <<s>>
      BY <1>1, <1>3, <2>2
    <2>3. CASE \E s, t \in ServiceOf[k] : d = <<s, t>>
      BY <1>1, <1>4, <2>3
    <2>4. QED
      BY <2>1, <2>2, <2>3 DEF Lists
  <1>6. CASE \E f \in {"remote", "error"} : a = [failed |-> f, down |-> <<>>]
    BY <1>2, <1>6 DEF AnswerRecord
  <1>7. CASE \E d \in Lists(k) : a = [failed |-> "no", down |-> d]
    BY <1>5, <1>7 DEF AnswerRecord
  <1>8. QED
    BY <1>6, <1>7 DEF Answer

LEMMA InitInductive == Init => Inductive
  <1> SUFFICES ASSUME Init PROVE Inductive
    OBVIOUS
  <1>1. TypeOK
    <2>1. <<>> \in Seq(Service)
      OBVIOUS
    <2>2. Unasked \in AnswerRecord
      BY <2>1 DEF Unasked, AnswerRecord
    <2>3. last \in [Kind -> AnswerRecord]
      BY <2>2 DEF Init
    <2>4. QED
      BY <2>3, ServiceCheckAssumption DEF Init, TypeOK, KindPC, State
  <1>2. QED
    BY <1>1 DEF Init, Inductive, KindInv, Failed, Published, Unasked

(* A goroutine's step keeps what the invariant says of its own kind; the   *)
(* other kinds are untouched.                                              *)
LEMMA KindInductive ==
  ASSUME Inductive, NEW k \in Kind, KindStep(k)
  PROVE  Inductive'
  <1> USE DEF Goto, Retry
  <1>1. kpc[k] \notin {"new", "done"}
    BY DEF KindStep, Fetch, SetUnknown, UpdateStatus, Judge
  <1>2. result = "" /\ result' = "" /\ excluded' = excluded
    BY <1>1 DEF Inductive, Published, KindStep, Fetch, SetUnknown, UpdateStatus, Judge
  <1>3. /\ TypeOK'
        /\ KindInv(k)'
        /\ kpc'[k] # "new"
        /\ \A l \in Kind \ {k} : kpc'[l] = kpc[l] /\ state'[l] = state[l]
                                /\ last'[l] = last[l] /\ i'[l] = i[l]
    <2> USE DEF Inductive, TypeOK, KindInv, Failed, State, KindPC
    <2>1. CASE Fetch(k)
      <3>1. PICK a \in Answer(k) :
              /\ last' = [last EXCEPT ![k] = a]
              /\ \/ /\ a.failed = "no"
                    /\ Goto(k, IF k = "network" THEN "judge" ELSE "update")
                    /\ UNCHANGED state
                 \/ /\ a.failed # "no"
                    /\ state' = [state EXCEPT ![k] =
                                    IF a.failed = "remote" THEN "inactive" ELSE "warning"]
                    /\ Goto(k, IF k = "network" THEN "done" ELSE "unknown")
        BY <2>1 DEF Fetch
      <3>2. a \in AnswerRecord /\ a.failed \in {"no", "remote", "error"}
        BY AnswerType
      <3>3. i' = i
        BY <2>1 DEF Fetch
      <3>4. CASE a.failed = "no"
        BY <1>2, <3>1, <3>2, <3>3, <3>4
      <3>5. CASE a.failed # "no"
        BY <1>2, <3>1, <3>2, <3>3, <3>5
      <3>6. QED
        BY <3>4, <3>5
    <2>2. CASE SetUnknown(k)
      BY <1>2, <2>2 DEF SetUnknown
    <2>3. CASE UpdateStatus(k)
      BY <1>2, <2>3 DEF UpdateStatus
    <2>4. CASE Judge(k)
      <3>1. CheckWarning(k) \in {"", "active", "warning"}
        BY DEF CheckWarning
      <3>2. QED
        BY <1>2, <2>4, <3>1 DEF Judge
    <2>5. QED
      BY <2>1, <2>2, <2>3, <2>4 DEF KindStep
  <1>4. \A l \in Kind : KindInv(l)'
    BY <1>3 DEF Inductive, KindInv, Failed
  <1>5. \A l \in Kind : kpc[l] # "new"
    BY <1>1 DEF Inductive
  <1>6. QED
    <2>1. \A l \in Kind : kpc'[l] # "new"
      BY <1>3, <1>5
    <2>2. ~Published'
      BY <1>2 DEF Published
    <2>3. QED
      BY <1>3, <1>4, <2>1, <2>2 DEF Inductive

LEMMA OtherInductive ==
  ASSUME Inductive,
         NewSynchronizer \/ CheckCluster \/ clusterExceptionMonitor \/ UNCHANGED vars
  PROVE  Inductive'
  <1> USE DEF Inductive, TypeOK, KindInv, KindPC, Failed, Published, State, validateStatusAndErr
  <1>1. CASE NewSynchronizer
    BY <1>1 DEF NewSynchronizer, Kind
  <1>2. CASE CheckCluster
    BY <1>2 DEF CheckCluster
  <1>3. CASE clusterExceptionMonitor
    <2>1. excluded' \in SUBSET (Kind \X Service)
      <3>1. excluded' \in Excludable
        BY <1>3 DEF clusterExceptionMonitor
      <3>2. QED
        BY <3>1, ServiceCheckAssumption, Zenon
    <2>2. QED
      BY <1>3, <2>1 DEF clusterExceptionMonitor
  <1>4. CASE UNCHANGED vars
    BY <1>4 DEF vars
  <1>5. QED
    BY <1>1, <1>2, <1>3, <1>4

(* The inductive invariant of CheckCluster (leader/check.go): at each      *)
(* control point the state of a kind agrees with the last answer about it. *)
THEOREM AlwaysInductive == Spec => []Inductive
  <1>1. Inductive /\ [Next]_vars => Inductive'
    BY KindInductive, OtherInductive DEF Next
  <1>2. QED
    BY <1>1, InitInductive, PTL DEF Spec

(* The cluster is inactive just when it could not be reached or the remote *)
(* server failed at some kind's last try.                                  *)
THEOREM InactiveExact == Spec => []InactiveIffRemote
  <1>1. Inductive => InactiveIffRemote
    BY DEF Inductive, TypeOK, KindInv, InactiveIffRemote, Published, validateStatusAndErr, Kind
  <1>2. QED
    BY <1>1, AlwaysInductive, PTL

(* An active cluster answered for every kind at its last try. *)
THEOREM ActiveIsAnswered == Spec => []ActiveAnswered
  <1>1. Inductive => ActiveAnswered
    <2> SUFFICES ASSUME Inductive, result = "active", NEW k \in Kind
                 PROVE  ~Failed(k)
      BY DEF ActiveAnswered
    <2>1. result = validateStatusAndErr /\ kpc[k] = "done"
      BY DEF Inductive, Published
    <2>2. state[k] # "inactive" /\ state[k] # "warning"
      BY <2>1 DEF validateStatusAndErr
    <2>3. last[k].failed \in {"no", "remote", "error"}
      BY DEF Inductive, TypeOK, AnswerRecord
    <2>4. QED
      BY <2>1, <2>2, <2>3 DEF Inductive, KindInv, Failed
  <1>2. QED
    BY <1>1, AlwaysInductive, PTL

(* A warning about an unavailable service was confirmed by a second look. *)
THEOREM WarningIsConfirmed == Spec => []WarningConfirmed
  <1>1. Inductive => WarningConfirmed
    BY DEF Inductive, KindInv, WarningConfirmed
  <1>2. QED
    BY <1>1, AlwaysInductive, PTL
=============================================================================
