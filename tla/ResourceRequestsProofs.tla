---------------------- MODULE ResourceRequestsProofs ----------------------
(***************************************************************************)
(* Of every request, every catalog, and any number of faults: ErrorStands, *)
(* which holds whatever the programs are; TypeOK, SparesOthers and         *)
(* NotFoundMeansGone, which rest on what CloudProgramsProofs shows of the  *)
(* programs and on the inductive invariant Inductive; and Promised, with   *)
(* SuccessMeansDone, which rests on Inductive and on what every program    *)
(* sees to (Tended in CloudProgramsProofs).                                *)
(***************************************************************************)
EXTENDS CloudProgramsProofs

\* What a step does to the result and the phase, whichever way it goes on.
Onward ==
    \/ UNCHANGED <<phase, result>>
    \/ Leave
    \/ phase = "steps" /\ phase' = "undo"

\* However the code reacts to an error, it goes on in one of three ways.
LEMMA ReactGoesOn ==
  ASSUME NEW s, NEW e, React(s, e)
  PROVE  Onward
  <1>1. ASSUME NEW n, Advance(n)
        PROVE  Onward
    BY <1>1 DEF Advance, Onward
  <1>2. Succeed(s) => Onward
    BY <1>1 DEF Succeed
  <1>3. Fail(e) => Onward
    BY DEF Fail, Enter, Onward
  <1>4. Leave => Onward
    BY DEF Onward
  <1>5. React(s, e) => Succeed(s) \/ Advance(1) \/ Leave \/ Fail(e)
    BY DEF React
  <1>6. QED
    BY <1>1, <1>2, <1>3, <1>4, <1>5

LEMMA SucceedGoesOn ==
  ASSUME NEW s, Succeed(s)
  PROVE  Onward
  BY DEF Succeed, Advance, Onward

\* Going on keeps the invariant and what is decided.
LEMMA OnwardKeeps ==
  ASSUME Undecided, Onward
  PROVE  Undecided' /\ (result # "none" => result' = result)
  <1>1. CASE UNCHANGED <<phase, result>>
    BY <1>1 DEF Undecided
  <1>2. CASE Leave
    BY <1>2 DEF Undecided, Leave, Enter
  <1>3. CASE phase = "steps" /\ phase' = "undo"
    BY <1>3 DEF Undecided
  <1>4. QED
    BY <1>1, <1>2, <1>3 DEF Onward

\* One step of the system, one case for each action.
LEMMA StepKeeps ==
  ASSUME Undecided, [Next]_vars
  PROVE  Undecided' /\ (result # "none" => result' = result)
  <1>1. CASE Validate
    BY <1>1 DEF Validate, Enter, Undecided
  <1>2. CASE Connected
    BY <1>2 DEF Connected, Enter, Undecided
  <1>3. CASE NotConnected
    BY <1>3 DEF NotConnected, Enter, Undecided
  <1>4. CASE Convert
    BY <1>4 DEF Convert, Enter, Undecided
  <1>5. CASE ConvertFails
    BY <1>5 DEF ConvertFails, Enter, Undecided
  <1>6. CASE Settle \/ SettleBadly \/ Meddle \/ UNCHANGED vars
    <2>1. UNCHANGED <<phase, result>>
      BY <1>6 DEF Settle, SettleBadly, Meddle, vars
    <2>2. QED
      BY <2>1, OnwardKeeps DEF Onward
  <1>7. ASSUME NEW s,
               \/ Finish(s) \/ NotFoundEndpoint(s) \/ Refused(s) \/ Judged(s)
               \/ Skip(s) \/ Polled(s) \/ TimeLimit(s) \/ Denied(s) \/ AnswerLost(s)
               \/ Misjudged(s) \/ PollFails(s)
        PROVE  Onward
    <2>1. CASE Finish(s)
      BY <2>1 DEF Finish, Onward
    <2>2. CASE NotFoundEndpoint(s)
      BY <2>2, ReactGoesOn DEF NotFoundEndpoint
    <2>3. CASE Refused(s)
      BY <2>3, ReactGoesOn DEF Refused
    <2>4. CASE Judged(s)
      BY <2>4, SucceedGoesOn DEF Judged
    <2>5. CASE Skip(s)
      BY <2>5 DEF Skip, Advance, Onward
    <2>6. CASE Polled(s)
      BY <2>6, ReactGoesOn, SucceedGoesOn DEF Polled
    <2>7. CASE TimeLimit(s)
      BY <2>7, ReactGoesOn DEF TimeLimit
    <2>8. CASE Denied(s)
      BY <2>8, ReactGoesOn DEF Denied
    <2>9. CASE AnswerLost(s)
      BY <2>9, ReactGoesOn DEF AnswerLost
    <2>10. CASE Misjudged(s)
      BY <2>10, ReactGoesOn DEF Misjudged
    <2>11. CASE PollFails(s)
      BY <2>11, ReactGoesOn DEF PollFails
    <2>12. QED
      BY <1>7, <2>1, <2>2, <2>3, <2>4, <2>5, <2>6, <2>7, <2>8, <2>9, <2>10, <2>11
  <1>8. ASSUME NEW s, Accepted(s)
        PROVE  Onward
    BY <1>8, SucceedGoesOn DEF Accepted, Onward
  <1>9. QED
    BY <1>1, <1>2, <1>3, <1>4, <1>5, <1>6, <1>7, <1>8, OnwardKeeps DEF Next, Work, Faults

\* Whatever fails while a request is being cleaned up, the caller is told of the
\* first error (the deferred functions of openstack.go).
THEOREM FirstErrorStands == Spec => ErrorStands
  <1>1. Init => Undecided
    BY DEF Init, Undecided
  <1>2. Undecided /\ [Next]_vars => Undecided'
    BY StepKeeps
  <1>3. Undecided /\ [Next]_vars => [result # "none" => result' = result]_vars
    BY StepKeeps
  <1>4. QED
    BY <1>1, <1>2, <1>3, PTL DEF Spec, ErrorStands

-----------------------------------------------------------------------------
(* The step that is due *)

\* The program of a request, and that of one that asks for nothing new.
LEMMA ProgramOfRequest ==
  ASSUME TypeOK
  PROVE  /\ program \in Requested(Steps)
         /\ req.asked = {} => program \in Requested(Gentle)
  <1>1. req \in Requests /\ seen \subseteq req.objects
    BY DEF TypeOK
  <1>2. /\ req.op \in Creations \cup Alterations \cup Readings
        /\ req.n \in Nat
        /\ req.objects \subseteq Objects /\ IsFiniteSet(req.objects)
        /\ req.op \in Creations => req.asked # {}
    BY <1>1, RequestsAssumption
  <1>3. Answers(seen)
    <2>1. seen \in SUBSET req.objects
      BY <1>1
    <2>2. IsFiniteSet(seen)
      BY <1>2, <2>1, FS_Subset
    <2>3. QED
      BY <1>2, <2>1, <2>2 DEF Answers
  <1>4. CASE req.op \in Creations
    BY <1>2, <1>3, <1>4, CreatingRequests DEF program
  <1>5. CASE req.op \in Alterations \cup Readings
    <2>1. program \in Requested(Gentle)
      BY <1>2, <1>3, <1>5, AlteringRequests, ReadingRequests DEF program
    <2>2. QED
      BY <2>1, GentleIsOrderly
  <1>6. QED
    BY <1>2, <1>4, <1>5

LEMMA StepDue ==
  ASSUME TypeOK, Due # <<>>
  PROVE  /\ Due \in Steps
         /\ req.asked = {} => Due \in Gentle
         /\ Due.obj \in req.objects \cup {I!C!Cloud}
  <1> DEFINE part == CASE phase = "steps" -> program.steps
                       [] phase = "undo" -> program.undo
                       [] phase = "final" -> program.final
                       [] phase = "back" -> program.back
                       [] OTHER -> <<>>
  <1>1. pc \in DOMAIN part /\ Due = part[pc]
    BY DEF Due
  <1>2. phase \in {"steps", "undo", "final", "back"}
    BY <1>1
  <1>3. ASSUME NEW S, program \in Requested(S)
        PROVE  part[pc] \in S
    <2>1. part \in Seq(S)
      BY <1>2, <1>3 DEF Requested
    <2> HIDE DEF part
    <2>2. QED
      BY <1>1, <2>1
  <1>4. Within(part, req.objects)
    <2>1. req \in Requests /\ seen \in SUBSET req.objects
      BY DEF TypeOK
    <2>2. /\ Within(program.steps, req.objects) /\ Within(program.undo, req.objects)
          /\ Within(program.final, req.objects) /\ Within(program.back, req.objects)
      BY <2>1, ObjectsAssumption DEF program
    <2>3. QED
      BY <1>2, <2>2
  <1> HIDE DEF part
  <1>5. QED
    BY <1>1, <1>3, <1>4, ProgramOfRequest DEF Within

\* A step that writes, or that is waited for, is about an object of the request.
LEMMA WrittenObject ==
  ASSUME NEW s \in Steps, s.obj \in req.objects \cup {I!C!Cloud},
         s.call.effect \in {"make", "change", "remove"} \/ s.call.check # T!NoCheck
  PROVE  s.obj \in Ours /\ s.obj \in req.objects /\ s.obj # I!C!Cloud
  <1>1. s.obj \in Ours
    BY DEF Steps
  <1>2. s.obj # I!C!Cloud
    BY <1>1 DEF Ours, I!C!Cloud
  <1>3. QED
    BY <1>1, <1>2

-----------------------------------------------------------------------------
(* How a phase goes on *)

\* The control state after a step, and the only result that it may have set.
Goes(e) ==
    /\ phase' \in Phases /\ pc' \in Nat \ {0} /\ waiting' = FALSE
    /\ result' = result \/ (result' = e /\ e # "ok")

LEMMA LeaveGoes ==
  ASSUME Leave, NEW e
  PROVE  Goes(e)
  BY DEF Leave, Enter, Goes, Phases

LEMMA AdvanceGoes ==
  ASSUME TypeOK, NEW n \in {1, 2}, Advance(n), NEW e
  PROVE  Goes(e)
  BY DEF Advance, Goes, TypeOK

LEMMA SucceedGoes ==
  ASSUME TypeOK, NEW s, Succeed(s), NEW e
  PROVE  Goes(e)
  BY AdvanceGoes DEF Succeed

LEMMA ReactGoes ==
  ASSUME TypeOK, NEW s, NEW e, React(s, e)
  PROVE  Goes(e)
  <1>1. CASE e = "ok"
    <2>1. Succeed(s)
      BY <1>1 DEF React
    <2>2. QED
      BY <2>1, SucceedGoes
  <1>2. CASE e # "ok"
    <2>1. Advance(1) \/ Leave \/ Fail(e)
      BY <1>2 DEF React
    <2>2. Fail(e) => Goes(e)
      <3>1. CASE phase = "steps"
        BY <1>2, <3>1 DEF Fail, Enter, Goes, Phases
      <3>2. CASE phase # "steps"
        BY <3>2, LeaveGoes DEF Fail
      <3>3. QED
        BY <3>1, <3>2
    <2>3. QED
      BY <2>1, <2>2, LeaveGoes, AdvanceGoes
  <1>3. QED
    BY <1>1, <1>2

-----------------------------------------------------------------------------
(* What the cloud does *)

\* What a change of the cloud keeps.
CloudOK ==
    /\ cloud' \in [req.objects -> T!States]
    /\ \A x \in req.others : cloud'[x] = cloud[x]
    /\ req.asked = {} => \A x \in req.objects : cloud[x] = "absent" => cloud'[x] = "absent"

LEMMA OthersAreForeign ==
  ASSUME TypeOK, NEW x \in req.others
  PROVE  x \in req.objects /\ x \notin Ours
  BY RequestsAssumption DEF TypeOK, Ours

\* The step writes to what is the request's own, and if nothing is asked for it
\* finds there what it writes to.
LEMMA EffectKeeps ==
  ASSUME TypeOK, NEW s \in Steps, s.obj \in req.objects \cup {I!C!Cloud},
         req.asked = {} => s \in Gentle,
         Status(s.call, s.obj) = 200, cloud' = Effect(s)
  PROVE  CloudOK
  <1> DEFINE call == s.call
             x == s.obj
             later == call.check # T!NoCheck
  <1>1. cloud \in [req.objects -> T!States] /\ DOMAIN cloud = req.objects
    BY DEF TypeOK
  <1>2. {"absent", "building", "changing", "leaving", "ready"} \subseteq T!States
    BY DEF T!States
  <1>3. \A y \in req.others : y \in req.objects /\ y \notin Ours
    BY OthersAreForeign
  <1>4. CASE call.effect = "make"
    <2>1. x \in Ours /\ ComesWith(x, lacking) \subseteq Ours
      BY <1>4, WrittenObject, OwnFollow
    <2>2. req.asked # {}
      BY <1>4 DEF Gentle
    <2>3. cloud' = [y \in req.objects |->
                      IF y = x THEN (IF later THEN "building" ELSE "ready")
                      ELSE IF y \in ComesWith(x, lacking) THEN "ready" ELSE cloud[y]]
      BY <1>1, <1>4 DEF Effect
    <2>4. QED
      BY <1>1, <1>2, <1>3, <2>1, <2>2, <2>3 DEF CloudOK
  <1>5. CASE call.effect = "change"
    <2>1. x \in Ours /\ x # I!C!Cloud
      BY <1>5, WrittenObject
    <2>2. s.adds \subseteq Ours /\ s.drops \subseteq Ours
      BY DEF Steps
    <2>3. Here(x)
      BY <1>5, <2>1 DEF Status
    <2>4. req.asked = {} => s.adds = {}
      BY DEF Gentle
    <2>5. cloud' = [y \in req.objects |->
                      IF y = x /\ later THEN "changing"
                      ELSE IF y \in s.adds THEN "ready"
                      ELSE IF y \in s.drops THEN "absent" ELSE cloud[y]]
      BY <1>1, <1>5 DEF Effect
    <2>6. cloud' \in [req.objects -> T!States]
      BY <1>1, <1>2, <2>5
    <2>7. \A y \in req.others : cloud'[y] = cloud[y]
      BY <1>3, <2>1, <2>2, <2>5
    <2>8. req.asked = {} => \A y \in req.objects : cloud[y] = "absent" => cloud'[y] = "absent"
      BY <2>3, <2>4, <2>5 DEF Here
    <2>9. QED
      BY <2>6, <2>7, <2>8 DEF CloudOK
  <1>6. CASE call.effect = "remove"
    <2>1. x \in Ours /\ x # I!C!Cloud /\ GoesWith(x) \subseteq Ours
      BY <1>6, WrittenObject, OwnFollow
    <2>2. Here(x)
      BY <1>6, <2>1 DEF Status
    <2>3. CASE later
      <3>1. cloud' = [cloud EXCEPT ![x] = "leaving"]
        BY <1>6, <2>3 DEF Effect
      <3>2. QED
        BY <1>1, <1>2, <1>3, <2>1, <2>2, <3>1 DEF CloudOK, Here
    <2>4. CASE ~later
      <3>1. cloud' = [y \in req.objects |-> IF y \in {x} \cup GoesWith(x) THEN "absent"
                                            ELSE cloud[y]]
        BY <1>1, <1>6, <2>4 DEF Effect, Absent
      <3>2. QED
        BY <1>1, <1>2, <1>3, <2>1, <3>1 DEF CloudOK
    <2>5. QED
      BY <2>3, <2>4
  <1>7. CASE call.effect \notin {"make", "change", "remove"}
    <2>1. cloud' = cloud
      BY <1>7 DEF Effect
    <2>2. QED
      BY <1>1, <1>3, <2>1 DEF CloudOK
  <1>8. QED
    BY <1>4, <1>5, <1>6, <1>7

-----------------------------------------------------------------------------
(* The steps *)

Gone == \E x \in req.objects : cloud[x] = "absent"

\* The inductive invariant, whatever a step does.
LEMMA Preserved ==
  ASSUME Inductive, UNCHANGED <<req, lacking>>, CloudOK,
         phase' \in Phases, pc' \in Nat \ {0}, waiting' \in BOOLEAN, result' \in Results,
         waiting' => (Due # <<>>)',
         seen' \subseteq req.objects, known' \subseteq req.objects,
         faults' \in 0..MaxFaults, blame' \subseteq Blames,
         (result' = "NotFound" /\ req.asked = {}) => Gone
  PROVE  Inductive'
  <1>1. TypeOK'
    BY DEF Inductive, TypeOK, CloudOK
  <1>2. (\A x \in req.others : cloud[x] = "ready")'
    BY DEF Inductive, CloudOK
  <1>3. ((result = "NotFound" /\ req.asked = {}) =>
            \E x \in req.objects : cloud[x] = "absent")'
    BY DEF Gone, CloudOK
  <1>4. QED
    BY <1>1, <1>2, <1>3 DEF Inductive

LEMMA SameCloud ==
  ASSUME TypeOK, cloud' = cloud
  PROVE  CloudOK
  BY DEF TypeOK, CloudOK

\* A fault that is left, and one less.
LEMMA FaultTyped ==
  ASSUME TypeOK, NEW b \in SUBSET Blames, Fault(b)
  PROVE  faults' \in 0..MaxFaults /\ blame' \subseteq Blames
  BY MaxFaultsAssumption DEF TypeOK, Fault

LEMMA MendingTyped == Mending \in SUBSET Blames
  BY DEF Mending, Blames

\* A step that goes on with the error e, if any, and leaves the rest alone.
LEMMA GoesPreserves ==
  ASSUME Inductive, NEW e \in Errors \cup {"none"}, Goes(e), CloudOK,
         UNCHANGED <<req, lacking>>,
         seen' \subseteq req.objects, known' \subseteq req.objects,
         faults' \in 0..MaxFaults, blame' \subseteq Blames,
         (e = "NotFound" /\ req.asked = {}) => Gone
  PROVE  Inductive'
  <1>1. result \in Results /\ result' \in Results
    BY DEF Inductive, TypeOK, Goes, Errors, Results
  <1>2. (result' = "NotFound" /\ req.asked = {}) => Gone
    BY DEF Inductive, Goes, Gone
  <1>3. QED
    BY <1>1, <1>2, Preserved DEF Goes

Steady == UNCHANGED <<req, lacking, cloud, seen, known>>

LEMMA SteadyPreserves ==
  ASSUME Inductive, NEW e \in Errors \cup {"none"}, Goes(e), Steady,
         faults' \in 0..MaxFaults, blame' \subseteq Blames,
         (e = "NotFound" /\ req.asked = {}) => Gone
  PROVE  Inductive'
  <1>1. TypeOK
    BY DEF Inductive
  <1>2. CloudOK /\ UNCHANGED <<req, lacking>>
    BY <1>1, SameCloud DEF Steady
  <1>3. seen' \subseteq req.objects /\ known' \subseteq req.objects
    BY <1>1 DEF Steady, TypeOK
  <1>4. QED
    BY <1>2, <1>3, GoesPreserves

LEMMA OutsideSteps ==
  ASSUME Inductive, Validate \/ Connected \/ NotConnected \/ Convert \/ ConvertFails
  PROVE  Inductive' /\ cloud' = cloud
  <1>1. TypeOK /\ blame \subseteq Blames /\ faults \in 0..MaxFaults
    BY DEF Inductive, TypeOK
  <1>2. ASSUME NEW p \in Phases, Enter(p)
        PROVE  phase' \in Phases /\ pc' \in Nat \ {0} /\ waiting' = FALSE
    BY <1>2 DEF Enter
  <1>3. {"connect", "end", "steps", "back"} \subseteq Phases
    BY DEF Phases
  <1>4. /\ Steady
        /\ phase' \in Phases /\ pc' \in Nat \ {0} /\ waiting' = FALSE
        /\ result' \in {result, "BadRequest", "UnAuthenticated", "ok", "Unknown"}
    BY <1>2, <1>3 DEF Steady, Validate, Connected, NotConnected, Convert, ConvertFails
  <1>5. faults' \in 0..MaxFaults /\ blame' \subseteq Blames
    <2>1. CASE Validate \/ Connected \/ Convert
      BY <1>1, <2>1 DEF Validate, Connected, Convert
    <2>2. CASE NotConnected
      BY <1>1, <2>2, FaultTyped DEF NotConnected
    <2>3. CASE ConvertFails
      BY <1>1, <2>3, FaultTyped DEF ConvertFails, Blames
    <2>4. QED
      BY <2>1, <2>2, <2>3
  <1>6. CloudOK
    BY <1>1, <1>4, SameCloud DEF Steady
  <1>7. result' \in Results
    BY <1>1, <1>4 DEF TypeOK, Results
  <1>8. (result' = "NotFound" /\ req.asked = {}) => Gone
    BY <1>4 DEF Inductive, Gone
  <1>9. seen' \subseteq req.objects /\ known' \subseteq req.objects
    BY <1>1, <1>4 DEF Steady, TypeOK
  <1>10. QED
    BY <1>4, <1>5, <1>6, <1>7, <1>8, <1>9, Preserved DEF Steady

\* The end of a phase, and the steps that send nothing.
LEMMA SilentSteps ==
  ASSUME Inductive, NEW s,
         Finish(s) \/ NotFoundEndpoint(s) \/ Judged(s) \/ Misjudged(s) \/ Skip(s)
  PROVE  Inductive' /\ cloud' = cloud
  <1>1. TypeOK /\ blame \subseteq Blames /\ faults \in 0..MaxFaults
    BY DEF Inductive, TypeOK
  <1>2. "none" \in Errors \cup {"none"} /\ "Unknown" \in Errors /\ "NotFoundEndpoint" \in Errors
    BY DEF Errors
  <1>3. CASE Finish(s)
    <2>1. Goes("none")
      BY <1>3, LeaveGoes DEF Finish
    <2>2. QED
      BY <1>1, <1>2, <1>3, <2>1, SteadyPreserves DEF Finish, Steady
  <1>4. CASE NotFoundEndpoint(s)
    <2>1. Goes("NotFoundEndpoint")
      BY <1>1, <1>4, ReactGoes DEF NotFoundEndpoint
    <2>2. QED
      BY <1>1, <1>2, <1>4, <2>1, SteadyPreserves DEF NotFoundEndpoint, Steady
  <1>5. CASE Judged(s)
    <2>1. Goes("none")
      BY <1>1, <1>5, SucceedGoes DEF Judged
    <2>2. QED
      BY <1>1, <1>2, <1>5, <2>1, SteadyPreserves DEF Judged, Steady
  <1>6. CASE Misjudged(s)
    <2>1. Goes("Unknown")
      BY <1>1, <1>6, ReactGoes DEF Misjudged
    <2>2. faults' \in 0..MaxFaults /\ blame' \subseteq Blames
      BY <1>1, <1>6, FaultTyped, MendingTyped DEF Misjudged
    <2>3. QED
      BY <1>2, <1>6, <2>1, <2>2, SteadyPreserves DEF Misjudged, Steady
  <1>7. CASE Skip(s)
    <2>1. Goes("none")
      BY <1>1, <1>7, AdvanceGoes DEF Skip
    <2>2. QED
      BY <1>1, <1>2, <1>7, <2>1, SteadyPreserves DEF Skip, Steady
  <1>8. QED
    BY <1>3, <1>4, <1>5, <1>6, <1>7

\* Only what makes something is refused with 404 for another reason than that its
\* object is missing.
LEMMA StatusOfRequest ==
  ASSUME NEW call, NEW x
  PROVE  /\ Status(call, x) \in {200, 400, 404, 409}
         /\ (Status(call, x) = 404 /\ call.effect # "make") => x # I!C!Cloud /\ ~Here(x)
  BY DEF Status

\* The cloud refuses: it calls missing only what is not there, if nothing is made.
LEMMA RefusingSteps ==
  ASSUME Inductive, Refused(Due) \/ Denied(Due)
  PROVE  Inductive' /\ cloud' = cloud
  <1> DEFINE s == Due
  <1>1. TypeOK /\ blame \subseteq Blames /\ faults \in 0..MaxFaults
    BY DEF Inductive, TypeOK
  <1>2. s # <<>>
    BY DEF Refused, Denied, Sendable, Ready
  <1>3. /\ s \in Steps
        /\ req.asked = {} => s \in Gentle
        /\ s.obj \in req.objects \cup {I!C!Cloud}
    BY <1>1, <1>2, StepDue
  <1> HIDE DEF s
  <1>4. s.call.errors \in Truthful
    BY <1>3 DEF Steps, Calls
  <1>5. ASSUME NEW c \in T!Statuses
        PROVE  /\ s.call.errors[c] \in Errors
               /\ s.call.errors[c] = "NotFound" => c = 404
    BY <1>4 DEF Truthful
  <1>6. CASE Refused(s)
    <2> DEFINE c == Status(s.call, s.obj)
    <2>1. c \in {400, 404, 409}
      BY <1>6, StatusOfRequest DEF Refused
    <2>2. c \in T!Statuses
      BY <2>1 DEF T!Statuses
    <2>3. (c = 404 /\ req.asked = {}) => Gone
      <3>1. SUFFICES ASSUME c = 404, req.asked = {}
                     PROVE  Gone
        OBVIOUS
      <3>2. s.call.effect # "make"
        BY <1>3, <3>1 DEF Gentle
      <3>3. s.obj # I!C!Cloud /\ ~Here(s.obj)
        BY <3>1, <3>2, StatusOfRequest
      <3>4. s.obj \in DOMAIN cloud
        BY <1>1, <1>3, <3>3 DEF TypeOK
      <3>5. QED
        BY <1>3, <3>3, <3>4 DEF Here, Gone
    <2>4. Goes(s.call.errors[c])
      BY <1>1, <1>6, ReactGoes DEF Refused
    <2>5. Steady /\ UNCHANGED <<faults, blame>>
      BY <1>6 DEF Refused, Steady
    <2> HIDE DEF c
    <2>6. QED
      BY <1>1, <1>5, <2>2, <2>3, <2>4, <2>5, SteadyPreserves DEF Steady
  <1>7. CASE Denied(s)
    <2>1. PICK c \in T!Statuses \ {404} : React(s, s.call.errors[c])
      BY <1>7 DEF Denied
    <2>2. Goes(s.call.errors[c])
      BY <1>1, <2>1, ReactGoes
    <2>3. faults' \in 0..MaxFaults /\ blame' \subseteq Blames
      BY <1>1, <1>7, FaultTyped, MendingTyped DEF Denied
    <2>4. Steady
      BY <1>7 DEF Denied, Steady
    <2>5. QED
      BY <1>5, <2>2, <2>3, <2>4, SteadyPreserves DEF Steady
  <1>8. QED
    BY <1>6, <1>7 DEF s

\* The check that follows: "not found" is said of what is not there.
LEMMA WaitingSteps ==
  ASSUME Inductive, Polled(Due) \/ TimeLimit(Due) \/ PollFails(Due)
  PROVE  Inductive' /\ cloud' = cloud
  <1> DEFINE s == Due
  <1>1. TypeOK /\ blame \subseteq Blames /\ faults \in 0..MaxFaults
    BY DEF Inductive, TypeOK
  <1>2. s # <<>>
    BY DEF Inductive, Polled, TimeLimit, PollFails
  <1>3. s \in Steps /\ s.obj \in req.objects \cup {I!C!Cloud}
    BY <1>1, <1>2, StepDue
  <1> HIDE DEF s
  <1>4. {"none", "Unknown", "RemoteServerError", "NotFound"} \subseteq Errors \cup {"none"}
    BY DEF Errors
  <1>5. CASE Polled(s)
    <2>1. Steady /\ UNCHANGED <<faults, blame>>
      BY <1>5 DEF Polled, Steady
    <2>2. CASE Succeed(s)
      <3>1. Goes("none")
        BY <1>1, <2>2, SucceedGoes
      <3>2. QED
        BY <1>1, <1>4, <2>1, <3>1, SteadyPreserves DEF Steady
    <2>3. CASE /\ cloud[s.obj] \in s.call.check.fail
               /\ React(s, IF Here(s.obj) THEN "RemoteServerError" ELSE "NotFound")
      <3> DEFINE e == IF Here(s.obj) THEN "RemoteServerError" ELSE "NotFound"
      <3>1. Goes(e)
        BY <1>1, <2>3, ReactGoes
      <3>2. s.call.check # T!NoCheck
        BY <2>3 DEF T!NoCheck, T!Until
      <3>3. s.obj \in req.objects
        BY <1>3, <3>2, WrittenObject
      <3>4. e = "NotFound" => Gone
        BY <1>1, <3>3 DEF Here, Gone, TypeOK
      <3>5. e \in Errors \cup {"none"}
        BY <1>4
      <3> HIDE DEF e
      <3>6. QED
        BY <1>1, <2>1, <3>1, <3>4, <3>5, SteadyPreserves DEF Steady
    <2>4. QED
      BY <1>5, <2>2, <2>3 DEF Polled
  <1>6. CASE TimeLimit(s)
    <2>1. Goes("Unknown")
      BY <1>1, <1>6, ReactGoes DEF TimeLimit
    <2>2. faults' \in 0..MaxFaults /\ blame' \subseteq Blames
      BY <1>1, <1>6, MendingTyped DEF TimeLimit, Blames
    <2>3. QED
      BY <1>4, <1>6, <2>1, <2>2, SteadyPreserves DEF TimeLimit, Steady
  <1>7. CASE PollFails(s)
    <2>1. Goes("Unknown")
      BY <1>1, <1>7, ReactGoes DEF PollFails
    <2>2. faults' \in 0..MaxFaults /\ blame' \subseteq Blames
      BY <1>1, <1>7, FaultTyped, MendingTyped DEF PollFails
    <2>3. QED
      BY <1>4, <1>7, <2>1, <2>2, SteadyPreserves DEF PollFails, Steady
  <1>8. QED
    BY <1>5, <1>6, <1>7 DEF s

\* A request that the cloud carries out, whether the answer arrives or not. The
\* answer to a step with a check shows nothing, so the same step is still due.
LEMMA WorkingSteps ==
  ASSUME Inductive, Accepted(Due) \/ AnswerLost(Due)
  PROVE  Inductive' /\ CloudOK
  <1> DEFINE s == Due
  <1>1. TypeOK /\ blame \subseteq Blames /\ faults \in 0..MaxFaults
        /\ seen \subseteq req.objects /\ known \subseteq req.objects
    BY DEF Inductive, TypeOK
  <1>2. s # <<>>
    BY DEF Accepted, AnswerLost, Sendable, Ready
  <1>3. /\ s \in Steps
        /\ req.asked = {} => s \in Gentle
        /\ s.obj \in req.objects \cup {I!C!Cloud}
    BY <1>1, <1>2, StepDue
  <1> HIDE DEF s
  <1>4. CloudOK
    <2>1. Status(s.call, s.obj) = 200 /\ cloud' = Effect(s)
      BY DEF Accepted, AnswerLost, s
    <2>2. QED
      BY <1>1, <1>3, <2>1, EffectKeeps
  <1>5. CASE AnswerLost(s)
    <2>1. Goes("Unknown")
      BY <1>1, <1>5, ReactGoes DEF AnswerLost
    <2>2. faults' \in 0..MaxFaults /\ blame' \subseteq Blames
      <3>1. {"answer"} \in SUBSET Blames
        BY DEF Blames
      <3>2. QED
        BY <1>1, <1>5, <3>1, FaultTyped DEF AnswerLost
    <2>3. UNCHANGED <<req, lacking, seen, known>>
      BY <1>5 DEF AnswerLost
    <2>4. "Unknown" \in Errors
      BY DEF Errors
    <2>5. QED
      BY <1>1, <1>4, <2>1, <2>2, <2>3, <2>4, GoesPreserves
  <1>6. CASE Accepted(s)
    <2>1. UNCHANGED <<req, lacking, faults, blame>>
      BY <1>6 DEF Accepted
    <2>2. seen' \subseteq req.objects
      BY <1>1, <1>6 DEF Accepted
    <2>3. known' \subseteq req.objects
      <3>1. CASE s.call.effect = "make"
        <4>1. s.obj \in req.objects
          BY <1>3, <3>1, WrittenObject
        <4>2. QED
          BY <1>1, <1>6, <4>1 DEF Accepted
      <3>2. CASE s.call.effect # "make"
        BY <1>1, <1>6, <3>2 DEF Accepted
      <3>3. QED
        BY <3>1, <3>2
    <2>4. CASE s.call.check = T!NoCheck
      <3>1. Goes("none")
        BY <1>1, <1>6, <2>4, SucceedGoes DEF Accepted
      <3>2. QED
        BY <1>1, <1>4, <2>1, <2>2, <2>3, <3>1, GoesPreserves
    <2>5. CASE s.call.check # T!NoCheck
      <3>1. waiting' = TRUE /\ UNCHANGED <<pc, phase, result>>
        BY <1>6, <2>5 DEF Accepted
      <3>2. seen' = seen
        <4>1. s.lists = {}
          BY <1>3, <2>5 DEF Steps
        <4>2. QED
          BY <1>6, <4>1 DEF Accepted
      <3>3. Due' = Due
        BY <2>1, <3>1, <3>2 DEF Due, program
      <3>4. phase' \in Phases /\ pc' \in Nat \ {0} /\ result' \in Results
        BY <1>1, <3>1 DEF TypeOK
      <3>5. (result' = "NotFound" /\ req.asked = {}) => Gone
        BY <3>1 DEF Inductive, Gone
      <3>6. (Due # <<>>)'
        BY <1>2, <3>3 DEF s
      <3>7. QED
        BY <1>1, <1>4, <2>1, <2>2, <2>3, <3>1, <3>4, <3>5, <3>6, Preserved
    <2>6. QED
      BY <2>4, <2>5
  <1>7. QED
    BY <1>4, <1>5, <1>6 DEF s

\* What the cloud does by itself and what others remove: never what belongs to
\* others, which is in no transition and goes with nothing.
LEMMA CloudSteps ==
  ASSUME Inductive, Settle \/ SettleBadly \/ Meddle
  PROVE  Inductive' /\ CloudOK
  <1>1. TypeOK /\ blame \subseteq Blames /\ faults \in 0..MaxFaults
    BY DEF Inductive, TypeOK
  <1>2. cloud \in [req.objects -> T!States] /\ DOMAIN cloud = req.objects
    BY <1>1 DEF TypeOK
  <1>3. {"absent", "building", "changing", "leaving", "ready", "off", "failed", "parked"}
          \subseteq T!States
    BY DEF T!States
  <1>4. \A x \in req.others : cloud[x] = "ready"
    BY DEF Inductive
  <1>5. /\ UNCHANGED <<req, lacking, phase, pc, waiting, seen, known, result>>
        /\ faults' \in 0..MaxFaults /\ blame' \subseteq Blames
    <2>1. CASE Settle
      BY <1>1, <2>1 DEF Settle
    <2>2. CASE SettleBadly
      BY <1>1, <2>2, FaultTyped, MendingTyped DEF SettleBadly
    <2>3. CASE Meddle
      <3>1. {"meddle"} \in SUBSET Blames
        BY DEF Blames
      <3>2. QED
        BY <1>1, <2>3, <3>1, FaultTyped DEF Meddle
    <2>4. QED
      BY <2>1, <2>2, <2>3
  <1>6. CloudOK
    <2>1. CASE Settle \/ SettleBadly
      <3>1. PICK x \in req.objects : \E st \in {"ready", "off", "absent", "failed", "parked"} :
                 cloud[x] \in Transitions /\ cloud' = [cloud EXCEPT ![x] = st]
        BY <2>1 DEF Settle, SettleBadly, Settled, Transitions
      <3>2. cloud[x] # "absent" /\ x \notin req.others
        BY <1>4, <3>1 DEF Transitions
      <3>3. QED
        BY <1>2, <1>3, <3>1, <3>2 DEF CloudOK
    <2>2. CASE Meddle
      <3>1. PICK x \in req.objects \ req.others : cloud' = Absent({x} \cup GoesWith(x))
        BY <2>2 DEF Meddle
      <3>2. ASSUME NEW y \in req.others
            PROVE  y \in req.objects /\ y \notin {x} \cup GoesWith(x)
        <4>1. y \in req.objects /\ Foreign(y)
          BY <1>1, RequestsAssumption DEF TypeOK
        <4>2. y \notin GoesWith(x)
          BY <4>1 DEF Foreign, GoesWith, I!Numbered
        <4>3. QED
          BY <4>1, <4>2
      <3>3. cloud' = [y \in req.objects |-> IF y \in {x} \cup GoesWith(x) THEN "absent"
                                            ELSE cloud[y]]
        BY <1>2, <3>1 DEF Absent
      <3>4. QED
        BY <1>2, <1>3, <3>2, <3>3 DEF CloudOK
    <2>3. QED
      BY <2>1, <2>2
  <1>7. Due' = Due
    BY <1>5 DEF Due, program
  <1>8. QED
    <2>1. phase' \in Phases /\ pc' \in Nat \ {0} /\ waiting' \in BOOLEAN /\ result' \in Results
          /\ seen' \subseteq req.objects /\ known' \subseteq req.objects
      BY <1>1, <1>5 DEF TypeOK
    <2>2. waiting' => (Due # <<>>)'
      BY <1>5, <1>7 DEF Inductive
    <2>3. (result' = "NotFound" /\ req.asked = {}) => Gone
      BY <1>5 DEF Inductive, Gone
    <2>4. QED
      BY <1>5, <1>6, <2>1, <2>2, <2>3, Preserved

-----------------------------------------------------------------------------
(* The theorems *)

LEMMA InitInductive == Init => Inductive
  <1> SUFFICES ASSUME Init
               PROVE  Inductive
    OBVIOUS
  <1>1. TypeOK
    <2>1. {"absent", "off", "ready"} \subseteq T!States
      BY DEF T!States
    <2>2. cloud \in [req.objects -> T!States]
      BY <2>1 DEF Init
    <2>3. faults \in 0..MaxFaults
      BY MaxFaultsAssumption DEF Init
    <2>4. /\ req \in Requests /\ lacking \in Catalogs
          /\ phase \in Phases /\ pc \in Nat \ {0} /\ waiting \in BOOLEAN
          /\ seen \subseteq req.objects /\ known \subseteq req.objects
          /\ result \in Results /\ blame \subseteq Blames
      <3>1. /\ req \in Requests /\ lacking \in Catalogs /\ phase = "check" /\ pc = 1
            /\ waiting = FALSE /\ seen = {} /\ known = {} /\ result = "none" /\ blame = {}
        BY DEF Init
      <3>2. phase \in Phases /\ pc \in Nat \ {0} /\ result \in Results
        BY <3>1 DEF Phases, Results
      <3>3. waiting \in BOOLEAN
        BY <3>1
      <3>4. QED
        BY <3>1, <3>2, <3>3
    <2>5. QED
      BY <2>2, <2>3, <2>4 DEF TypeOK
  <1>2. ASSUME NEW x \in req.others
        PROVE  cloud[x] = "ready"
    <2>1. x \in req.objects /\ x \in req.before /\ Foreign(x)
      BY RequestsAssumption DEF Init
    <2>2. x # I!server
      BY <2>1 DEF Foreign, I!server, I!C!Owner
    <2>3. QED
      BY <2>1, <2>2 DEF Init
  <1>3. QED
    BY <1>1, <1>2 DEF Init, Inductive

LEMMA StepInductive ==
  ASSUME Inductive, [Next]_vars
  PROVE  Inductive' /\ \A x \in req.others : cloud'[x] = cloud[x]
  <1>1. CASE Validate \/ Connected \/ NotConnected \/ Convert \/ ConvertFails
    BY <1>1, OutsideSteps
  <1>2. CASE \E s \in {Due} : Finish(s) \/ NotFoundEndpoint(s) \/ Judged(s) \/ Misjudged(s)
                                \/ Skip(s)
    BY <1>2, SilentSteps
  <1>3. CASE Refused(Due) \/ Denied(Due)
    BY <1>3, RefusingSteps
  <1>4. CASE Polled(Due) \/ TimeLimit(Due) \/ PollFails(Due)
    BY <1>4, WaitingSteps
  <1>5. CASE Accepted(Due) \/ AnswerLost(Due)
    BY <1>5, WorkingSteps DEF CloudOK
  <1>6. CASE Settle \/ SettleBadly \/ Meddle
    BY <1>6, CloudSteps DEF CloudOK
  <1>7. CASE UNCHANGED vars
    <2>1. Due' = Due
      BY <1>7 DEF vars, Due, program
    <2>2. TypeOK'
      BY <1>7 DEF vars, Inductive, TypeOK
    <2>3. QED
      BY <1>7, <2>1, <2>2 DEF vars, Inductive
  <1>8. QED
    BY <1>1, <1>2, <1>3, <1>4, <1>5, <1>6, <1>7 DEF Next, Work, Faults

LEMMA RequestsInductive == Spec => []Inductive
  BY InitInductive, StepInductive, PTL DEF Spec

\* The types of the request's state, for every program and every answer.
THEOREM RequestsTyped == Spec => []TypeOK
  <1>1. Inductive => TypeOK
    BY DEF Inductive
  <1>2. QED
    BY <1>1, RequestsInductive, PTL

\* No request, whatever fails, touches what belongs to another tenant or another
\* volume group: the groups that a deleted project leaves behind and the
\* snapshots of a deleted group are looked up by their owner (train.DeleteProject,
\* DeleteVolumeGroup).
THEOREM OthersAreSpared == Spec => SparesOthers
  <1>1. Inductive /\ [Next]_vars => [\A x \in req.others : cloud'[x] = cloud[x]]_vars
    BY StepInductive
  <1>2. QED
    BY <1>1, RequestsInductive, PTL DEF Spec, SparesOthers

\* NotFound is never said of what is there: no table of errors gives it for
\* another status than 404, and no check for an object that is still there.
THEOREM NotFoundIsTrue == Spec => []NotFoundMeansGone
  <1>1. Inductive => NotFoundMeansGone
    <2>1. req \in Requests => (req.asked = {} => req.objects = req.before \cup req.ended)
      BY RequestsAssumption
    <2>2. QED
      BY <2>1 DEF Inductive, TypeOK, NotFoundMeansGone
  <1>2. QED
    BY <1>1, RequestsInductive, PTL

-----------------------------------------------------------------------------
(* What a step that is carried out makes of what the request promises *)

LEMMA GoalsAreObjects ==
  ASSUME NEW r \in Requests
  PROVE  /\ Goals(r) \subseteq r.objects
         /\ \A x \in Goals(r) : x \in r.asked <=> x \notin r.ended
         /\ r.op \in Readings => Goals(r) = {}
  <1>1. Goals(r) \subseteq r.objects
    BY RequestsAssumption DEF Goals
  <1>2. \A x \in Goals(r) : x \in r.asked <=> x \notin r.ended
    BY GoalsAssumption DEF Goals
  <1>3. r.op \in Readings => Goals(r) = {}
    BY GoalsAssumption, ZenonT(60) DEF Goals, Asked, Ended, Readings
  <1>4. QED
    BY <1>1, <1>2, <1>3

LEMMA GoalsAreStates ==
  ASSUME NEW r, NEW x
  PROVE  /\ Goal(r, x) \in {"absent", "ready", "off"}
         /\ Goal(r, x) = "absent" <=> x \in r.ended
  BY DEF Goal

LEMMA EffectKeepsReached ==
  ASSUME TypeOK, NEW s \in Steps, Status(s.call, s.obj) = 200, cloud' = Effect(s), req' = req,
         NEW x \in req.objects, Reached(x), ~Spoils(req, s, x)
  PROVE  Reached(x)'
  <1> DEFINE call == s.call
             y == s.obj
             later == call.check # T!NoCheck
             g == Goal(req, x)
  <1>1. DOMAIN cloud = req.objects /\ cloud[x] = g /\ g \in {"absent", "ready", "off"}
    BY GoalsAreStates DEF TypeOK, Reached
  <1>2. cloud'[x] = g => Reached(x)'
    BY DEF Reached
  <1>3. CASE call.effect = "make"
    <2>1. ~Here(y)
      BY <1>3 DEF Status
    <2>2. cloud'[x] = IF x = y THEN (IF later THEN "building" ELSE "ready")
                      ELSE IF x \in ComesWith(y, lacking) THEN "ready" ELSE cloud[x]
      BY <1>1, <1>3 DEF Effect
    <2>3. CASE x = y
      <3>1. g = "ready"
        BY <1>3, <2>3 DEF Spoils
      <3>2. QED
        BY <1>1, <2>1, <2>3, <3>1 DEF Here
    <2>4. CASE x # y /\ x \in ComesWith(y, lacking)
      <3>1. x \in ComesWith(y, {})
        BY <2>4 DEF ComesWith
      <3>2. g = "ready"
        BY <1>3, <3>1 DEF Spoils
      <3>3. QED
        BY <1>2, <2>2, <2>4, <3>2
    <2>5. QED
      BY <1>1, <1>2, <2>2, <2>3, <2>4
  <1>4. CASE call.effect = "change"
    <2>1. Here(y)
      <3>1. y # I!C!Cloud
        BY <1>4 DEF Steps, Ours, I!C!Cloud
      <3>2. QED
        BY <1>4, <3>1 DEF Status
    <2>2. cloud'[x] = IF x = y /\ later THEN "changing"
                      ELSE IF x \in s.adds THEN "ready"
                      ELSE IF x \in s.drops THEN "absent" ELSE cloud[x]
      BY <1>1, <1>4 DEF Effect
    <2>3. /\ x = y /\ later => g = "absent"
          /\ x \in s.adds => g = "ready"
          /\ x \in s.drops => g = "absent"
      BY <1>4 DEF Spoils
    <2>4. ~(x = y /\ later)
      BY <1>1, <2>1, <2>3 DEF Here
    <2>5. QED
      BY <1>1, <1>2, <2>2, <2>3, <2>4
  <1>5. CASE call.effect = "remove"
    <2>1. Here(y)
      <3>1. y # I!C!Cloud
        BY <1>5 DEF Steps, Ours, I!C!Cloud
      <3>2. QED
        BY <1>5, <3>1 DEF Status
    <2>2. x = y \/ x \in GoesWith(y) => g = "absent"
      BY <1>5 DEF Spoils
    <2>3. CASE later
      <3>1. cloud' = [cloud EXCEPT ![y] = "leaving"]
        BY <1>5, <2>3 DEF Effect
      <3>2. x # y
        BY <1>1, <2>1, <2>2 DEF Here
      <3>3. QED
        BY <1>1, <1>2, <3>1, <3>2
    <2>4. CASE ~later
      <3>1. cloud'[x] = IF x \in {y} \cup GoesWith(y) THEN "absent" ELSE cloud[x]
        BY <1>1, <1>5, <2>4 DEF Effect, Absent
      <3>2. QED
        BY <1>1, <1>2, <2>2, <3>1
    <2>5. QED
      BY <2>3, <2>4
  <1>6. CASE call.effect \notin {"make", "change", "remove"}
    <2>1. cloud' = cloud
      BY <1>6 DEF Effect
    <2>2. QED
      BY <1>1, <1>2, <2>1
  <1>7. QED
    BY <1>3, <1>4, <1>5, <1>6

LEMMA EffectBrings ==
  ASSUME TypeOK, NEW s \in Steps, cloud' = Effect(s), req' = req,
         NEW x \in req.objects, Brings(req, s, x), s.call.check = T!NoCheck \/ x # s.obj
  PROVE  Reached(x)'
  <1> DEFINE call == s.call
             y == s.obj
             later == call.check # T!NoCheck
             g == Goal(req, x)
  <1>1. DOMAIN cloud = req.objects
    BY DEF TypeOK
  <1>2. cloud'[x] = g => Reached(x)'
    BY DEF Reached
  <1>3. CASE call.effect = "make"
    <2>1. x = y /\ g = "ready" /\ ~later
      BY <1>3 DEF Brings
    <2>2. cloud'[x] = "ready"
      BY <1>1, <1>3, <2>1 DEF Effect
    <2>3. QED
      BY <1>2, <2>1, <2>2
  <1>4. CASE call.effect = "change"
    <2>1. x # y /\ (\/ x \in s.adds /\ g = "ready"
                    \/ x \in s.drops \ s.adds /\ g = "absent")
      BY <1>4 DEF Brings
    <2>2. cloud'[x] = IF x = y /\ later THEN "changing"
                      ELSE IF x \in s.adds THEN "ready"
                      ELSE IF x \in s.drops THEN "absent" ELSE cloud[x]
      BY <1>1, <1>4 DEF Effect
    <2>3. QED
      BY <1>2, <2>1, <2>2
  <1>5. CASE call.effect = "remove"
    <2>1. g = "absent" /\ ~later /\ x \in {y} \cup GoesWith(y)
      BY <1>5 DEF Brings
    <2>2. cloud'[x] = IF x \in {y} \cup GoesWith(y) THEN "absent" ELSE cloud[x]
      BY <1>1, <1>5, <2>1 DEF Effect, Absent
    <2>3. QED
      BY <1>2, <2>1, <2>2
  <1>6. QED
    BY <1>3, <1>4, <1>5 DEF Brings

-----------------------------------------------------------------------------
(* The parts of the invariant that each step keeps *)

LEMMA FaultsFall ==
  ASSUME TypeOK, NEW b, faults' = faults \/ Fault(b)
  PROVE  /\ faults < MaxFaults => faults' < MaxFaults
         /\ Fault(b) => faults' < MaxFaults
  BY MaxFaultsAssumption DEF TypeOK, Fault

\* What is excused remains so.
LEMMA ExcuseStays ==
  ASSUME UNCHANGED <<req, lacking>>, faults < MaxFaults => faults' < MaxFaults,
         NEW x, Excused(x)
  PROVE  Excused(x)'
  BY DEF Excused

LEMMA KeptOnward ==
  ASSUME NEW x, phase' = "steps", waiting' = FALSE, req' = req,
         Reached(x)' \/ Awaits(req, Program(req, seen'), pc' - 1, x)
  PROVE  Kept(x)'
  BY DEF Kept, Expected, program

LEMMA AwaitsNext ==
  ASSUME NEW S, NEW r, NEW p, p.steps \in Seq(S), NEW k \in DOMAIN p.steps, NEW x
  PROVE  Awaits(r, p, k - 1, x) <=>
            Awaits(r, p, k, x) \/ Brings(r, p.steps[k], x) \/ Names(p.steps[k], x)
  <1>1. \A j \in DOMAIN p.steps : j > k - 1 <=> (j > k \/ j = k)
    OBVIOUS
  <1>2. QED
    BY <1>1 DEF Awaits

\* Before the steps and after them
LEMMA BeforeAndAfter ==
  ASSUME Inductive, OnCourse, Validate \/ Connected \/ NotConnected \/ Convert \/ ConvertFails
  PROVE  OnCourse'
  <1>1. TypeOK /\ req \in Requests /\ seen \in SUBSET req.objects
    BY DEF Inductive, TypeOK
  <1>2. /\ UNCHANGED <<req, lacking, cloud, seen>>
        /\ waiting' = FALSE
        /\ \/ phase = "check" /\ phase' = "connect" /\ result' = result
           \/ phase = "connect" /\ phase' = "steps" /\ pc' = 1 /\ result' = result
           \/ phase' = "end" /\ result' # "ok"
           \/ phase = "convert" /\ phase' = "end"
           \/ phase' = "back" /\ result' = "Unknown"
    BY DEF Validate, Connected, NotConnected, Convert, ConvertFails, Enter
  <1>3. faults < MaxFaults => faults' < MaxFaults
    BY <1>1, FaultsFall DEF Validate, Connected, NotConnected, Convert, ConvertFails
  <1>4. Waits'
    BY <1>2 DEF Waits
  <1>5. Decided'
    BY <1>2 DEF OnCourse, Decided, Undecided
  <1>6. Fresh'
    BY <1>2 DEF OnCourse, Fresh, Beginning
  <1>7. Paired'
    BY <1>2 DEF OnCourse, Paired, Here
  <1>8. Shown'
    BY <1>2 DEF Shown, Beginning
  <1>9. ASSUME NEW x \in Goals(req), ~Excused(x)'
        PROVE  Kept(x)'
    <2>1. Kept(x)
      BY <1>2, <1>3, <1>9, ExcuseStays DEF OnCourse
    <2>2. CASE phase = "connect" /\ phase' = "steps"
      <3>1. /\ seen = {}
            /\ cloud = [y \in req.objects |->
                  IF y \notin req.before THEN "absent"
                  ELSE IF req.op = "StartInstance" /\ y = I!server THEN "off" ELSE "ready"]
        BY <2>2 DEF OnCourse, Fresh, Beginning
      <3>2. req.op \in Creations \cup Alterations
        BY <1>1, <1>9, GoalsAreObjects, RequestsAssumption
      <3>3. Tended(req, seen)
        BY <1>1, <3>2, RequestsAreTended
      <3>4. \/ Awaits(req, Program(req, seen), 0, x)
            \/ /\ x \in req.asked \cap req.before
               /\ req.op \notin {"StartInstance", "StopClusterInstance"}
        BY <1>9, <3>3 DEF Tended
      <3>5. CASE Awaits(req, Program(req, seen), 0, x)
        BY <1>2, <2>2, <3>5 DEF Kept, Expected, program
      <3>6. CASE /\ x \in req.asked \cap req.before
                 /\ req.op \notin {"StartInstance", "StopClusterInstance"}
        <4>1. x \in req.objects /\ x \notin req.ended
          BY <1>1, <1>9, <3>6, GoalsAreObjects
        <4>2. Reached(x)
          BY <3>1, <3>6, <4>1 DEF Reached, Goal
        <4>3. QED
          BY <1>2, <2>2, <4>2 DEF Kept, Reached
      <3>7. QED
        BY <3>4, <3>5, <3>6
    <2>3. CASE phase = "convert" /\ phase' = "end"
      BY <1>2, <2>1, <2>3 DEF Kept, Reached
    <2>4. CASE phase' \in {"connect", "back"} \/ (phase' = "end" /\ result' # "ok")
      BY <2>4 DEF Kept
    <2>5. QED
      BY <1>2, <2>2, <2>3, <2>4
  <1>10. QED
    BY <1>2, <1>4, <1>5, <1>6, <1>7, <1>8, <1>9 DEF OnCourse

LEMMA OnCourseAtFirst ==
  ASSUME Init
  PROVE  OnCourse
  <1>1. /\ req \in Requests /\ phase = "check" /\ waiting = FALSE /\ result = "none"
        /\ seen = {}
        /\ cloud = [y \in req.objects |->
                  IF y \notin req.before THEN "absent"
                  ELSE IF req.op = "StartInstance" /\ y = I!server THEN "off" ELSE "ready"]
    BY DEF Init
  <1>2. Waits /\ Decided /\ Fresh /\ Shown
    BY <1>1 DEF Waits, Decided, Undecided, Fresh, Shown
  <1>3. Paired
    <2>1. req.op \in {"DeleteClusterRouter", "DeleteClusterSecurityGroup"}
            => \A y \in req.objects : cloud[y] \in {"absent", "ready"}
      BY <1>1
    <2>2. ASSUME NEW x \in req.ended, Here(x)
          PROVE  Here(Keeper(req, x))
      <3>1. x \in Ended(req) /\ Subject(req) \subseteq req.before /\ req.before \subseteq req.objects
        BY <1>1, GoalsAssumption, RequestsAssumption
      <3>2. \A y \in req.before : Here(y)
        BY <1>1, <3>1 DEF Here
      <3>3. CASE req.op = "DeleteClusterRouter" /\ x[1] = "port"
        <4>1. <<"interface", x[2]>> \in req.before
          BY <3>1, <3>3 DEF Ended, I!router
        <4>2. QED
          BY <3>2, <3>3, <4>1 DEF Keeper
      <3>4. CASE req.op = "DeleteClusterSecurityGroup" /\ x[1] = "rule"
        BY <3>1, <3>2, <3>4 DEF Subject, Keeper
      <3>5. QED
        BY <2>2, <3>3, <3>4 DEF Keeper
    <2>3. QED
      BY <2>1, <2>2 DEF Paired
  <1>4. \A x \in Goals(req) : Kept(x)
    BY <1>1 DEF Kept
  <1>5. QED
    BY <1>2, <1>3, <1>4 DEF OnCourse

\* Once the request has failed, nothing that follows makes a success of it.
LEMMA CleaningStays ==
  ASSUME OnCourse, phase \in {"undo", "back"} \/ (phase = "final" /\ result # "none"),
         Onward, result' = result, Waits'
  PROVE  OnCourse'
  <1>1. result \notin {"none", "ok"}
    BY DEF OnCourse, Decided
  <1>2. phase' \in {"undo", "back", "final", "end"}
    BY <1>1 DEF Onward, Leave, Enter
  <1>3. Decided' /\ Fresh' /\ Paired' /\ Shown'
    BY <1>1, <1>2 DEF Decided, Undecided, Fresh, Beginning, Paired, Shown
  <1>4. \A x : Kept(x)'
    BY <1>1, <1>2 DEF Kept
  <1>5. QED
    BY <1>3, <1>4 DEF OnCourse

\* The cloud by itself finishes what it began, well or badly; what is as it should
\* be is finished.
LEMMA SettlingStays ==
  ASSUME Inductive, OnCourse, Settle \/ SettleBadly
  PROVE  OnCourse'
  <1>1. TypeOK
    BY DEF Inductive
  <1>2. UNCHANGED <<req, lacking, phase, pc, waiting, seen, result>>
    BY DEF Settle, SettleBadly
  <1>3. faults < MaxFaults => faults' < MaxFaults
    BY <1>1, FaultsFall DEF Settle, SettleBadly
  <1>4. PICK z \in req.objects : \E state : cloud[z] \in Transitions
                                            /\ cloud' = [cloud EXCEPT ![z] = state]
    BY DEF Settle, SettleBadly
  <1>5. DOMAIN cloud = req.objects /\ DOMAIN cloud' = req.objects
    BY <1>1, <1>4 DEF TypeOK
  <1>6. Due' = Due
    BY <1>2 DEF Due, program
  <1>7. Waits' /\ Decided' /\ Shown'
    BY <1>2, <1>6 DEF OnCourse, Waits, Decided, Undecided, Shown, Beginning
  <1>8. Fresh'
    <2>1. ~Beginning
      BY <1>4, <1>5 DEF OnCourse, Fresh, Transitions
    <2>2. QED
      BY <1>2, <2>1 DEF Fresh, Beginning
  <1>9. Paired'
    <2>1. CASE /\ req.op \in {"DeleteClusterRouter", "DeleteClusterSecurityGroup"}
               /\ phase \in {"check", "connect", "steps"}
      BY <1>4, <2>1 DEF OnCourse, Paired, Transitions
    <2>2. CASE req.op \notin {"DeleteClusterRouter", "DeleteClusterSecurityGroup"}
      BY <1>2, <2>2 DEF Paired, Keeper
    <2>3. CASE phase \notin {"check", "connect", "steps"}
      BY <1>2, <2>3 DEF Paired
    <2>4. QED
      BY <2>1, <2>2, <2>3
  <1>10. ASSUME NEW x \in Goals(req), ~Excused(x)'
         PROVE  Kept(x)'
    <2>1. Kept(x)
      BY <1>2, <1>3, <1>10, ExcuseStays DEF OnCourse
    <2>2. Reached(x) => Reached(x)'
      <3>1. SUFFICES ASSUME Reached(x)
                     PROVE  Reached(x)'
        OBVIOUS
      <3>2. cloud[x] \notin Transitions
        BY <3>1, GoalsAreStates DEF Reached, Transitions
      <3>3. x # z /\ cloud'[x] = cloud[x]
        BY <1>4, <3>2
      <3>4. QED
        BY <1>2, <3>1, <3>3 DEF Reached
    <2>3. Expected(x) => Expected(x)'
      BY <1>2, <1>6 DEF Expected, program
    <2>4. program' = program
      BY <1>2 DEF program
    <2>5. QED
      BY <1>2, <2>1, <2>2, <2>3, <2>4 DEF Kept
  <1>11. QED
    BY <1>2, <1>7, <1>8, <1>9, <1>10 DEF OnCourse

-----------------------------------------------------------------------------
(* The step that is due *)

\* Of a request that promises something, the step that is due is in order.
LEMMA DueInOrder ==
  ASSUME Inductive, OnCourse, phase = "steps", Due # <<>>,
         req.op \in Creations \cup Alterations
  PROVE  /\ pc \in DOMAIN program.steps /\ Due = program.steps[pc]
         /\ Orderly(req, program, pc)
         /\ Cascades(req, Due)
         /\ Due.lists # {} => Follows(req, seen, pc)
         /\ \A x : Awaits(req, program, pc - 1, x) <=>
                      Awaits(req, program, pc, x) \/ Brings(req, Due, x) \/ Names(Due, x)
  <1>1. TypeOK /\ req \in Requests /\ seen \in SUBSET req.objects /\ pc \in Nat \ {0}
    BY DEF Inductive, TypeOK
  <1>2. pc \in DOMAIN program.steps /\ Due = program.steps[pc]
    BY DEF Due
  <1>3. Tended(req, seen)
    BY <1>1, RequestsAreTended
  <1>4. req.op = "UpdateClusterVolumeGroup" /\ pc > 1 => req.ended \subseteq seen
    BY DEF OnCourse, Shown, Beginning
  <1>5. program = Program(req, seen)
    BY DEF program
  <1>6. program.steps \in Seq(Steps)
    BY <1>1, ProgramOfRequest DEF Requested
  <1> HIDE DEF program
  <1>7. Orderly(req, program, pc) /\ Cascades(req, Due) /\ (Due.lists # {} => Follows(req, seen, pc))
    BY <1>2, <1>3, <1>4, <1>5 DEF Tended
  <1>8. QED
    BY <1>2, <1>6, <1>7, AwaitsNext

\* What is made of an error of a step.
LEMMA Reacting ==
  ASSUME phase = "steps", NEW s, s.failing \in Reactions, NEW e \in Errors \ {"ok"},
         React(s, e)
  PROVE  \/ /\ Advance(1)
            /\ s.failing \in {"warn", "else"} \/ (s.failing = "busy" /\ e = "RemoteServerError")
         \/ /\ phase' = "final" /\ pc' = 1 /\ waiting' = FALSE /\ result' = result
            /\ s.failing = "end" \/ (s.failing = "absent" /\ e = "NotFound")
         \/ phase' = "undo" /\ waiting' = FALSE /\ result' \notin {"none", "ok"}
  <1>1. CASE s.failing \in {"warn", "else"}
    BY <1>1 DEF React
  <1>2. CASE s.failing = "end"
    BY <1>2 DEF React, Leave, Enter
  <1>3. CASE s.failing = "absent" /\ e = "NotFound"
    BY <1>3 DEF React, Leave, Enter
  <1>4. CASE s.failing = "busy" /\ e = "RemoteServerError"
    BY <1>4 DEF React
  <1>5. CASE /\ s.failing \notin {"warn", "else", "end"}
             /\ ~(s.failing = "absent" /\ e = "NotFound")
             /\ ~(s.failing = "busy" /\ e = "RemoteServerError")
    <2>1. Fail(e)
      BY <1>5 DEF React
    <2>2. QED
      BY <2>1 DEF Fail, Enter, Errors
  <1>6. QED
    BY <1>1, <1>2, <1>3, <1>4, <1>5

\* Where a step of the program may lead.
Further ==
    \/ \E n \in {1, 2} : Advance(n)
    \/ phase' = "final" /\ pc' = 1 /\ waiting' = FALSE /\ result' = result
    \/ phase' = "undo" /\ waiting' = FALSE /\ result' \notin {"none", "ok"}
    \/ waiting' = TRUE /\ UNCHANGED <<pc, phase, result>>

LEMMA FurtherStays ==
  ASSUME Inductive, OnCourse, phase = "steps", Further
  PROVE  Decided' /\ Fresh'
  <1>1. pc \in Nat \ {0} /\ result = "none"
    BY DEF Inductive, TypeOK, OnCourse, Decided, Undecided
  <1>2. Decided'
    BY <1>1 DEF Further, Advance, Decided, Undecided
  <1>3. ~Beginning'
    BY <1>1 DEF Further, Advance, Beginning
  <1>4. QED
    BY <1>2, <1>3 DEF Fresh

\* What goes with something that is removed is removed with it.
LEMMA PairsStay ==
  ASSUME Inductive, OnCourse, phase = "steps", NEW s \in Steps,
         req.op \in Alterations => Cascades(req, s),
         cloud' = cloud \/ cloud' = Effect(s), req' = req
  PROVE  Paired'
  <1>1. DOMAIN cloud = req.objects /\ req \in Requests
    BY DEF Inductive, TypeOK
  <1>2. /\ req.op \in {"DeleteClusterRouter", "DeleteClusterSecurityGroup"} =>
              \A x \in req.objects : cloud[x] \in {"absent", "ready"}
        /\ \A x \in req.ended : Here(x) => Here(Keeper(req, x))
    BY DEF OnCourse, Paired
  <1>3. CASE req.op \notin {"DeleteClusterRouter", "DeleteClusterSecurityGroup"}
    BY <1>3 DEF Paired, Keeper
  <1>4. CASE cloud' = cloud
    BY <1>2, <1>4 DEF Paired, Here
  <1>5. CASE /\ cloud' = Effect(s)
             /\ req.op \in {"DeleteClusterRouter", "DeleteClusterSecurityGroup"}
    <2>1. s.call.effect \in {"read", "remove"} /\ s.call.check = T!NoCheck
      BY <1>5 DEF Cascades, Alterations
    <2>2. CASE s.call.effect = "read"
      BY <1>2, <1>5, <2>2 DEF Effect, Paired, Here
    <2>3. CASE s.call.effect = "remove"
      <3> DEFINE off == {s.obj} \cup GoesWith(s.obj)
      <3>1. cloud' = [y \in req.objects |-> IF y \in off THEN "absent" ELSE cloud[y]]
        BY <1>1, <1>5, <2>1, <2>3 DEF Effect, Absent
      <3>2. ASSUME NEW x \in req.ended, Keeper(req, x) \in off
            PROVE  x \in off
        <4>1. x \in Ended(req)
          BY <1>1, GoalsAssumption
        <4>2. CASE req.op = "DeleteClusterRouter" /\ x[1] = "port"
          <5>1. x \in Objects
            BY <1>1, RequestsAssumption
          <5>2. Keeper(req, x) = <<"interface", x[2]>> /\ x = <<"port", x[2]>>
            BY <4>2, <5>1 DEF Keeper, Objects
          <5>3. <<"interface", x[2]>> \notin GoesWith(s.obj)
            BY DEF GoesWith, I!Numbered
          <5>4. s.obj = <<"interface", x[2]>>
            BY <3>2, <5>2, <5>3
          <5>5. QED
            BY <5>2, <5>4 DEF GoesWith
        <4>3. CASE req.op = "DeleteClusterSecurityGroup" /\ x[1] = "rule"
          <5>1. x \in I!Numbered("rule", 3) /\ Keeper(req, x) = I!security_group
            BY <4>1, <4>3 DEF Ended, Keeper, I!security_group
          <5>2. I!security_group \notin GoesWith(s.obj)
            BY DEF GoesWith, I!Numbered, I!security_group
          <5>3. s.obj = I!security_group
            BY <3>2, <5>1, <5>2
          <5>4. QED
            BY <5>1, <5>3 DEF GoesWith, I!security_group
        <4>4. QED
          BY <3>2, <4>2, <4>3 DEF Keeper
      <3> HIDE DEF off
      <3>3. \A y \in req.objects : cloud'[y] \in {"absent", "ready"}
        BY <1>2, <1>5, <3>1
      <3>4. \A x \in req.ended : Here(x)' => Here(Keeper(req, x))'
        BY <1>1, <1>2, <3>1, <3>2 DEF Here
      <3>5. QED
        BY <3>3, <3>4 DEF Paired
    <2>4. QED
      BY <2>1, <2>2, <2>3
  <1>6. QED
    BY <1>3, <1>4, <1>5

\* A removal is refused only because of something else that is there.
LEMMA RemovalRefused ==
  ASSUME NEW s \in Steps, s.call.effect = "remove", Status(s.call, s.obj) # 200,
         s.call.errors[Status(s.call, s.obj)] # "ok"
  PROVE  \E y \in req.objects : Here(y) /\ s.obj \in Pins(y)
  <1>1. s.call.errors[404] = "ok"
    BY DEF Steps, Calls
  <1>2. s.obj # I!C!Cloud
    BY DEF Steps, Ours, I!C!Cloud
  <1>3. QED
    BY <1>1, <1>2 DEF Status

LEMMA DefaultsAreFree ==
  ASSUME NEW x, x[1] = "default", NEW y
  PROVE  x \notin Pins(y)
  BY DEF Pins, Needs, I!network, I!router, I!security_group, I!volume, I!group, I!Numbered

\* A step fails: the request fails, or nothing is lost but what is excused.
LEMMA ErringStays ==
  ASSUME Inductive, OnCourse, phase = "steps", Due # <<>>, NEW e \in Errors \ {"ok"},
         React(Due, e), UNCHANGED <<req, lacking, seen>>,
         faults < MaxFaults => faults' < MaxFaults,
         \/ waiting /\ cloud' = cloud
         \/ /\ ~waiting /\ cloud' = cloud
            /\ faults' < MaxFaults \/ lacking # {}
            /\ e # "NotFound" /\ (e = "RemoteServerError" => faults' < MaxFaults)
         \/ /\ ~waiting /\ cloud' = cloud /\ Status(Due.call, Due.obj) # 200
            /\ e = Due.call.errors[Status(Due.call, Due.obj)]
         \/ /\ ~waiting /\ cloud' = Effect(Due) /\ Status(Due.call, Due.obj) = 200
            /\ Due.call.effect # "read" /\ e = "Unknown" /\ faults' < MaxFaults
  PROVE  OnCourse'
  <1> DEFINE s == Due
             status == Status(s.call, s.obj)
  <1>1. TypeOK /\ req \in Requests /\ seen \in SUBSET req.objects /\ pc \in Nat \ {0}
    BY DEF Inductive, TypeOK
  <1>2. s \in Steps /\ s.obj \in req.objects \cup {I!C!Cloud}
    BY <1>1, StepDue
  <1>3. s.failing \in Reactions /\ s.call.errors \in Truthful
    BY <1>2 DEF Steps, Calls
  <1>4. \/ /\ Advance(1)
           /\ s.failing \in {"warn", "else"} \/ (s.failing = "busy" /\ e = "RemoteServerError")
        \/ /\ phase' = "final" /\ pc' = 1 /\ waiting' = FALSE /\ result' = result
           /\ s.failing = "end" \/ (s.failing = "absent" /\ e = "NotFound")
        \/ phase' = "undo" /\ waiting' = FALSE /\ result' \notin {"none", "ok"}
    BY <1>3, Reacting
  <1>5. Further /\ waiting' = FALSE
    BY <1>4 DEF Further, Advance
  <1>6. Decided' /\ Fresh' /\ Waits'
    BY <1>5, FurtherStays DEF Waits
  <1>7. Paired'
    BY <1>2, DueInOrder, PairsStay
  <1>8. Shown'
    <2>1. CASE Beginning /\ req.op = "UpdateClusterVolumeGroup"
      <3>1. pc = 1 /\ s = Program(req, seen).steps[1]
        BY <2>1 DEF Beginning, Due, program
      <3>2. s.failing = "absent"
        BY <1>1, <2>1, <3>1, UpdateBegins
      <3>3. phase' # "steps"
        BY <1>4, <3>2
      <3>4. QED
        BY <3>3 DEF Shown
    <2>2. CASE ~Beginning \/ req.op # "UpdateClusterVolumeGroup"
      BY <2>2 DEF OnCourse, Shown
    <2>3. QED
      BY <2>1, <2>2
  <1>9. program' = program
    BY DEF program
  <1>10. ASSUME NEW x \in Goals(req), ~Excused(x)'
         PROVE  Kept(x)'
    <2>1. req.op \in Creations \cup Alterations /\ x \in req.objects
      BY <1>1, GoalsAreObjects, RequestsAssumption
    <2>2. /\ Orderly(req, program, pc)
          /\ Awaits(req, program, pc - 1, x) <=>
                Awaits(req, program, pc, x) \/ Brings(req, s, x) \/ Names(s, x)
          /\ s = program.steps[pc]
      BY <2>1, DueInOrder
    <2> DEFINE ahead(k) == Awaits(req, program, k, x)
               brings == Brings(req, s, x)
    <2>3. \/ Reached(x)
          \/ waiting /\ x = s.obj /\ brings
          \/ waiting /\ ahead(pc)
          \/ ~waiting /\ ahead(pc - 1)
      BY <1>10, ExcuseStays DEF OnCourse, Kept, Expected
    <2>4. Pardonable(req, program, pc)
      BY <2>2 DEF Orderly
    <2>5. s.lists = {} => ~Names(s, x)
      BY DEF Names
    <2>6. s.lists = {} /\ Reached(x) => Reached(x)' \/ (x = s.obj /\ brings)
      <3>1. CASE cloud' = cloud
        BY <3>1 DEF Reached
      <3>2. CASE cloud' = Effect(s) /\ status = 200 /\ s.lists = {} /\ Reached(x)
        <4>1. Spoils(req, s, x) => x = s.obj /\ brings
          BY <2>2, <2>5, <3>2 DEF Orderly
        <4> HIDE DEF s, brings
        <4>2. ~Spoils(req, s, x) => Reached(x)'
          BY <1>1, <1>2, <2>1, <3>2, EffectKeepsReached
        <4>3. QED
          BY <4>1, <4>2
      <3>3. QED
        BY <3>1, <3>2
    <2>7. s.call.check = T!NoCheck => ~waiting
      BY DEF OnCourse, Waits
    <2>8. Advance(1) /\ (Reached(x)' \/ ahead(pc)) => Kept(x)'
      <3>1. SUFFICES ASSUME Advance(1), Reached(x)' \/ ahead(pc)
                     PROVE  Kept(x)'
        OBVIOUS
      <3>2. phase' = "steps" /\ waiting' = FALSE /\ pc' - 1 = pc
        BY <1>1, <3>1 DEF Advance
      <3>3. Reached(x)' \/ Awaits(req, Program(req, seen'), pc' - 1, x)
        BY <3>1, <3>2 DEF program
      <3>4. QED
        BY <3>2, <3>3, KeptOnward
    <2>9. Tidying(req, x) => ~(faults' < MaxFaults) /\ lacking = {}
      BY <1>10 DEF Tidying, Excused
    <2>10. Routing(req, x) => ~(faults' < MaxFaults)
      BY <1>10 DEF Routing, Excused
    <2>11. CASE phase' = "undo"
      BY <2>11 DEF Kept
    <2>12. CASE Advance(1) /\ s.failing = "warn"
      <3>1. /\ s.lists = {} /\ s.call.check = T!NoCheck /\ s.call.effect \in {"read", "remove"}
            /\ brings => Tidying(req, x) /\ x = s.obj
        BY <1>10, <2>2, <2>4, <2>12 DEF Pardonable
      <3>2. Reached(x)' \/ ahead(pc) \/ brings
        BY <2>2, <2>3, <2>5, <2>6, <2>7, <3>1
      <3>3. CASE brings
        <4>1. x[1] = "default" /\ x = s.obj /\ s.call.effect = "remove"
          BY <3>1, <3>3 DEF Tidying, Brings
        <4>2. ~waiting /\ ~(faults' < MaxFaults) /\ lacking = {}
          BY <2>7, <2>9, <3>1, <3>3
        <4>3. status # 200 /\ s.call.errors[status] # "ok"
          BY <4>2
        <4>4. \E y \in req.objects : Here(y) /\ s.obj \in Pins(y)
          BY <1>2, <4>1, <4>3, RemovalRefused
        <4>5. QED
          BY <4>1, <4>4, DefaultsAreFree
      <3>4. QED
        BY <2>8, <2>12, <3>2, <3>3
    <2>13. CASE Advance(1) /\ s.failing = "else"
      <3>1. s.lists = {} /\ (ahead(pc - 1) => ahead(pc))
        BY <1>10, <2>2, <2>4, <2>13 DEF Pardonable
      <3>2. Reached(x)' \/ ahead(pc)
        BY <2>2, <2>3, <2>6, <3>1
      <3>3. QED
        BY <2>8, <2>13, <3>2
    <2>14. CASE Advance(1) /\ s.failing = "busy" /\ e = "RemoteServerError"
      <3>1. /\ s.lists = {} /\ s.call.check = T!NoCheck
            /\ brings => Routing(req, x)
        BY <1>10, <2>2, <2>4, <2>14 DEF Pardonable
      <3>2. e # s.call.errors[status] \/ status = 200
        <4>1. status \in {200, 400, 404, 409}
          BY StatusOfRequest
        <4>2. QED
          BY <1>3, <2>14, <4>1 DEF Truthful, T!Statuses
      <3>3. faults' < MaxFaults
        BY <2>7, <2>14, <3>1, <3>2
      <3>4. Reached(x)' \/ ahead(pc)
        BY <2>2, <2>3, <2>5, <2>6, <2>7, <2>10, <3>1, <3>3
      <3>5. QED
        BY <2>8, <2>14, <3>4
    <2>15. CASE phase' = "final" /\ s.failing = "end"
      <3>1. /\ s.call.effect = "read" /\ s.obj = I!C!Cloud
            /\ ahead(pc - 1) => Tidying(req, x)
        BY <1>10, <2>2, <2>4, <2>15 DEF Pardonable
      <3>2. ~waiting
        BY <1>2, <2>7, <3>1 DEF Steps
      <3>3. status = 200
        BY <3>1 DEF Status
      <3>4. cloud' = cloud /\ (faults' < MaxFaults \/ lacking # {})
        BY <3>1, <3>2, <3>3
      <3>5. ~ahead(pc - 1)
        BY <2>9, <3>1, <3>4
      <3>6. Reached(x)'
        BY <2>3, <3>2, <3>4, <3>5 DEF Reached
      <3>7. QED
        BY <2>15, <3>6 DEF Kept
    <2>16. CASE phase' = "final" /\ s.failing = "absent" /\ e = "NotFound"
      <3>1. s.call.effect = "read" /\ pc = 1 /\ s.obj \in req.before
        BY <2>2, <2>4, <2>16 DEF Pardonable
      <3>2. ~waiting
        BY <1>2, <2>7, <3>1 DEF Steps
      <3>3. status # 200 /\ e = s.call.errors[status]
        BY <2>16, <3>1, <3>2
      <3>4. status = 404
        <4>1. status \in {200, 400, 404, 409}
          BY StatusOfRequest
        <4>2. QED
          BY <1>3, <2>16, <3>3, <4>1 DEF Truthful, T!Statuses
      <3>5. ~Here(s.obj)
        BY <3>1, <3>4, StatusOfRequest
      <3>6. Beginning
        BY <3>1, <3>2 DEF Beginning
      <3>7. s.obj \in req.objects
        BY <1>1, <3>1, RequestsAssumption
      <3>8. Here(s.obj)
        BY <3>1, <3>6, <3>7 DEF OnCourse, Fresh, Here
      <3>9. QED
        BY <3>5, <3>8
    <2>17. QED
      BY <1>4, <2>11, <2>12, <2>13, <2>14, <2>15, <2>16
  <1>11. QED
    BY <1>6, <1>7, <1>8, <1>10 DEF OnCourse

\* A step succeeds without changing anything now: what it brings is there already.
LEMMA SucceedingStays ==
  ASSUME Inductive, OnCourse, phase = "steps", Due # <<>>, Succeed(Due),
         UNCHANGED <<req, lacking, cloud, seen, faults>>,
         Due.call.effect \notin {"read", "make"} \/ waiting,
         \A x \in Goals(req) :
            (Brings(req, Due, x) /\ (waiting => x = Due.obj)) => Reached(x)
  PROVE  OnCourse'
  <1> DEFINE s == Due
  <1>1. TypeOK /\ req \in Requests /\ seen \in SUBSET req.objects /\ pc \in Nat \ {0}
    BY DEF Inductive, TypeOK
  <1>2. s \in Steps
    BY <1>1, StepDue
  <1>3. IF s.failing = "else" THEN Advance(2) ELSE Advance(1)
    BY DEF Succeed
  <1>4. Further /\ waiting' = FALSE
    BY <1>3 DEF Further, Advance
  <1>5. Decided' /\ Fresh' /\ Waits'
    BY <1>4, FurtherStays DEF Waits
  <1>6. Paired'
    BY <1>2, DueInOrder, PairsStay
  <1>7. Shown'
    <2>1. CASE Beginning /\ req.op = "UpdateClusterVolumeGroup"
      <3>1. pc = 1 /\ s = Program(req, seen).steps[1] /\ ~waiting
        BY <2>1 DEF Beginning, Due, program
      <3>2. s.call.effect = "read"
        BY <1>1, <2>1, <3>1, UpdateBegins
      <3>3. QED
        BY <3>1, <3>2
    <2>2. CASE ~Beginning \/ req.op # "UpdateClusterVolumeGroup"
      BY <2>2 DEF OnCourse, Shown
    <2>3. QED
      BY <2>1, <2>2
  <1>8. program' = program
    BY DEF program
  <1>9. ASSUME NEW x \in Goals(req), ~Excused(x)'
        PROVE  Kept(x)'
    <2> DEFINE ahead(k) == Awaits(req, program, k, x)
               brings == Brings(req, s, x)
    <2>1. req.op \in Creations \cup Alterations
      BY <1>1, GoalsAreObjects, RequestsAssumption
    <2>2. /\ Orderly(req, program, pc)
          /\ ahead(pc - 1) <=> ahead(pc) \/ brings \/ Names(s, x)
          /\ s = program.steps[pc]
      BY <2>1, DueInOrder
    <2>3. \/ Reached(x)
          \/ waiting /\ x = s.obj /\ brings
          \/ waiting /\ ahead(pc)
          \/ ~waiting /\ ahead(pc - 1)
      BY <1>9, ExcuseStays DEF OnCourse, Kept, Expected
    <2>4. ~Names(s, x)
      <3>1. s.lists = {}
        <4>1. CASE waiting
          BY <1>2, <4>1 DEF OnCourse, Waits, Steps
        <4>2. CASE ~waiting
          BY <2>2, <4>2 DEF Orderly
        <4>3. QED
          BY <4>1, <4>2
      <3>2. QED
        BY <3>1 DEF Names
    <2>5. Reached(x) => Reached(x)'
      BY DEF Reached
    <2>6. brings /\ (waiting => x = s.obj) => Reached(x)'
      BY <2>5
    <2>7. Reached(x)' \/ ahead(pc)
      BY <2>2, <2>3, <2>4, <2>5, <2>6
    <2>8. CASE s.failing # "else"
      <3>1. phase' = "steps" /\ waiting' = FALSE /\ pc' - 1 = pc
        BY <1>1, <1>3, <2>8 DEF Advance
      <3>2. Reached(x)' \/ Awaits(req, Program(req, seen'), pc' - 1, x)
        BY <2>7, <3>1 DEF program
      <3>3. QED
        BY <3>1, <3>2, KeptOnward
    <2>9. CASE s.failing = "else"
      <3>1. phase' = "steps" /\ waiting' = FALSE /\ pc' - 1 = pc + 1
        BY <1>1, <1>3, <2>9 DEF Advance
      <3>2. Pardonable(req, program, pc)
        BY <2>2 DEF Orderly
      <3>3. /\ s.call.effect = "remove" /\ s.call.check # T!NoCheck
            /\ ahead(pc) => brings \/ ahead(pc + 1)
        BY <1>9, <2>2, <2>9, <3>2 DEF Pardonable
      <3>4. brings => x = s.obj
        BY <3>3 DEF Brings
      <3>5. Reached(x)' \/ ahead(pc + 1)
        BY <2>6, <2>7, <3>3, <3>4
      <3>6. Reached(x)' \/ Awaits(req, Program(req, seen'), pc' - 1, x)
        BY <3>1, <3>5 DEF program
      <3>7. QED
        BY <3>1, <3>6, KeptOnward
    <2>10. QED
      BY <2>8, <2>9
  <1>10. QED
    BY <1>5, <1>6, <1>7, <1>9 DEF OnCourse

LEMMA EffectDomain ==
  ASSUME NEW s, cloud' = Effect(s)
  PROVE  /\ DOMAIN cloud' = DOMAIN cloud
         /\ s.call.effect = "read" => cloud' = cloud
  BY DEF Effect, Absent

\* A step is accepted, and a check of it begins.
LEMMA BeginningStays ==
  ASSUME Inductive, OnCourse, phase = "steps", Due # <<>>, ~waiting,
         Status(Due.call, Due.obj) = 200, cloud' = Effect(Due),
         Due.call.check # T!NoCheck, waiting' = TRUE,
         UNCHANGED <<req, lacking, pc, phase, result, seen, faults>>
  PROVE  OnCourse'
  <1> DEFINE s == Due
  <1>1. TypeOK /\ req \in Requests /\ seen \in SUBSET req.objects
    BY DEF Inductive, TypeOK
  <1>2. s \in Steps /\ s.lists = {}
    BY <1>1, StepDue DEF Steps
  <1>3. program' = program /\ Due' = Due
    BY DEF program, Due
  <1>4. Further
    BY DEF Further
  <1>5. Decided' /\ Fresh' /\ Waits'
    BY <1>3, <1>4, FurtherStays DEF Waits
  <1>6. Paired'
    BY <1>2, DueInOrder, PairsStay
  <1>7. Shown'
    <2>1. CASE Beginning /\ req.op = "UpdateClusterVolumeGroup"
      <3>1. s = Program(req, seen).steps[1]
        BY <2>1 DEF Beginning, Due, program
      <3>2. s.call.check = T!NoCheck
        BY <1>1, <2>1, <3>1, UpdateBegins
      <3>3. QED
        BY <3>2
    <2>2. CASE ~Beginning \/ req.op # "UpdateClusterVolumeGroup"
      BY <2>2 DEF OnCourse, Shown
    <2>3. QED
      BY <2>1, <2>2
  <1>8. ASSUME NEW x \in Goals(req), ~Excused(x)'
        PROVE  Kept(x)'
    <2> DEFINE ahead(k) == Awaits(req, program, k, x)
               brings == Brings(req, s, x)
    <2>1. req.op \in Creations \cup Alterations /\ x \in req.objects
      BY <1>1, GoalsAreObjects, RequestsAssumption
    <2>2. /\ Orderly(req, program, pc)
          /\ ahead(pc - 1) <=> ahead(pc) \/ brings \/ Names(s, x)
          /\ s = program.steps[pc]
      BY <2>1, DueInOrder
    <2>3. Reached(x) \/ ahead(pc - 1)
      BY <1>8, ExcuseStays DEF OnCourse, Kept, Expected
    <2>4. ~Names(s, x)
      BY <1>2 DEF Names
    <2>5. Spoils(req, s, x) => x = s.obj /\ brings
      BY <1>8, <2>2, <2>4 DEF Orderly
    <2>6. ahead(pc) \/ (brings /\ x = s.obj) => Kept(x)'
      BY <1>3 DEF Kept, Expected
    <2>7. Reached(x)' => Kept(x)'
      BY DEF Kept
    <2> HIDE DEF s, brings, ahead
    <2>8. Reached(x) /\ ~Spoils(req, s, x) => Reached(x)'
      BY <1>1, <1>2, <2>1, EffectKeepsReached DEF s
    <2>9. brings /\ x # s.obj => Reached(x)'
      BY <1>1, <1>2, <2>1, EffectBrings DEF s, brings
    <2>10. QED
      BY <2>2, <2>3, <2>4, <2>5, <2>6, <2>7, <2>8, <2>9
  <1>9. QED
    BY <1>5, <1>6, <1>7, <1>8 DEF OnCourse

\* A step is carried out at once, and its answer shows objects, or none.
LEMMA AcceptingStays ==
  ASSUME Inductive, OnCourse, phase = "steps", Due # <<>>, ~waiting,
         Status(Due.call, Due.obj) = 200, cloud' = Effect(Due),
         Due.call.check = T!NoCheck, Succeed(Due),
         seen' = seen \cup {y \in req.objects : cloud'[y] # "absent" /\ y[1] \in Due.lists},
         UNCHANGED <<req, lacking, faults>>
  PROVE  OnCourse'
  <1> DEFINE s == Due
  <1>1. TypeOK /\ req \in Requests /\ seen \in SUBSET req.objects /\ pc \in Nat \ {0}
    BY DEF Inductive, TypeOK
  <1>2. s \in Steps
    BY <1>1, StepDue
  <1>3. DOMAIN cloud = req.objects /\ DOMAIN cloud' = req.objects
    BY <1>1, EffectDomain DEF TypeOK
  <1>4. Further /\ waiting' = FALSE /\ phase' = "steps"
    BY DEF Succeed, Further, Advance
  <1>5. Decided' /\ Fresh' /\ Waits'
    BY <1>4, FurtherStays DEF Waits
  <1>6. Paired'
    BY <1>2, DueInOrder, PairsStay
  <1>7. Shown'
    <2>1. CASE Beginning /\ req.op = "UpdateClusterVolumeGroup"
      <3>1. s = Program(req, seen).steps[1]
        BY <2>1 DEF Beginning, Due, program
      <3>2. s.call.effect = "read" /\ s.lists = {"member"}
        BY <1>1, <2>1, <3>1, UpdateBegins
      <3>3. cloud' = cloud
        BY <3>2, EffectDomain
      <3>4. \A x \in req.ended : x \in req.before /\ x \in req.objects /\ x[1] = "member"
        <4>1. Ended(req) = {x \in req.before : x[1] = "member" /\ x[2] \in I!ToLeave(req)}
          BY <2>1 DEF Ended
        <4>2. req.ended \subseteq Ended(req) /\ req.before \subseteq req.objects
          BY <1>1, GoalsAssumption, RequestsAssumption
        <4>3. QED
          BY <4>1, <4>2
      <3>5. \A x \in req.ended : cloud[x] = "ready"
        BY <2>1, <3>4 DEF OnCourse, Fresh
      <3>6. req.ended \subseteq seen'
        BY <3>2, <3>3, <3>4, <3>5
      <3>7. QED
        BY <3>6 DEF Shown
    <2>2. CASE ~Beginning \/ req.op # "UpdateClusterVolumeGroup"
      BY <2>2 DEF OnCourse, Shown
    <2>3. QED
      BY <2>1, <2>2
  <1>8. ASSUME NEW x \in Goals(req), ~Excused(x)'
        PROVE  Kept(x)'
    <2> DEFINE ahead(k) == Awaits(req, program, k, x)
               brings == Brings(req, s, x)
    <2>1. req.op \in Creations \cup Alterations /\ x \in req.objects
      BY <1>1, GoalsAreObjects, RequestsAssumption
    <2>2. /\ Orderly(req, program, pc)
          /\ ahead(pc - 1) <=> ahead(pc) \/ brings \/ Names(s, x)
          /\ s = program.steps[pc]
          /\ s.lists # {} => Follows(req, seen, pc)
      BY <2>1, DueInOrder
    <2>3. Reached(x) \/ ahead(pc - 1)
      BY <1>8, ExcuseStays DEF OnCourse, Kept, Expected
    <2>4. s.failing # "else"
      BY <2>2 DEF Orderly, Pardonable
    <2>5. pc' - 1 = pc
      BY <1>1, <2>4 DEF Succeed, Advance
    <2>6. Reached(x)' \/ Awaits(req, Program(req, seen'), pc, x) => Kept(x)'
      BY <1>4, <2>5, KeptOnward
    <2>7. Spoils(req, s, x) => (x = s.obj /\ brings) \/ Names(s, x)
      BY <1>8, <2>2 DEF Orderly
    <2>8. Reached(x) /\ ~Spoils(req, s, x) => Reached(x)'
      <3> HIDE DEF s
      <3>1. QED
        BY <1>1, <1>2, <2>1, EffectKeepsReached DEF s
    <2>9. brings => Reached(x)'
      <3> HIDE DEF s, brings
      <3>1. QED
        BY <1>1, <1>2, <2>1, EffectBrings DEF s, brings
    <2>10. CASE s.lists = {}
      <3>1. ~Names(s, x)
        BY <2>10 DEF Names
      <3>2. seen' = seen
        BY <2>10
      <3>3. ahead(pc) => Kept(x)'
        BY <2>6, <3>2 DEF program
      <3>4. QED
        BY <2>2, <2>3, <2>6, <2>7, <2>8, <2>9, <3>1, <3>3
    <2>11. CASE s.lists # {}
      <3>1. /\ s.call.effect \in {"read", "make"}
            /\ pc = 1 \/ req.asked = {}
            /\ req.op \notin {"StartInstance", "StopClusterInstance"}
            /\ (ahead(pc - 1) /\ x \notin req.asked \cap req.before) =>
                  \/ Awaits(req, Program(req, seen'), pc, x)
                  \/ brings
                  \/ x \in req.ended /\ Keeper(req, x)[1] \in s.lists /\ Keeper(req, x) \notin seen'
                  \/ x \in req.asked /\ x[1] \in s.lists /\ s.call.effect = "read" /\ x \in seen'
        <4>1. seen' \in SUBSET req.objects /\ seen \subseteq seen'
          BY <1>1
        <4>2. program = Program(req, seen)
          BY DEF program
        <4>3. QED
          BY <1>8, <2>2, <2>11, <4>1, <4>2 DEF Follows
      <3>2. x \in req.asked => Goal(req, x) = "ready"
        BY <1>1, <1>8, <3>1, GoalsAreObjects DEF Goal
      <3>3. Spoils(req, s, x) => Goal(req, x) # "ready"
        BY <3>1 DEF Spoils
      <3>4. x \in req.asked => /\ pc = 1 /\ seen = {}
                               /\ cloud[x] = IF x \in req.before THEN "ready" ELSE "absent"
        <4>1. SUFFICES ASSUME x \in req.asked
                       PROVE  /\ pc = 1 /\ seen = {}
                              /\ cloud[x] = IF x \in req.before THEN "ready" ELSE "absent"
          OBVIOUS
        <4>2. pc = 1
          BY <3>1, <4>1
        <4>3. Beginning
          BY <4>2 DEF Beginning
        <4>4. QED
          BY <2>1, <3>1, <4>2, <4>3 DEF OnCourse, Fresh
      <3>5. CASE x \in req.asked \cap req.before
        <4>1. Reached(x)
          BY <3>2, <3>4, <3>5 DEF Reached
        <4>2. QED
          BY <2>6, <2>8, <3>2, <3>3, <3>5, <4>1
      <3>6. CASE x \notin req.asked \cap req.before /\ ahead(pc - 1)
        <4>1. CASE x \in req.ended /\ Keeper(req, x)[1] \in s.lists /\ Keeper(req, x) \notin seen'
          <5>1. ~Here(Keeper(req, x))'
            BY <1>3, <4>1 DEF Here
          <5>2. ~Here(x)'
            BY <1>4, <1>6, <4>1, <5>1 DEF Paired
          <5>3. Reached(x)'
            BY <1>3, <2>1, <4>1, <5>2 DEF Here, Reached, Goal
          <5>4. QED
            BY <2>6, <5>3
        <4>2. CASE x \in req.asked /\ x[1] \in s.lists /\ s.call.effect = "read" /\ x \in seen'
          <5>1. cloud' = cloud
            BY <4>2, EffectDomain
          <5>2. cloud[x] # "absent"
            BY <3>4, <4>2, <5>1
          <5>3. QED
            BY <3>4, <3>6, <4>2, <5>2
        <4>3. QED
          BY <2>6, <2>9, <3>1, <3>6, <4>1, <4>2
      <3>7. CASE x \notin req.asked \cap req.before /\ ~ahead(pc - 1)
        <4>1. ~brings /\ ~Names(s, x)
          BY <2>2, <3>7
        <4>2. QED
          BY <2>3, <2>6, <2>7, <2>8, <3>7, <4>1
      <3>8. QED
        BY <3>5, <3>6, <3>7
    <2>12. QED
      BY <2>10, <2>11
  <1>9. QED
    BY <1>5, <1>6, <1>7, <1>8 DEF OnCourse

\* Whatever happens to the step that is due.
ActsOn(s) ==
    \/ Finish(s) \/ NotFoundEndpoint(s) \/ Accepted(s) \/ Refused(s) \/ Judged(s) \/ Skip(s)
    \/ Polled(s) \/ TimeLimit(s) \/ Denied(s) \/ AnswerLost(s) \/ Misjudged(s) \/ PollFails(s)

\* An error in the cleaning up goes no further.
LEMMA LaterReacting ==
  ASSUME phase # "steps", NEW s, NEW e, React(s, e)
  PROVE  result' = result
  BY DEF React, Succeed, Advance, Leave, Fail

LEMMA NotWaiting ==
  ASSUME TypeOK, NEW s, NEW e, Succeed(s) \/ React(s, e)
  PROVE  waiting' = FALSE
  BY SucceedGoes, ReactGoes DEF Goes

\* What no step changes, and how it goes on.
LEMMA StepsGoOn ==
  ASSUME Inductive, ActsOn(Due)
  PROVE  /\ phase \in {"steps", "undo", "final", "back"}
         /\ Onward /\ Waits' /\ UNCHANGED <<req, lacking>>
         /\ phase # "steps" => result' = result
         /\ faults < MaxFaults => faults' < MaxFaults
  <1> DEFINE s == Due
  <1>1. TypeOK
    BY DEF Inductive
  <1>2. Due # <<>> => phase \in {"steps", "undo", "final", "back"}
    BY DEF Due
  <1>3. waiting => Due # <<>>
    BY DEF Inductive
  <1>4. CASE Finish(s)
    BY <1>4 DEF Finish, Onward, Leave, Enter, Waits
  <1>5. ASSUME NEW e, React(s, e) \/ Succeed(s)
        PROVE  Onward /\ Waits' /\ (phase # "steps" => result' = result)
    <2>1. Onward
      BY <1>5, ReactGoesOn, SucceedGoesOn
    <2>2. waiting' = FALSE
      BY <1>1, <1>5, NotWaiting
    <2>3. Succeed(s) => result' = result
      BY DEF Succeed, Advance
    <2>4. QED
      BY <1>5, <2>1, <2>2, <2>3, LaterReacting DEF Waits
  <1>6. ASSUME UNCHANGED faults \/ \E b : Fault(b)
        PROVE  faults < MaxFaults => faults' < MaxFaults
    BY <1>1, <1>6, FaultsFall
  <1>7. CASE NotFoundEndpoint(s)
    BY <1>2, <1>5, <1>7 DEF NotFoundEndpoint, Ready
  <1>8. CASE Refused(s)
    BY <1>2, <1>5, <1>8 DEF Refused, Sendable, Ready
  <1>9. CASE Judged(s)
    BY <1>2, <1>5, <1>9 DEF Judged, Ready
  <1>10. CASE Skip(s)
    BY <1>2, <1>10 DEF Skip, Onward, Advance, Waits
  <1>11. CASE Polled(s)
    BY <1>2, <1>3, <1>5, <1>11 DEF Polled
  <1>12. CASE TimeLimit(s)
    BY <1>2, <1>3, <1>5, <1>12 DEF TimeLimit
  <1>13. CASE Denied(s)
    BY <1>2, <1>5, <1>6, <1>13 DEF Denied, Sendable, Ready
  <1>14. CASE AnswerLost(s)
    BY <1>2, <1>5, <1>6, <1>14 DEF AnswerLost, Sendable, Ready
  <1>15. CASE Misjudged(s)
    BY <1>2, <1>5, <1>6, <1>15 DEF Misjudged, Ready
  <1>16. CASE PollFails(s)
    BY <1>2, <1>3, <1>5, <1>6, <1>16 DEF PollFails
  <1>17. CASE Accepted(s)
    <2>1. Due # <<>> /\ UNCHANGED <<req, lacking, faults>>
      BY <1>17 DEF Accepted, Sendable, Ready
    <2>2. CASE s.call.check = T!NoCheck
      <3>1. Succeed(s)
        BY <1>17, <2>2 DEF Accepted
      <3>2. QED
        BY <1>2, <1>5, <2>1, <3>1
    <2>3. CASE s.call.check # T!NoCheck
      <3>1. UNCHANGED <<pc, phase, result>>
        BY <1>17, <2>3 DEF Accepted
      <3>2. s.lists = {}
        BY <1>1, <2>1, <2>3, StepDue DEF Steps
      <3>3. seen' = seen
        BY <1>17, <3>2 DEF Accepted
      <3>4. Due' = Due
        BY <2>1, <3>1, <3>3 DEF Due, program
      <3>5. QED
        BY <1>2, <2>1, <2>3, <3>1, <3>4 DEF Onward, Waits
    <2>4. QED
      BY <2>2, <2>3
  <1>18. QED
    BY <1>4, <1>7, <1>8, <1>9, <1>10, <1>11, <1>12, <1>13, <1>14, <1>15, <1>16, <1>17 DEF ActsOn

-----------------------------------------------------------------------------
(* The steps *)

\* The errors that an action may raise.
LEMMA ErrorsOfCalls ==
  ASSUME NEW s \in Steps
  PROVE  /\ s.call.errors \in Truthful
         /\ \A c \in {400, 401, 403, 404, 409, 500} : s.call.errors[c] \in Errors
         /\ \A c \in {400, 401, 403, 409, 500} : s.call.errors[c] \notin {"ok", "NotFound"}
         /\ \A c \in {400, 401, 403, 404, 409} : s.call.errors[c] # "RemoteServerError"
         /\ s.call.errors[404] = "ok" => s.call.effect = "remove"
  BY DEF Steps, Calls, Truthful, T!Statuses

LEMMA RefusingStays ==
  ASSUME Inductive, OnCourse, phase = "steps", Refused(Due)
  PROVE  OnCourse'
  <1> DEFINE s == Due
             e == s.call.errors[Status(s.call, s.obj)]
  <1>1. TypeOK /\ req \in Requests
    BY DEF Inductive, TypeOK
  <1>2. /\ Due # <<>> /\ ~waiting /\ Status(s.call, s.obj) # 200 /\ React(s, e)
        /\ UNCHANGED <<req, lacking, cloud, seen, faults>>
    BY DEF Refused, Sendable, Ready
  <1>3. s \in Steps /\ s.obj \in req.objects \cup {I!C!Cloud}
    BY <1>1, <1>2, StepDue
  <1>4. Status(s.call, s.obj) \in {400, 404, 409}
    BY <1>2, StatusOfRequest
  <1>5. CASE e = "ok"
    <2>1. s.call.effect = "remove" /\ Status(s.call, s.obj) = 404
      BY <1>3, <1>4, <1>5, ErrorsOfCalls
    <2>2. Succeed(s)
      BY <1>2, <1>5 DEF React
    <2>3. ~Here(s.obj) /\ s.obj # I!C!Cloud
      BY <2>1, StatusOfRequest
    <2>4. ASSUME NEW x \in Goals(req), Brings(req, s, x)
          PROVE  Reached(x)
      <3>1. x \in req.objects /\ req.op \in Creations \cup Alterations
        BY <1>1, GoalsAreObjects, RequestsAssumption
      <3>2. Goal(req, x) = "absent" /\ x \in req.ended
        BY <2>1, <2>4, GoalsAreStates DEF Brings
      <3>3. x = s.obj \/ s.obj = Keeper(req, x)
        BY <1>2, <2>1, <2>4, <3>1, DueInOrder DEF Cascades
      <3>4. ~Here(x)
        BY <2>3, <3>2, <3>3 DEF OnCourse, Paired
      <3>5. QED
        BY <1>1, <3>1, <3>2, <3>4 DEF Here, Reached, TypeOK
    <2>5. QED
      BY <1>2, <2>1, <2>2, <2>4, SucceedingStays
  <1>6. CASE e # "ok"
    <2>1. e \in Errors \ {"ok"}
      BY <1>3, <1>4, <1>6, ErrorsOfCalls
    <2>2. QED
      BY <1>2, <2>1, ErringStays
  <1>7. QED
    BY <1>5, <1>6

LEMMA PollingStays ==
  ASSUME Inductive, OnCourse, phase = "steps", Polled(Due)
  PROVE  OnCourse'
  <1> DEFINE s == Due
  <1>1. TypeOK /\ req \in Requests
    BY DEF Inductive, TypeOK
  <1>2. Due # <<>> /\ waiting /\ s.call.check # T!NoCheck
    BY DEF Polled, OnCourse, Waits
  <1>3. UNCHANGED <<req, lacking, cloud, seen, faults>>
    BY DEF Polled
  <1>4. CASE cloud[s.obj] \in s.call.check.done /\ Succeed(s)
    <2>1. ASSUME NEW x \in Goals(req), Brings(req, s, x), x = s.obj
          PROVE  Reached(x)
      BY <1>2, <1>4, <2>1 DEF Brings, Reached
    <2>2. QED
      BY <1>2, <1>3, <1>4, <2>1, SucceedingStays
  <1>5. CASE React(s, IF Here(s.obj) THEN "RemoteServerError" ELSE "NotFound")
    <2> DEFINE e == IF Here(s.obj) THEN "RemoteServerError" ELSE "NotFound"
    <2>1. e \in Errors \ {"ok"} /\ React(s, e)
      BY <1>5 DEF Errors
    <2> HIDE DEF e
    <2>2. QED
      BY <1>2, <1>3, <2>1, ErringStays
  <1>6. QED
    BY <1>4, <1>5 DEF Polled

\* The errors that are not the cloud's refusal.
LEMMA HinderedStays ==
  ASSUME Inductive, OnCourse, phase = "steps",
         \/ NotFoundEndpoint(Due) \/ Denied(Due) \/ AnswerLost(Due) \/ Misjudged(Due)
         \/ TimeLimit(Due) \/ PollFails(Due)
  PROVE  OnCourse'
  <1> DEFINE s == Due
  <1>1. TypeOK
    BY DEF Inductive
  <1>2. Due # <<>>
    BY DEF NotFoundEndpoint, Denied, AnswerLost, Misjudged, TimeLimit, PollFails, Sendable, Ready,
           Inductive
  <1>3. s \in Steps
    BY <1>1, <1>2, StepDue
  <1>4. UNCHANGED <<req, lacking, seen>> /\ (faults < MaxFaults => faults' < MaxFaults)
    BY StepsGoOn DEF ActsOn, NotFoundEndpoint, Denied, AnswerLost, Misjudged, TimeLimit, PollFails
  <1>5. {"NotFoundEndpoint", "Unknown"} \subseteq Errors \ {"ok"}
    BY DEF Errors
  <1>6. \A b : Fault(b) => faults' < MaxFaults
    BY <1>1, FaultsFall
  <1>7. CASE NotFoundEndpoint(s)
    <2>1. ~waiting /\ cloud' = cloud /\ lacking # {} /\ React(s, "NotFoundEndpoint")
      BY <1>7 DEF NotFoundEndpoint, Ready
    <2>2. QED
      BY <1>2, <1>4, <1>5, <2>1, ErringStays
  <1>8. CASE Denied(s)
    <2>1. PICK c \in T!Statuses \ {404} : React(s, s.call.errors[c])
      BY <1>8 DEF Denied
    <2> DEFINE e == s.call.errors[c]
    <2>2. ~waiting /\ cloud' = cloud /\ faults' < MaxFaults
      BY <1>6, <1>8 DEF Denied, Sendable, Ready
    <2>3. e \in Errors \ {"ok"} /\ e # "NotFound"
      BY <1>3, ErrorsOfCalls DEF T!Statuses
    <2> HIDE DEF e
    <2>4. React(s, e)
      BY <2>1 DEF e
    <2>5. QED
      BY <1>2, <1>4, <2>2, <2>3, <2>4, ErringStays
  <1>9. CASE AnswerLost(s)
    <2>1. /\ ~waiting /\ cloud' = Effect(s) /\ Status(s.call, s.obj) = 200
          /\ s.call.effect # "read" /\ faults' < MaxFaults /\ React(s, "Unknown")
      BY <1>6, <1>9 DEF AnswerLost, Sendable, Ready
    <2>2. QED
      BY <1>2, <1>4, <1>5, <2>1, ErringStays
  <1>10. CASE Misjudged(s)
    <2>1. ~waiting /\ cloud' = cloud /\ faults' < MaxFaults /\ React(s, "Unknown")
      BY <1>6, <1>10 DEF Misjudged, Ready
    <2>2. QED
      BY <1>2, <1>4, <1>5, <2>1, ErringStays
  <1>11. CASE TimeLimit(s) \/ PollFails(s)
    <2>1. waiting /\ cloud' = cloud /\ React(s, "Unknown")
      BY <1>11 DEF TimeLimit, PollFails
    <2>2. QED
      BY <1>2, <1>4, <1>5, <2>1, ErringStays
  <1>12. QED
    BY <1>7, <1>8, <1>9, <1>10, <1>11

\* The last step is done.
LEMMA FinishingStays ==
  ASSUME Inductive, OnCourse, phase = "steps", Finish(Due)
  PROVE  OnCourse'
  <1>1. TypeOK /\ req \in Requests /\ seen \in SUBSET req.objects /\ pc \in Nat \ {0}
    BY DEF Inductive, TypeOK
  <1>2. /\ Due = <<>> /\ phase' = "final" /\ pc' = 1 /\ waiting' = FALSE /\ result' = result
        /\ UNCHANGED <<req, lacking, cloud, seen, faults>>
    BY DEF Finish, Leave, Enter
  <1>3. ~waiting /\ program' = program
    BY <1>2 DEF OnCourse, Waits, program
  <1>4. program.steps \in Seq(Steps) /\ program.final \in Seq(Steps)
    BY <1>1, ProgramOfRequest DEF Requested
  <1>5. pc \notin DOMAIN program.steps
    <2>1. \A s \in Steps : s # <<>>
      BY DEF Steps
    <2>2. pc \in DOMAIN program.steps => Due \in Steps
      BY <1>4 DEF Due
    <2>3. QED
      BY <1>2, <2>1, <2>2
  <1>6. Waits' /\ Decided' /\ Fresh' /\ Paired' /\ Shown'
    BY <1>2 DEF OnCourse, Waits, Decided, Undecided, Fresh, Beginning, Paired, Shown
  <1>7. ASSUME NEW x \in Goals(req), ~Excused(x)'
        PROVE  Kept(x)'
    <2>1. Reached(x) \/ Awaits(req, program, pc - 1, x)
      BY <1>2, <1>3, <1>7, ExcuseStays DEF OnCourse, Kept, Expected
    <2>2. result = "none"
      BY DEF OnCourse, Decided, Undecided
    <2>3. CASE Reached(x)
      BY <1>2, <2>2, <2>3 DEF Kept, Reached
    <2>4. CASE Awaits(req, program, pc - 1, x)
      <3> HIDE DEF program
      <3>1. ~\E j \in DOMAIN program.steps : j > pc - 1
        BY <1>1, <1>4, <1>5
      <3>2. \E j \in DOMAIN program.final : j >= 1 /\ Brings(req, program.final[j], x)
        BY <1>4, <2>4, <3>1 DEF Awaits
      <3>3. QED
        BY <1>2, <1>3, <2>2, <3>2 DEF Kept
    <2>5. QED
      BY <2>1, <2>3, <2>4
  <1>8. QED
    BY <1>2, <1>6, <1>7 DEF OnCourse

\* One step of the program of a request.
LEMMA StepsStay ==
  ASSUME Inductive, OnCourse, phase = "steps", ActsOn(Due)
  PROVE  OnCourse'
  <1> DEFINE s == Due
  <1>1. TypeOK /\ req \in Requests
    BY DEF Inductive, TypeOK
  <1>2. CASE Finish(s)
    BY <1>2, FinishingStays
  <1>3. CASE \/ NotFoundEndpoint(s) \/ Denied(s) \/ AnswerLost(s) \/ Misjudged(s)
             \/ TimeLimit(s) \/ PollFails(s)
    BY <1>3, HinderedStays
  <1>4. CASE Refused(s)
    BY <1>4, RefusingStays
  <1>5. CASE Polled(s)
    BY <1>5, PollingStays
  <1>6. CASE Accepted(s)
    <2>1. /\ Due # <<>> /\ ~waiting /\ Status(s.call, s.obj) = 200 /\ cloud' = Effect(s)
          /\ seen' = seen \cup {y \in req.objects : cloud'[y] # "absent" /\ y[1] \in s.lists}
          /\ UNCHANGED <<req, lacking, faults>>
      BY <1>6 DEF Accepted, Sendable, Ready
    <2>2. CASE s.call.check = T!NoCheck
      <3>1. Succeed(s)
        BY <1>6, <2>2 DEF Accepted
      <3>2. QED
        BY <2>1, <2>2, <3>1, AcceptingStays
    <2>3. CASE s.call.check # T!NoCheck
      <3>1. waiting' = TRUE /\ UNCHANGED <<pc, phase, result>>
        BY <1>6, <2>3 DEF Accepted
      <3>2. s.lists = {}
        BY <1>1, <2>1, <2>3, StepDue DEF Steps
      <3>3. seen' = seen
        BY <2>1, <3>2
      <3>4. QED
        BY <2>1, <2>3, <3>1, <3>3, BeginningStays
    <2>4. QED
      BY <2>2, <2>3
  <1>7. CASE Judged(s)
    <2>1. /\ Due # <<>> /\ Succeed(s) /\ s.call.effect \in {"judge", "connect"}
          /\ UNCHANGED <<req, lacking, cloud, seen, faults>>
      BY <1>7 DEF Judged, Ready, Inside
    <2>2. \A x : ~Brings(req, s, x)
      BY <2>1 DEF Brings
    <2>3. QED
      BY <2>1, <2>2, SucceedingStays
  <1>8. CASE Skip(s)
    <2>1. /\ Due # <<>> /\ s.when # <<>> /\ Advance(1)
          /\ UNCHANGED <<req, lacking, cloud, seen, faults>>
      BY <1>8 DEF Skip, Skipped
    <2>2. req.op \notin Creations \cup Alterations
      BY <2>1, DueInOrder DEF Orderly
    <2>3. Goals(req) = {}
      BY <1>1, <2>2, GoalsAreObjects, RequestsAssumption
    <2>4. Further /\ Waits'
      BY <2>1 DEF Further, Advance, Waits
    <2>5. Decided' /\ Fresh'
      BY <2>4, FurtherStays
    <2>6. Paired' /\ Shown'
      BY <2>1, <2>2 DEF OnCourse, Paired, Shown, Here, Advance, Creations
    <2>7. QED
      BY <2>1, <2>3, <2>4, <2>5, <2>6 DEF OnCourse
  <1>9. QED
    BY <1>2, <1>3, <1>4, <1>5, <1>6, <1>7, <1>8 DEF ActsOn

-----------------------------------------------------------------------------
(* After the steps *)

\* The ports that a server leaves behind are removed, or excused.
LEMMA TidyingStays ==
  ASSUME Inductive, OnCourse, phase = "final", result = "none", ActsOn(Due),
         NEW x \in Goals(req), ~Excused(x)'
  PROVE  Kept(x)'
  <1> DEFINE s == Due
             later(k) == \E j \in DOMAIN program.final :
                            j >= k /\ Brings(req, program.final[j], x)
  <1>1. TypeOK /\ req \in Requests /\ seen \in SUBSET req.objects /\ pc \in Nat \ {0}
    BY DEF Inductive, TypeOK
  <1>2. UNCHANGED <<req, lacking>> /\ (faults < MaxFaults => faults' < MaxFaults)
    BY StepsGoOn
  <1>3. x \in req.objects /\ req.op \in Creations \cup Alterations
    BY <1>1, GoalsAreObjects, RequestsAssumption
  <1>4. Tended(req, seen) /\ program.final \in Seq(Steps)
    BY <1>1, <1>3, RequestsAreTended, ProgramOfRequest DEF Requested
  <1>5. /\ program.final # <<>> => req.op = "DeleteClusterInstance"
        /\ \A j \in DOMAIN program.final : Tidies(program.final[j])
    BY <1>4 DEF Tended, program
  <1>6. Reached(x) \/ later(pc)
    BY <1>2, ExcuseStays DEF OnCourse, Kept
  <1>7. CASE Finish(s)
    <2>1. /\ Due = <<>> /\ phase' = "convert" /\ cloud' = cloud
      BY <1>7 DEF Finish, Leave, Enter
    <2>2. pc \notin DOMAIN program.final
      <3>1. \A t \in Steps : t # <<>>
        BY DEF Steps
      <3>2. pc \in DOMAIN program.final => Due \in Steps
        BY <1>4 DEF Due
      <3>3. QED
        BY <2>1, <3>1, <3>2
    <2>3. ~later(pc)
      <3> HIDE DEF program
      <3>1. QED
        BY <1>1, <1>4, <2>2
    <2>4. QED
      BY <1>2, <1>6, <2>1, <2>3 DEF Kept, Reached
  <1>8. CASE ~Finish(s)
    <2>1. Due # <<>>
      BY <1>8 DEF ActsOn, NotFoundEndpoint, Accepted, Refused, Judged, Skip, Polled, TimeLimit,
              Denied, AnswerLost, Misjudged, PollFails, Sendable, Ready, Inductive
    <2>2. pc \in DOMAIN program.final /\ s = program.final[pc]
      BY <2>1 DEF Due
    <2>3. req.op = "DeleteClusterInstance"
      <3> HIDE DEF program
      <3>1. program.final # <<>>
        BY <2>2
      <3>2. QED
        BY <1>5, <3>1
    <2>4. /\ s.call.effect = "remove" /\ s.call.check = T!NoCheck
          /\ s.failing = "warn" /\ s.lists = {} /\ s.when = <<>> /\ s.obj[1] = "port"
      BY <1>5, <2>2 DEF Tidies
    <2>5. s \in Steps /\ s.obj \in req.objects \cup {I!C!Cloud} /\ s.obj # I!C!Cloud
      BY <1>1, <2>1, <2>4, StepDue DEF I!C!Cloud
    <2>6. ~waiting
      BY <2>4 DEF OnCourse, Waits
    <2>7. req.asked = {} /\ x \in req.ended /\ Goal(req, x) = "absent"
      BY <1>1, <2>3, NothingIsAsked DEF Alterations, Goal
    <2>8. Brings(req, s, x) => x = s.obj /\ x[1] = "port"
      BY <2>4 DEF Brings, GoesWith
    <2>9. ASSUME Advance(1), seen' = seen, Reached(x) => Reached(x)',
                 Brings(req, s, x) => Reached(x)'
          PROVE  Kept(x)'
      <3>1. program' = program /\ phase' = "final" /\ result' = "none" /\ pc' = pc + 1
        BY <1>2, <2>9 DEF program, Advance
      <3>2. Reached(x)' \/ \E j \in DOMAIN program.final :
                              j >= pc + 1 /\ Brings(req, program.final[j], x)
        <4> HIDE DEF program, s
        <4>1. \A j \in DOMAIN program.final : j >= pc => j = pc \/ j >= pc + 1
          BY <1>1, <1>4
        <4>2. QED
          BY <1>6, <2>2, <2>9, <4>1
      <3>3. QED
        BY <1>2, <3>1, <3>2 DEF Kept
    <2>10. ASSUME NEW e, React(s, e)
           PROVE  Advance(1)
      BY <2>4, <2>10 DEF React, Succeed
    <2>11. cloud' = cloud => (Reached(x) => Reached(x)')
      BY <1>2 DEF Reached
    <2>12. ~(Judged(s) \/ Misjudged(s) \/ Skip(s) \/ Polled(s) \/ TimeLimit(s) \/ PollFails(s))
      BY <2>4, <2>6 DEF Judged, Misjudged, Inside, Skip, Skipped, Polled, TimeLimit, PollFails
    <2>13. CASE Accepted(s)
      <3>1. Status(s.call, s.obj) = 200 /\ cloud' = Effect(s) /\ Succeed(s)
        BY <1>8, <2>4, <2>13 DEF Accepted
      <3>2. seen' = seen
        BY <2>4, <2>13 DEF Accepted
      <3>3. Advance(1)
        BY <2>4, <3>1 DEF Succeed
      <3>4. ~Spoils(req, s, x)
        BY <2>4, <2>7 DEF Spoils
      <3> HIDE DEF s
      <3>5. Reached(x) => Reached(x)'
        BY <1>1, <1>2, <1>3, <2>5, <3>1, <3>4, EffectKeepsReached
      <3>6. Brings(req, s, x) => Reached(x)'
        BY <1>1, <1>2, <1>3, <2>4, <2>5, <3>1, EffectBrings
      <3>7. QED
        BY <2>9, <3>2, <3>3, <3>5, <3>6
    <2>14. CASE Refused(s)
      <3>1. Status(s.call, s.obj) # 200 /\ cloud' = cloud /\ seen' = seen
        BY <2>14 DEF Refused
      <3>2. Advance(1)
        BY <2>10, <2>14 DEF Refused
      <3>3. ~Here(s.obj)
        <4>1. \A y \in req.objects : s.obj \notin Pins(y)
          <5>1. ASSUME NEW y \in req.objects, y[1] # "interface"
                PROVE  s.obj \notin Pins(y)
            BY <2>4, <5>1 DEF Pins, Needs, I!network, I!router, I!security_group, I!volume, I!group
          <5>2. QED
            BY <1>1, <2>3, <5>1, GoalsAssumption
        <4>2. QED
          BY <2>4, <2>5, <3>1, <4>1 DEF Status
      <3>4. Brings(req, s, x) => Reached(x)'
        BY <1>1, <1>2, <1>3, <2>7, <2>8, <3>1, <3>3 DEF Reached, Here, TypeOK
      <3>5. QED
        BY <2>9, <2>11, <3>1, <3>2, <3>4
    <2>15. CASE NotFoundEndpoint(s) \/ Denied(s) \/ AnswerLost(s)
      <3>1. seen' = seen /\ (lacking # {} \/ faults' < MaxFaults)
        BY <1>1, <2>15, FaultsFall DEF NotFoundEndpoint, Denied, AnswerLost
      <3>2. Advance(1)
        BY <2>10, <2>15 DEF NotFoundEndpoint, Denied, AnswerLost
      <3>3. ~Brings(req, s, x)
        BY <1>2, <2>7, <2>8, <3>1 DEF Excused
      <3>4. Reached(x) => Reached(x)'
        <4>1. CASE cloud' = cloud
          BY <2>11, <4>1
        <4>2. CASE AnswerLost(s)
          <5>1. Status(s.call, s.obj) = 200 /\ cloud' = Effect(s)
            BY <4>2 DEF AnswerLost
          <5>2. ~Spoils(req, s, x)
            BY <2>4, <2>7 DEF Spoils
          <5> HIDE DEF s
          <5>3. QED
            BY <1>1, <1>2, <1>3, <2>5, <5>1, <5>2, EffectKeepsReached
        <4>3. QED
          BY <2>15, <4>1, <4>2 DEF NotFoundEndpoint, Denied
      <3>5. QED
        BY <2>9, <3>1, <3>2, <3>3, <3>4
    <2>16. QED
      BY <1>8, <2>12, <2>13, <2>14, <2>15 DEF ActsOn
  <1>9. QED
    BY <1>7, <1>8

LEMMA AfterwardsStays ==
  ASSUME Inductive, OnCourse, phase # "steps", ActsOn(Due)
  PROVE  OnCourse'
  <1>1. /\ phase \in {"undo", "final", "back"} /\ Onward /\ Waits' /\ result' = result
        /\ UNCHANGED <<req, lacking>>
    BY StepsGoOn
  <1>2. CASE phase \in {"undo", "back"} \/ result # "none"
    BY <1>1, <1>2, CleaningStays
  <1>3. CASE phase = "final" /\ result = "none"
    <2>1. phase' \in {"final", "convert"}
      BY <1>1, <1>3 DEF Onward, Leave, Enter
    <2>2. Decided' /\ Fresh' /\ Paired' /\ Shown'
      BY <1>1, <1>3, <2>1 DEF Decided, Undecided, Fresh, Beginning, Paired, Shown
    <2>3. \A x \in Goals(req) : Excused(x)' \/ Kept(x)'
      BY <1>3, TidyingStays
    <2>4. QED
      BY <1>1, <2>2, <2>3 DEF OnCourse
  <1>4. QED
    BY <1>1, <1>2, <1>3

-----------------------------------------------------------------------------
(* What is reported as done is done *)

LEMMA BlameStays ==
  ASSUME [Next]_vars, "meddle" \in blame
  PROVE  "meddle" \in blame'
  <1>1. ASSUME NEW b, Fault(b)
        PROVE  "meddle" \in blame'
    BY <1>1 DEF Fault
  <1>2. CASE \/ Validate \/ Connected \/ NotConnected \/ Convert \/ ConvertFails
             \/ Settle \/ SettleBadly \/ Meddle \/ UNCHANGED vars
    BY <1>1, <1>2 DEF Validate, Connected, NotConnected, Convert, ConvertFails, Settle, SettleBadly,
                      Meddle, vars
  <1>3. ASSUME NEW s, ActsOn(s)
        PROVE  "meddle" \in blame'
    BY <1>1, <1>3 DEF ActsOn, Finish, NotFoundEndpoint, Accepted, Refused, Judged, Skip, Polled,
                      TimeLimit, Denied, AnswerLost, Misjudged, PollFails
  <1>4. QED
    BY <1>2, <1>3 DEF Next, Work, Faults, ActsOn

LEMMA StepPromised ==
  ASSUME Inductive, Promised, [Next]_vars
  PROVE  Promised'
  <1>1. SUFFICES ASSUME "meddle" \notin blame'
                 PROVE  OnCourse'
    BY DEF Promised
  <1>2. OnCourse
    BY <1>1, BlameStays DEF Promised
  <1>3. CASE Validate \/ Connected \/ NotConnected \/ Convert \/ ConvertFails
    BY <1>2, <1>3, BeforeAndAfter
  <1>4. CASE Settle \/ SettleBadly
    BY <1>2, <1>4, SettlingStays
  <1>5. CASE Meddle
    BY <1>1, <1>5 DEF Meddle, Fault
  <1>6. CASE ActsOn(Due)
    BY <1>2, <1>6, StepsStay, AfterwardsStays
  <1>7. CASE UNCHANGED vars
    <2>1. UNCHANGED <<req, lacking, phase, pc, waiting, cloud, seen, result, faults>>
      BY <1>7 DEF vars
    <2>2. program' = program /\ Due' = Due
      BY <2>1 DEF program, Due
    <2>3. Waits' /\ Decided' /\ Fresh' /\ Paired' /\ Shown'
      BY <1>2, <2>1, <2>2
         DEF OnCourse, Waits, Decided, Undecided, Fresh, Beginning, Paired, Shown, Here
    <2>4. \A x \in Goals(req) : Excused(x)' \/ Kept(x)'
      BY <1>2, <2>1, <2>2 DEF OnCourse, Excused, Kept, Expected, Reached
    <2>5. QED
      BY <2>1, <2>3, <2>4 DEF OnCourse
  <1>8. QED
    BY <1>3, <1>4, <1>5, <1>6, <1>7 DEF Next, Work, Faults, ActsOn

LEMMA PromiseIsKept ==
  ASSUME TypeOK, Promised
  PROVE  SuccessMeansDone
  <1>1. SUFFICES ASSUME phase = "end", result = "ok", "meddle" \notin blame
                 PROVE  /\ \A x \in req.asked :
                             \/ cloud[x] = IF req.op = "StopClusterInstance" THEN "off" ELSE "ready"
                             \/ x[1] = "route" /\ faults < MaxFaults
                        /\ \A x \in req.ended :
                             \/ cloud[x] = "absent"
                             \/ x[1] \in {"port", "default"} /\ (faults < MaxFaults \/ lacking # {})
    BY DEF SuccessMeansDone
  <1>2. \A x \in Goals(req) : Excused(x) \/ cloud[x] = Goal(req, x)
    BY <1>1 DEF Promised, OnCourse, Kept, Reached
  <1>3. req \in Requests /\ req.asked \cap req.ended = {}
    BY GoalsAssumption DEF TypeOK
  <1>4. QED
    BY <1>2, <1>3 DEF Goals, Goal, Excused

\* From the first request to the cloud until the handler ends, whatever was asked
\* for is there, or a step that is still to come brings it, or names it so that a
\* later one does: no failure that the code passes over takes it away, and no
\* list read half-way leaves it out (the loops over what an answer showed).
THEOREM PromiseStands == Spec => []Promised
  <1>1. Init => Promised
    BY OnCourseAtFirst DEF Promised
  <1>2. Inductive /\ Promised /\ [Next]_vars => Promised'
    BY StepPromised
  <1>3. QED
    BY <1>1, <1>2, RequestsInductive, PTL DEF Spec

\* Whatever the request, its numbers and the faults, success is only reported when
\* everything asked for is there and everything to be deleted is gone: although
\* the programs go by what the answers showed, although failures are passed over
\* (warn, busy, else), and although the cloud finishes on its own what it began
\* (the methods of openstack.go with their checks).
THEOREM SuccessIsHonest == Spec => []SuccessMeansDone
  <1>1. Inductive /\ Promised => SuccessMeansDone
    BY PromiseIsKept DEF Inductive
  <1>2. QED
    BY <1>1, PromiseStands, RequestsInductive, PTL
=============================================================================
