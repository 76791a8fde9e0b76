------------------------ MODULE ResourceReadsProofs ------------------------
(***************************************************************************)
(* What holds of every request, every content of the tables and any number *)
(* of changes and faults. Honest is inductive as it stands, because a query *)
(* finds only rows that are there when it is made, and what the others     *)
(* remove they remove from `always` as well. The types and the causes of   *)
(* errors need Inductive besides: the queries that are left are orderly, and *)
(* the query that asks whether a user of the tenant is allowed is made only *)
(* after the cluster has been found under that tenant.                     *)
(***************************************************************************)
EXTENDS ReadProgramsProofs

\* LIMIT and OFFSET choose among the rows that match.
LEMMA PageChooses ==
  ASSUME NEW S, NEW xs \in paginationFilter(S)
  PROVE  xs \subseteq S
  BY DEF paginationFilter, kSubset

\* What a query shows of the rows it finds was there when it was made.
LEMMA ShownIsThere ==
  ASSUME NEW q, NEW xs \in Found(q)
  PROVE  Shown(q, xs) \subseteq db
  <1>1. Joined(xs, q.joins) \subseteq db
    BY DEF Joined
  <1>2. CASE q.ask = "each"
    BY <1>2 DEF Shown
  <1>3. CASE q.ask # "each"
    <2>1. xs \subseteq db
      <3>1. CASE q.ask \in {"one", "maybe"}
        BY <3>1 DEF Found
      <3>2. CASE q.ask = "many"
        BY <3>2 DEF Found
      <3>3. CASE q.ask = "in"
        BY <3>3 DEF Found
      <3>4. CASE q.ask = "list"
        <4>1. xs \in paginationFilter(Matching(q))
          BY <3>4 DEF Found
        <4>2. Matching(q) \subseteq db
          BY DEF Matching
        <4>3. QED
          BY <4>1, <4>2, PageChooses
      <3>5. CASE q.ask = "exists"
        BY <3>5 DEF Found
      <3>6. CASE q.ask \notin {"one", "maybe", "many", "in", "list", "exists"}
        BY <1>3, <3>6 DEF Found
      <3>7. QED
        BY <3>1, <3>2, <3>3, <3>4, <3>5, <3>6
    <2>2. QED
      BY <1>1, <1>3, <2>1 DEF Shown
  <1>4. QED
    BY <1>2, <1>3

\* The handler's last word is not an error about a row.
LEMMA EndIsNoAbsence ==
  ASSUME NEW rest, NEW shown, End(rest, shown) # <<>>
  PROVE  End(rest, shown)[1] \notin {"NotFound", "Unknown"}
  BY DEF End, Verdict

\* A query that fails for a missing row is about a row that is not there.
LEMMA ErrorIsAbsence ==
  ASSUME NEW q, ErrorOf(q) # <<>>, ErrorOf(q)[1] \in {"NotFound", "Unknown"}
  PROVE  ErrorOf(q)[2] \notin db \/ ~SameTenant
  BY DEF ErrorOf

\* Every step keeps Honest.
LEMMA HonestStep ==
  ASSUME Honest, [Next]_vars
  PROVE  Honest'
  <1>1. CASE Reject
    BY <1>1 DEF Honest, Reject, SameTenant
  <1>2. CASE Step
    <2> DEFINE q == Head(todo)
    <2>1. PICK xs \in Found(q) :
             /\ answer' = answer \cup Shown(q, xs)
             /\ result' = End(todo', answer')
      BY <1>2 DEF Step
    <2>2. db \subseteq db' /\ ever' = ever \cup db' /\ UNCHANGED <<req, always>>
      BY <1>2 DEF Step
    <2>3. answer' \subseteq ever'
      BY <2>1, <2>2, ShownIsThere DEF Honest
    <2>4. result' # <<>> => result'[1] \notin {"NotFound", "Unknown"}
      BY <2>1, EndIsNoAbsence
    <2>5. QED
      BY <2>2, <2>3, <2>4 DEF Honest
  <1>3. ASSUME NEW q, NEW error, NEW why, Fail(q, error, why),
               UNCHANGED <<req, db, always, ever>>,
               error[1] \in {"NotFound", "Unknown"} => error[2] \notin db \/ ~SameTenant
        PROVE  Honest'
    <2>1. CASE q.block = <<>>
      <3>1. result' = error /\ answer' = answer
        BY <1>3, <2>1 DEF Fail
      <3>2. QED
        BY <1>3, <3>1 DEF Honest, SameTenant
    <2>2. CASE q.block # <<>>
      <3>1. answer' \subseteq answer /\ result' = End(todo', answer')
        BY <1>3, <2>2 DEF Fail
      <3>2. result' # <<>> => result'[1] \notin {"NotFound", "Unknown"}
        BY <3>1, EndIsNoAbsence
      <3>3. QED
        BY <1>3, <3>1, <3>2 DEF Honest
    <2>3. QED
      BY <2>1, <2>2
  <1>4. CASE StepFails
    BY <1>3, <1>4, ErrorIsAbsence DEF StepFails
  <1>5. CASE Unusable
    <2>1. Fail(Head(todo), <<"UnusableDatabase", req.cluster>>, {"fault"})
      BY <1>5 DEF Unusable
    <2>2. UNCHANGED <<req, db, always, ever>>
      BY <1>5 DEF Unusable
    <2>3. QED
      BY <1>3, <2>1, <2>2
  <1>6. ASSUME NEW x \in Rows, Added(x)
        PROVE  Honest'
    BY <1>6 DEF Added, Honest, SameTenant
  <1>7. ASSUME NEW x \in Rows, Removed(x)
        PROVE  Honest'
    BY <1>7 DEF Removed, Honest, SameTenant
  <1>8. CASE UNCHANGED vars
    BY <1>8 DEF vars, Honest, SameTenant
  <1>9. QED
    BY <1>1, <1>2, <1>4, <1>5, <1>6, <1>7, <1>8 DEF Next

\* A reading interleaved with any changes of the tables shows only rows that
\* were there while it was answered, and calls missing only what was missing
\* at some time (internal/*, Get and GetList).
THEOREM ReadsAreHonest == Spec => []Honest
  <1>1. Init => Honest
    BY DEF Init, Honest
  <1>2. QED
    BY <1>1, HonestStep, PTL DEF Spec

-----------------------------------------------------------------------------
(* The inductive invariant, one part after the other.                      *)

Elements(s) == {s[i] : i \in DOMAIN s}

\* The queries that are left.
Pending ==
    /\ Guarded
    /\ todo \in Seq(Elements(todo))
    /\ \A i \in DOMAIN todo : Orderly(req, todo[i])

\* Inductive part by part.
LEMMA InductiveParts == Inductive <=> TypeOK /\ Honest /\ ErrorsHaveCause /\ Pending
  BY DEF Inductive, Pending, Elements

\* What is known of the request and of the tables.
LEMMA RowsOfRequest ==
  ASSUME TypeOK
  PROVE  /\ Asks(req) /\ db \subseteq Rows /\ IsFiniteSet(db)
         /\ req.user \in Users
  <1>1. req \in Reads /\ db \subseteq req.rows
    BY DEF TypeOK
  <1>2. req.rows \subseteq Rows /\ Asks(req) /\ req.user \in Users
    BY <1>1, ReadsAssumption DEF Asks
  <1>3. QED
    BY <1>1, <1>2, RowsAssumption, FS_Subset

\* What a query finds are rows, and those of its table if its loop asks for groups.
LEMMA FoundRows ==
  ASSUME TypeOK, NEW q, Orderly(req, q), NEW xs \in Found(q)
  PROVE  /\ xs \in SUBSET Rows
         /\ q.then \in {"cluster", "permission"} => \A x \in xs : x[1] = q.then
  <1>1. db \subseteq Rows /\ answer \subseteq Rows
    BY RowsOfRequest DEF TypeOK
  <1>2. CASE q.ask \in {"one", "maybe"}
    BY <1>1, <1>2 DEF Found, Orderly
  <1>3. CASE q.ask = "many"
    BY <1>1, <1>3 DEF Found, Orderly
  <1>4. CASE q.ask = "in"
    BY <1>1, <1>4 DEF Found, Orderly
  <1>5. CASE q.ask = "list"
    <2>1. xs \in paginationFilter(Matching(q))
      BY <1>5 DEF Found
    <2>2. xs \subseteq Matching(q)
      BY <2>1, PageChooses
    <2>3. \A x \in Matching(q) : x \in db /\ x[1] = q.table
      BY DEF Matching
    <2>4. QED
      BY <1>1, <2>2, <2>3 DEF Orderly
  <1>6. CASE q.ask = "exists"
    BY <1>1, <1>6 DEF Found, Orderly
  <1>7. CASE q.ask = "each"
    <2>1. NamedBy({x \in answer : x[1] = q.table}, q.by[1]) \subseteq Rows
      BY <1>1, RowsAssumption DEF NamedBy
    <2>2. xs = IF q.by = <<>> THEN {x \in answer : x[1] = q.table}
               ELSE NamedBy({x \in answer : x[1] = q.table}, q.by[1])
      BY <1>7 DEF Found
    <2>3. QED
      BY <1>1, <1>7, <2>1, <2>2 DEF Orderly
  <1>8. CASE q.ask \notin {"one", "maybe", "many", "in", "list", "exists", "each"}
    BY <1>8 DEF Found, Orderly
  <1>9. QED
    BY <1>2, <1>3, <1>4, <1>5, <1>6, <1>7, <1>8

\* What is left after a query is still orderly, and whoever is still to be asked
\* for the group is of the tenant.
LEMMA PendingAfterStep ==
  ASSUME Inductive, Step
  PROVE  Pending'
  <1> DEFINE q == Head(todo)
  <1>1. /\ todo # <<>> /\ todo \in Seq(Elements(todo)) /\ Guarded /\ TypeOK
        /\ \A e \in Elements(todo) : Orderly(req, e)
    BY InductiveParts DEF Step, Pending, Elements
  <1>2. /\ q = todo[1] /\ 1 \in DOMAIN todo /\ q \in Elements(todo)
        /\ Tail(todo) \in Seq(Elements(todo))
    BY <1>1 DEF Elements
  <1>3. PICK xs \in Found(q) : todo' = Loop(q, xs) \o Tail(todo)
    BY DEF Step
  <1>4. ErrorOf(q) = <<>> /\ req' = req
    BY DEF Step
  <1> HIDE DEF q
  <1>5. IsProgram(req, Loop(q, xs))
    BY <1>1, <1>2, FoundRows, LoopIs, RowsOfRequest
  <1>6. PICK S : Loop(q, xs) \in Seq(S) /\ \A e \in S : Plain(req, e)
    BY <1>5, ProgramSeq
  <1>7. todo' \in Seq(S \cup Elements(todo))
    BY <1>2, <1>3, <1>6
  <1>8. \A e \in S \cup Elements(todo) : Orderly(req, e)
    BY <1>1, <1>6 DEF Plain
  <1>9. \A i \in DOMAIN todo' : todo'[i] \in S \cup Elements(todo)
    BY <1>7
  <1>10. ASSUME NEW i \in DOMAIN todo', todo'[i].ask = "allowed"
         PROVE  SameTenant
    <2>1. todo'[i] \in Elements(todo)
      BY <1>6, <1>9, <1>10 DEF Plain
    <2>2. PICK j \in DOMAIN todo : todo[j].ask = "allowed"
      BY <1>10, <2>1 DEF Elements
    <2>3. SameTenant \/ (q.ask = "one" /\ q.table = "cluster")
      BY <1>1, <1>2, <2>2 DEF Guarded
    <2>4. CASE q.ask = "one" /\ q.table = "cluster"
      <3>1. q.missing \in {"NotFound", "Unknown"}
        BY <1>1, <1>2 DEF Orderly
      <3>2. QED
        BY <1>4, <2>4, <3>1 DEF ErrorOf
    <2>5. QED
      BY <2>3, <2>4
  <1>11. Guarded'
    BY <1>4, <1>10 DEF Guarded, SameTenant
  <1>12. todo' \in Seq(Elements(todo'))
    BY <1>7 DEF Elements
  <1>13. QED
    BY <1>4, <1>8, <1>9, <1>11, <1>12 DEF Pending, Elements

\* The end of a sequence over S.
LEMMA RestOf ==
  ASSUME NEW S, NEW s \in Seq(S), NEW k \in 0..Len(s)
  PROVE  SubSeq(s, k + 1, Len(s)) \in Seq(S)
  <1>1. Len(s) \in Nat /\ k \in Nat /\ k <= Len(s)
    OBVIOUS
  <1>2. \A i \in 1..(Len(s) - k) : i + k \in 1..Len(s) /\ s[i + k] \in S
    BY <1>1
  <1>3. SubSeq(s, k + 1, Len(s)) = [i \in 1..(Len(s) - k) |-> s[i + k]]
    BY <1>1
  <1>4. Len(s) - k \in Nat
    BY <1>1
  <1>5. QED
    BY <1>2, <1>3, <1>4

\* The same after a query that failed: nothing is left, or what comes after the
\* function literal that drops the error.
LEMMA PendingAfterFail ==
  ASSUME Inductive, NEW error, NEW why, todo # <<>>, Fail(Head(todo), error, why), req' = req
  PROVE  Pending'
  <1> DEFINE q == Head(todo)
  <1>1. /\ todo \in Seq(Elements(todo)) /\ Guarded
        /\ \A e \in Elements(todo) : Orderly(req, e)
    BY InductiveParts DEF Pending, Elements
  <1>2. q = todo[1] /\ Len(todo) \in Nat
    BY <1>1
  <1>3. CASE q.block = <<>>
    <2>1. todo' = <<>>
      BY <1>3 DEF Fail
    <2>2. QED
      BY <2>1 DEF Pending, Guarded, Elements
  <1>4. CASE q.block # <<>>
    <2>1. todo' = Skip(q.block)
      BY <1>4 DEF Fail
    <2>2. PICK k \in 0..Len(todo) : Skip(q.block) = SubSeq(todo, k + 1, Len(todo))
      BY <1>1, SkipIs DEF Elements
    <2>3. todo' \in Seq(Elements(todo))
      BY <1>1, <2>1, <2>2, RestOf
    <2>4. \A i \in DOMAIN todo' : todo'[i] \in Elements(todo)
      BY <2>3
    <2>5. \A i \in DOMAIN todo' : todo'[i].ask = "allowed" => SameTenant
      BY <1>1, <1>2, <1>4, <2>4 DEF Guarded, Elements
    <2>6. Guarded'
      BY <2>5 DEF Guarded, SameTenant
    <2>7. todo' \in Seq(Elements(todo'))
      BY <2>3 DEF Elements
    <2>8. QED
      BY <1>1, <2>4, <2>6, <2>7 DEF Pending, Elements
  <1>5. QED
    BY <1>3, <1>4

Results == {"ok", "NoContent", "Parameter", "NotFound", "Unknown", "Unauthorized",
            "UnusableDatabase"}

\* What the end of a program answers.
LEMMA EndResult ==
  ASSUME NEW rest, NEW shown
  PROVE  End(rest, shown) \in {<<>>, <<"ok">>, <<"NoContent">>}
  BY DEF End, Verdict

\* A quotient of numbers is a number.
LEMMA Division ==
  ASSUME NEW a \in Nat, NEW b \in Nat \ {0}
  PROVE  a \div b \in Nat
  OBVIOUS

\* The page and the numbers of pages and rows are numbers.
LEMMA PageType ==
  ASSUME TypeOK, NEW q
  PROVE  Pagination(Cardinality(Matching(q))) \in Nat \X Nat \X Nat
  <1>1. IsFiniteSet(Matching(q))
    BY RowsOfRequest, FS_Subset DEF Matching
  <1>2. Cardinality(Matching(q)) \in Nat
    BY <1>1, FS_CardinalityType
  <1>3. /\ req.offset \in Nat
        /\ req.limit # <<>> => req.limit = <<req.limit[1]>> /\ req.limit[1] \in Nat
    BY ReadsAssumption DEF TypeOK
  <1> DEFINE total == Cardinality(Matching(q))
  <1>4. CASE req.limit \in {<<>>, <<0>>}
    BY <1>2, <1>4 DEF Pagination
  <1>5. CASE req.limit \notin {<<>>, <<0>>}
    <2> DEFINE size == req.limit[1]
    <2>1. size \in Nat \ {0}
      BY <1>3, <1>5
    <2>2. total + size - 1 \in Nat
      BY <1>2, <2>1
    <2> HIDE DEF total, size
    <2>3. req.offset \div size \in Nat
      BY <1>3, <2>1, Division
    <2>4. (total + size - 1) \div size \in Nat
      BY <2>1, <2>2, Division
    <2>5. Pagination(total) = <<req.offset \div size + 1, (total + size - 1) \div size, total>>
      BY <1>5 DEF Pagination, size, total
    <2>6. total \in Nat
      BY <1>2 DEF total
    <2>7. QED
      BY <2>3, <2>4, <2>5, <2>6 DEF total
  <1>6. QED
    BY <1>4, <1>5

\* The types after a query that succeeded.
LEMMA TypesAfterStep ==
  ASSUME Inductive, Step
  PROVE  TypeOK'
  <1> DEFINE q == Head(todo)
  <1>1. TypeOK /\ Pending /\ Pending' /\ req' = req
    BY InductiveParts, PendingAfterStep DEF Step
  <1>2. todo # <<>> /\ Orderly(req, q)
    <2>1. todo # <<>> /\ todo \in Seq(Elements(todo))
      BY <1>1 DEF Step, Pending
    <2>2. q = todo[1] /\ 1 \in DOMAIN todo
      BY <2>1
    <2>3. QED
      BY <1>1, <2>1, <2>2 DEF Pending
  <1>3. PICK xs \in Found(q) :
           answer' = answer \cup Shown(q, xs) /\ result' = End(todo', answer')
    BY DEF Step
  <1>4. /\ sieve' = Sieve(q)
        /\ page' = IF q.ask = "page" /\ Len(todo) = 1
                   THEN Pagination(Cardinality(Matching(q))) ELSE page
        /\ db' = IF q.ask = "save" THEN db \cup {q.by} ELSE db
        /\ UNCHANGED <<events, trouble>>
    BY DEF Step
  <1> HIDE DEF q
  <1>5. db' \subseteq req.rows
    BY <1>1, <1>2, <1>4 DEF TypeOK, Orderly
  <1>6. sieve' \subseteq Rows
    <2>1. \A x \in db : Refs[x] \subseteq Rows
      BY <1>1, RowsOfRequest, RowsAssumption
    <2>2. UNION {Refs[x] : x \in {y \in db : y[1] = q.table /\ Reaches(y, q.by)}} \subseteq Rows
      BY <2>1
    <2>3. QED
      BY <1>1, <1>4, <2>2 DEF Sieve, TypeOK
  <1>7. answer' \subseteq Rows
    BY <1>1, <1>3, ShownIsThere, RowsOfRequest DEF TypeOK
  <1>8. page' = <<>> \/ page' \in Nat \X Nat \X Nat
    BY <1>1, <1>4, PageType DEF TypeOK
  <1>9. result' = <<>> \/ result'[1] \in Results
    BY <1>3, EndResult DEF Results
  <1>10. \A i \in DOMAIN todo' : /\ todo'[i].table \in Q!Tables
                                 /\ todo'[i].missing \in {"NotFound", "Unknown"}
    BY <1>1 DEF Pending, Orderly
  <1>11. QED
    BY <1>1, <1>4, <1>5, <1>6, <1>7, <1>8, <1>9, <1>10 DEF TypeOK, Results

\* The types after a query that failed.
LEMMA TypesAfterFail ==
  ASSUME Inductive, NEW error, NEW why, todo # <<>>, Fail(Head(todo), error, why),
         UNCHANGED <<req, db, sieve, page>>, error[1] \in Results,
         why \subseteq {"fault", "dropped"}, events' \in 0..MaxEvents
  PROVE  TypeOK'
  <1>1. TypeOK /\ Pending'
    BY InductiveParts, PendingAfterFail
  <1>2. \A i \in DOMAIN todo' : /\ todo'[i].table \in Q!Tables
                                /\ todo'[i].missing \in {"NotFound", "Unknown"}
    BY <1>1 DEF Pending, Orderly
  <1>3. answer' \subseteq answer /\ trouble' \subseteq trouble \cup why \cup {"dropped"}
    BY DEF Fail
  <1>4. result' = <<>> \/ result'[1] \in Results
    BY EndResult DEF Fail, Results
  <1>5. QED
    BY <1>1, <1>2, <1>3, <1>4 DEF TypeOK, Results

\* Why an error of a query has the cause that is claimed of it.
LEMMA CauseOfError ==
  ASSUME Inductive, todo # <<>>, NEW error, error = ErrorOf(Head(todo)), error # <<>>
  PROVE  /\ error[1] \in Results
         /\ error[1] \in {"NotFound", "Unknown"} =>
              error[2] \notin db \/ (error[2][1] \in {"cluster", "group"} /\ ~SameTenant)
         /\ error[1] = "Unauthorized" => req.user = "other"
         /\ error[1] = "UnusableDatabase" => ~(Refs[error[2]] \subseteq db)
  <1> DEFINE q == Head(todo)
  <1>1. todo \in Seq(Elements(todo)) /\ Guarded /\ TypeOK
    BY InductiveParts DEF Pending
  <1>2. q = todo[1] /\ 1 \in DOMAIN todo
    BY <1>1
  <1>3. Orderly(req, q) /\ (q.ask = "allowed" => SameTenant)
    BY <1>1, <1>2, InductiveParts DEF Pending, Guarded
  <1> HIDE DEF q
  <1>4. error = ErrorOf(q) /\ req.user \in Users
    BY <1>1, RowsOfRequest DEF q
  <1>5. CASE q.ask = "owner" /\ (q.by \notin db \/ ~(IsAdmin \/ SameTenant))
    <2>1. error = <<"NotFound", q.by>>
      BY <1>4, <1>5 DEF ErrorOf
    <2>2. q.by[1] = "cluster"
      BY <1>3, <1>5 DEF Orderly
    <2>3. QED
      BY <1>5, <2>1, <2>2 DEF Results
  <1>6. CASE q.ask = "owner" /\ ~(q.by \notin db \/ ~(IsAdmin \/ SameTenant))
    <2>1. error = <<"Unauthorized", q.by>> /\ ~IsAdmin /\ ~IsGroupUser
      BY <1>4, <1>6 DEF ErrorOf
    <2>2. req.user = "other"
      BY <1>4, <1>6, <2>1 DEF IsAdmin, SameTenant, IsGroupUser, Users
    <2>3. QED
      BY <2>1, <2>2 DEF Results
  <1>7. CASE q.ask = "allowed"
    <2>1. error = <<"Unauthorized", q.by>> /\ ~IsAdmin /\ ~IsGroupUser
      BY <1>4, <1>7 DEF ErrorOf
    <2>2. req.user = "other"
      BY <1>3, <1>4, <1>7, <2>1 DEF IsAdmin, SameTenant, IsGroupUser, Users
    <2>3. QED
      BY <2>1, <2>2 DEF Results
  <1>8. CASE q.ask = "one"
    <2>1. /\ error = <<q.missing, q.by>>
          /\ q.by \notin db \/ (q.table \in {"cluster", "group"} /\ ~SameTenant)
      BY <1>4, <1>8 DEF ErrorOf
    <2>2. q.by[1] = q.table /\ q.missing \in {"NotFound", "Unknown"}
      BY <1>3, <1>8 DEF Orderly
    <2>3. QED
      BY <2>1, <2>2 DEF Results
  <1>9. CASE q.ask = "save"
    <2>1. error = <<"UnusableDatabase", q.by>> /\ ~(Refs[q.by] \subseteq db)
      BY <1>4, <1>9 DEF ErrorOf
    <2>2. QED
      BY <2>1 DEF Results
  <1>10. CASE q.ask \notin {"owner", "allowed", "one", "save"}
    BY <1>4, <1>10 DEF ErrorOf
  <1>11. QED
    BY <1>5, <1>6, <1>7, <1>8, <1>9, <1>10

\* Errors that have been answered keep their cause, because `always` only shrinks.
LEMMA CausesLast ==
  ASSUME ErrorsHaveCause, UNCHANGED <<req, result, trouble>>, always' \subseteq always
  PROVE  ErrorsHaveCause'
  BY DEF ErrorsHaveCause, SameTenant

\* The error of a query that failed has its cause, whether it is answered or
\* dropped.
LEMMA CausesAfterFail ==
  ASSUME Inductive, NEW error, NEW why, Fail(Head(todo), error, why),
         UNCHANGED <<req, always>>,
         error[1] \in {"NotFound", "Unknown"} =>
            error[2] \notin always \/ (error[2][1] \in {"cluster", "group"} /\ ~SameTenant),
         error[1] = "Unauthorized" => req.user = "other",
         error[1] = "UnusableDatabase" => why # {} \/ ~(Refs[error[2]] \subseteq always)
  PROVE  ErrorsHaveCause'
  <1>1. CASE Head(todo).block = <<>>
    <2>1. result' = error /\ trouble' = trouble \cup why
      BY <1>1 DEF Fail
    <2>2. QED
      BY <2>1 DEF ErrorsHaveCause, SameTenant
  <1>2. CASE Head(todo).block # <<>>
    <2>1. result' \in {<<>>, <<"ok">>, <<"NoContent">>}
      BY <1>2, EndResult DEF Fail
    <2>2. QED
      BY <2>1 DEF ErrorsHaveCause
  <1>3. QED
    BY <1>1, <1>2

\* Every step keeps the inductive invariant: a rejected request and a change of
\* the tables leave the queries alone, a query is replaced by those of its loop.
LEMMA StepInductive ==
  ASSUME Inductive, [Next]_vars
  PROVE  Inductive'
  <1>1. Honest'
    BY HonestStep, InductiveParts
  <1>2. TypeOK /\ Pending /\ Honest /\ ErrorsHaveCause
    BY InductiveParts
  <1>3. SUFFICES TypeOK' /\ ErrorsHaveCause' /\ Pending'
    BY <1>1 DEF Inductive, Pending, Elements
  <1>4. CASE Reject
    <2>1. result' = <<"Parameter">> /\ todo' = <<>>
      BY <1>4 DEF Reject
    <2>2. UNCHANGED <<req, db, sieve, answer, page, events, always, ever, trouble>>
      BY <1>4 DEF Reject
    <2>3. QED
      BY <1>2, <2>1, <2>2 DEF TypeOK, ErrorsHaveCause, Pending, Guarded, Elements
  <1>5. CASE Step
    <2>1. result' \in {<<>>, <<"ok">>, <<"NoContent">>}
      BY <1>5, EndResult DEF Step
    <2>2. ErrorsHaveCause'
      BY <2>1 DEF ErrorsHaveCause
    <2>3. QED
      BY <1>5, <2>2, TypesAfterStep, PendingAfterStep
  <1>6. CASE StepFails
    <2> DEFINE error == ErrorOf(Head(todo))
    <2>1. todo # <<>> /\ error # <<>> /\ Fail(Head(todo), error, {})
      BY <1>6 DEF StepFails
    <2>2. UNCHANGED <<req, db, sieve, page, events, always, ever>>
      BY <1>6 DEF StepFails
    <2>3. /\ error[1] \in Results
          /\ error[1] \in {"NotFound", "Unknown"} =>
               error[2] \notin db \/ (error[2][1] \in {"cluster", "group"} /\ ~SameTenant)
          /\ error[1] = "Unauthorized" => req.user = "other"
          /\ error[1] = "UnusableDatabase" => ~(Refs[error[2]] \subseteq db)
      BY <2>1, CauseOfError
    <2>4. always \subseteq db /\ events' \in 0..MaxEvents
      BY <1>2, <2>2 DEF Honest, TypeOK
    <2> HIDE DEF error
    <2>5. TypeOK'
      BY <2>1, <2>2, <2>3, <2>4, TypesAfterFail
    <2>6. ErrorsHaveCause'
      BY <2>1, <2>2, <2>3, <2>4, CausesAfterFail
    <2>7. QED
      BY <2>1, <2>2, <2>5, <2>6, PendingAfterFail
  <1>7. CASE Unusable
    <2> DEFINE error == <<"UnusableDatabase", req.cluster>>
    <2>1. todo # <<>> /\ Fail(Head(todo), error, {"fault"})
      BY <1>7 DEF Unusable
    <2>2. UNCHANGED <<req, db, sieve, page, always, ever>>
      BY <1>7 DEF Unusable
    <2>3. events' \in 0..MaxEvents
      BY <1>2, <1>7, MaxEventsAssumption DEF Unusable, TypeOK
    <2>4. error[1] = "UnusableDatabase" /\ error[1] \in Results
      BY DEF Results
    <2> HIDE DEF error
    <2>5. TypeOK'
      BY <2>1, <2>2, <2>3, <2>4, TypesAfterFail
    <2>6. ErrorsHaveCause'
      BY <2>1, <2>2, <2>4, CausesAfterFail
    <2>7. QED
      BY <2>1, <2>2, <2>5, <2>6, PendingAfterFail
  <1>8. ASSUME NEW x \in Rows, Added(x) \/ Removed(x)
        PROVE  TypeOK' /\ ErrorsHaveCause' /\ Pending'
    <2>1. UNCHANGED <<req, todo, sieve, answer, page, result, trouble>> /\ always' \subseteq always
      BY <1>8 DEF Added, Removed
    <2>2. db' \subseteq req.rows
      <3>1. req.volatile \subseteq req.rows
        BY <1>2, ReadsAssumption DEF TypeOK
      <3>2. QED
        BY <1>2, <1>8, <3>1 DEF Added, Removed, TypeOK
    <2>3. events' \in 0..MaxEvents
      BY <1>2, <1>8, MaxEventsAssumption DEF Added, Removed, TypeOK
    <2>4. TypeOK'
      BY <1>2, <2>1, <2>2, <2>3 DEF TypeOK
    <2>5. Pending'
      BY <1>2, <2>1 DEF Pending, Guarded, Elements, SameTenant
    <2>6. QED
      BY <1>2, <2>1, <2>4, <2>5, CausesLast
  <1>9. CASE UNCHANGED vars
    BY <1>2, <1>9 DEF vars, TypeOK, ErrorsHaveCause, Pending, Guarded, Elements, SameTenant
  <1>10. QED
    BY <1>4, <1>5, <1>6, <1>7, <1>8, <1>9 DEF Next

\* Every request starts with a program of orderly queries.
LEMMA InitInductive ==
  ASSUME Init
  PROVE  Inductive
  <1>1. /\ req \in Reads /\ todo = Program(req) /\ db = req.rows \ req.late
        /\ sieve = {} /\ answer = {} /\ page = <<>> /\ result = <<>> /\ events = MaxEvents
        /\ always = db /\ ever = db /\ trouble = {}
    BY DEF Init
  <1>2. IsProgram(req, todo) \/ Checked(req, todo)
    BY <1>1, ProgramIs
  <1>3. Pending
    <2>1. CASE IsProgram(req, todo)
      BY <2>1 DEF IsProgram, Plain, Pending, Guarded, Elements
    <2>2. CASE Checked(req, todo)
      BY <2>2 DEF Checked, Pending, Guarded, Elements
    <2>3. QED
      BY <1>2, <2>1, <2>2
  <1>4. TypeOK
    <2>1. \A i \in DOMAIN todo : /\ todo[i].table \in Q!Tables
                                 /\ todo[i].missing \in {"NotFound", "Unknown"}
      BY <1>3 DEF Pending, Orderly
    <2>2. QED
      BY <1>1, <2>1, MaxEventsAssumption DEF TypeOK
  <1>5. Honest /\ ErrorsHaveCause
    BY <1>1 DEF Honest, ErrorsHaveCause
  <1>6. QED
    BY <1>3, <1>4, <1>5, InductiveParts

\* ResourceReads stays within its types: every query that any of the functions of
\* internal/ makes is one that its tables can answer.
THEOREM ReadsTyped == Spec => []TypeOK
  <1>1. Spec => []Inductive
    BY InitInductive, StepInductive, PTL DEF Spec
  <1>2. Inductive => TypeOK
    BY DEF Inductive
  <1>3. QED
    BY <1>1, <1>2, PTL

\* Whatever is queried in whatever order while the tables change: a row is called
\* missing only if it was, only another user of the tenant is refused, and a save
\* fails only for a row that names what is gone (cluster_util.go:44-73).
THEOREM ReadErrorsHaveCause == Spec => []ErrorsHaveCause
  <1>1. Spec => []Inductive
    BY InitInductive, StepInductive, PTL DEF Spec
  <1>2. Inductive => ErrorsHaveCause
    BY DEF Inductive
  <1>3. QED
    BY <1>1, <1>2, PTL

-----------------------------------------------------------------------------
(* The lists: what was there all the time is found.                        *)

\* Every query of a filter lets through what was there all the time.
LEMMA SieveKeeps ==
  ASSUME Honest, NEW q, Fitting(req, q), q.ask = "filter" \/ Lasting \subseteq sieve
  PROVE  Lasting \subseteq Sieve(q)
  <1>1. always \subseteq db
    BY DEF Honest
  <1>2. CASE q.ask = "filter"
    <2>1. ASSUME NEW x \in Lasting
          PROVE  x \in Sieve(q)
      <3>1. PICK y \in req.parts[x] : y[1] = q.table /\ Reaches(y, q.by) /\ x \in Refs[y]
        BY <1>2, <2>1 DEF Lasting, Fitting, Sifting
      <3>2. y \in db
        BY <1>1, <2>1, <3>1 DEF Lasting
      <3>3. QED
        BY <1>2, <3>1, <3>2 DEF Sieve
    <2>2. QED
      BY <2>1
  <1>3. CASE q.ask # "filter"
    <2>1. Lasting \subseteq db
      BY <1>1 DEF Lasting
    <2>2. QED
      BY <1>3, <2>1 DEF Sieve
  <1>4. QED
    BY <1>2, <1>3

\* Of at least as many rows as lasted, a page with room for a row after those that
\* it skips shows at least one.
LEMMA PageShows ==
  ASSUME TypeOK, NEW S, IsFiniteSet(S), Lasting \subseteq S, NEW xs \in paginationFilter(S),
         xs = {}
  PROVE  NoMore
  <1> DEFINE total == Cardinality(S)
             left == IF total > req.offset THEN total - req.offset ELSE 0
             size == IF req.limit = <<>> \/ left < req.limit[1] THEN left ELSE req.limit[1]
  <1>1. /\ req.offset \in Nat
        /\ req.limit # <<>> => req.limit = <<req.limit[1]>> /\ req.limit[1] \in Nat
    BY ReadsAssumption DEF TypeOK
  <1>2. total \in Nat /\ Cardinality(Lasting) \in Nat /\ Cardinality(Lasting) <= total
    BY FS_CardinalityType, FS_Subset
  <1>3. Cardinality(xs) = 0
    BY FS_EmptySet
  <1>4. Cardinality(xs) = size
    BY DEF paginationFilter, kSubset
  <1> HIDE DEF total
  <1>5. CASE size = left
    BY <1>1, <1>2, <1>3, <1>4, <1>5 DEF NoMore
  <1>6. CASE size # left
    <2>1. req.limit # <<>> /\ req.limit[1] = 0
      BY <1>3, <1>4, <1>6
    <2>2. QED
      BY <1>1, <2>1 DEF NoMore
  <1>7. QED
    BY <1>5, <1>6

\* The list itself finds a row, unless there was no more to find.
LEMMA ListFinds ==
  ASSUME TypeOK, Honest, req.list, NEW q, Seeks(req, q),
         q.by = Q!Sifted => Lasting \subseteq sieve, NEW xs \in Found(q)
  PROVE  NoMore \/ \E x \in Shown(q, xs) : x[1] = req.table
  <1>1. /\ q.ask = "list" /\ q.table = req.table
        /\ xs \in paginationFilter(Matching(q)) /\ xs \subseteq Shown(q, xs)
    BY DEF Seeks, Found, Shown
  <1>2. xs \subseteq Matching(q)
    BY <1>1, PageChooses
  <1>3. \A x \in Matching(q) : x[1] = req.table
    BY <1>1 DEF Matching
  <1>4. Lasting \subseteq Matching(q)
    <2>1. ASSUME NEW x \in Lasting
          PROVE  x \in Matching(q)
      <3>1. /\ x \in always /\ x \in ItemsOf(req)
            /\ x \in req.match /\ (req.table = "cluster" \/ Reaches(x, req.cluster))
        BY ListsAssumption DEF TypeOK, Lasting
      <3>2. x[1] = q.table /\ x \in db
        BY <1>1, <3>1 DEF ItemsOf, Honest
      <3>3. OfCluster(x)
        BY <1>1, <3>1, <3>2 DEF OfCluster
      <3>4. QED
        BY <3>1, <3>2, <3>3 DEF Matching
    <2>2. QED
      BY <2>1
  <1>5. IsFiniteSet(Matching(q))
    BY RowsOfRequest, FS_Subset DEF Matching
  <1>6. CASE xs = {}
    BY <1>1, <1>4, <1>5, <1>6, PageShows
  <1>7. CASE xs # {}
    BY <1>1, <1>2, <1>3, <1>7
  <1>8. QED
    BY <1>6, <1>7

\* A list that is still to come is read, or comes after one query less.
LEMMA AwaitedStep ==
  ASSUME Inductive, ListIsRead, Step, req.list, Awaited
  PROVE  Awaited' \/ ShowsItem' \/ NoMore'
  <1> DEFINE q == Head(todo)
  <1>1. /\ TypeOK /\ Honest /\ todo # <<>> /\ todo \in Seq(Elements(todo))
        /\ \A i \in DOMAIN todo : Orderly(req, todo[i]) /\ Fitting(req, todo[i])
    BY InductiveParts DEF Step, Pending, ListIsRead
  <1>2. q = todo[1] /\ 1 \in DOMAIN todo
    BY <1>1
  <1>3. PICK xs \in Found(q) :
           todo' = Loop(q, xs) \o Tail(todo) /\ answer' = answer \cup Shown(q, xs)
    BY DEF Step
  <1>4. sieve' = Sieve(q) /\ UNCHANGED <<req, always>>
    BY DEF Step
  <1> HIDE DEF q
  <1>5. PICK i \in DOMAIN todo :
           /\ Seeks(req, todo[i])
           /\ todo[i].by = Q!Sifted =>
                Lasting \subseteq sieve \/ \E j \in 1..(i - 1) : todo[j].ask = "filter"
    BY DEF Awaited
  <1>6. Lasting' = Lasting /\ (NoMore' <=> NoMore)
    BY <1>4 DEF Lasting, ItemsOf, NoMore
  <1>7. CASE i = 1
    <2>1. q.by = Q!Sifted => Lasting \subseteq sieve
      BY <1>2, <1>5, <1>7
    <2>2. NoMore \/ \E x \in Shown(q, xs) : x[1] = req.table
      BY <1>1, <1>2, <1>5, <1>7, <2>1, ListFinds
    <2>3. QED
      BY <1>3, <1>4, <1>6, <2>2 DEF ShowsItem
  <1>8. CASE i # 1
    <2> DEFINE head == Loop(q, xs)
               rest == Tail(todo)
    <2>1. xs \in SUBSET Rows /\ q.then # "routers" /\ Asks(req)
          /\ (q.then \in {"cluster", "permission"} => \A x \in xs : x[1] = q.then)
      BY <1>1, <1>2, FoundRows, RowsOfRequest DEF Fitting
    <2>2. PICK S : head \in Seq(S)
      BY <2>1, LoopFits
    <2> HIDE DEF head
    <2> DEFINE T == S \cup Elements(todo)
               n == Len(head)
    <2>3. head \in Seq(T) /\ rest \in Seq(T)
      BY <1>1, <2>2
    <2>4. Len(rest) = Len(todo) - 1 /\ \A j \in 1..Len(rest) : rest[j] = todo[j + 1]
      BY <1>1
    <2>5. Len(todo) \in Nat /\ DOMAIN todo = 1..Len(todo)
      BY <1>1
    <2> HIDE DEF rest, T
    <2>6. /\ n \in Nat /\ Len(rest) \in Nat /\ DOMAIN todo' = 1..(n + Len(rest))
          /\ \A j \in 1..Len(rest) : todo'[j + n] = rest[j]
      BY <1>3, <2>3, OneAfterTheOther DEF head, rest
    <2> HIDE DEF n
    <2>7. ASSUME NEW j \in 2..Len(todo)
          PROVE  j - 1 + n \in DOMAIN todo' /\ todo'[j - 1 + n] = todo[j]
      <3>1. j - 1 \in 1..Len(rest) /\ (j - 1) + 1 = j /\ j - 1 + n \in 1..(n + Len(rest))
        BY <2>4, <2>5, <2>6
      <3>2. QED
        BY <2>4, <2>6, <3>1
    <2> DEFINE k == i - 1 + n
    <2>8. k \in DOMAIN todo' /\ todo'[k] = todo[i] /\ i \in 2..Len(todo)
      <3>1. i \in 2..Len(todo)
        BY <1>8, <2>5
      <3>2. QED
        BY <2>7, <3>1
    <2>9. CASE todo[i].by = Q!Sifted /\ ~(Lasting \subseteq sieve) /\ q.ask # "filter"
      <3>1. PICK j \in 1..(i - 1) : todo[j].ask = "filter"
        BY <1>5, <2>9
      <3>2. j \in 2..Len(todo)
        BY <1>2, <2>5, <2>8, <2>9, <3>1
      <3>3. j - 1 + n \in 1..(k - 1) /\ todo'[j - 1 + n].ask = "filter"
        <4>1. todo'[j - 1 + n].ask = "filter"
          BY <2>7, <3>1, <3>2
        <4>2. k = i - 1 + n
          OBVIOUS
        <4> HIDE DEF k
        <4>3. j - 1 + n \in 1..(k - 1)
          BY <2>6, <2>8, <3>1, <3>2, <4>2
        <4>4. QED
          BY <4>1, <4>3
      <3> HIDE DEF k
      <3>4. \E m \in 1..(k - 1) : todo'[m].ask = "filter"
        BY <3>3
      <3>5. QED
        BY <1>4, <1>5, <2>8, <3>4 DEF Awaited
    <2>10. CASE todo[i].by = Q!Sifted => Lasting \subseteq sieve \/ q.ask = "filter"
      <3>1. todo[i].by = Q!Sifted => Lasting' \subseteq sieve'
        BY <1>1, <1>2, <1>4, <1>6, <2>10, SieveKeeps
      <3> HIDE DEF k
      <3>2. QED
        BY <1>4, <1>5, <2>8, <3>1 DEF Awaited
    <2>11. QED
      BY <2>9, <2>10
  <1>9. QED
    BY <1>7, <1>8

\* No content is answered only at the end of a list that shows no item.
LEMMA EndOfList ==
  ASSUME NEW rest, NEW shown
  PROVE  /\ End(rest, shown) # <<>> => rest = <<>>
         /\ End(rest, shown) = <<"NoContent">> =>
              req.list /\ ~\E x \in shown : x[1] = req.table
  BY DEF End, Verdict

\* The same after a query that succeeded.
LEMMA ListAfterStep ==
  ASSUME Inductive, ListIsRead, Step
  PROVE  ListIsRead'
  <1> DEFINE q == Head(todo)
  <1>1. /\ TypeOK /\ Honest /\ todo # <<>> /\ todo \in Seq(Elements(todo)) /\ result = <<>>
        /\ \A i \in DOMAIN todo : Orderly(req, todo[i])
    BY InductiveParts DEF Step, Pending, ListIsRead
  <1>2. q = todo[1] /\ 1 \in DOMAIN todo
    BY <1>1
  <1>3. PICK xs \in Found(q) : /\ todo' = Loop(q, xs) \o Tail(todo)
                               /\ answer' = answer \cup Shown(q, xs)
                               /\ result' = End(todo', answer')
    BY DEF Step
  <1>4. UNCHANGED <<req, always, trouble>>
    BY DEF Step
  <1> HIDE DEF q
  <1>5. ASSUME req.list
        PROVE  \A i \in DOMAIN todo' : Fitting(req, todo'[i])
    <2>1. \A e \in Elements(todo) : Fitting(req, e)
      BY <1>5 DEF ListIsRead, Elements
    <2>2. xs \in SUBSET Rows /\ q.then # "routers" /\ Asks(req)
          /\ (q.then \in {"cluster", "permission"} => \A x \in xs : x[1] = q.then)
      BY <1>1, <1>2, <2>1, FoundRows, RowsOfRequest DEF Fitting, Elements
    <2>3. Fits(req, Loop(q, xs))
      BY <2>2, LoopFits
    <2>4. PICK S : Loop(q, xs) \in Seq(S)
      BY <2>2, LoopFits
    <2>5. Loop(q, xs) \in Seq(Elements(Loop(q, xs)))
      BY <2>4 DEF Elements
    <2> DEFINE T == Elements(Loop(q, xs)) \cup Elements(todo)
    <2>6. \A e \in T : Fitting(req, e)
      BY <2>1, <2>3 DEF Fits, Elements
    <2>7. Loop(q, xs) \in Seq(T) /\ Tail(todo) \in Seq(T)
      BY <1>1, <2>5
    <2> HIDE DEF T
    <2>8. todo' \in Seq(T)
      BY <1>3, <2>7
    <2>9. QED
      BY <2>6, <2>8
  <1>6. /\ result' # <<>> => todo' = <<>>
        /\ result' = <<"NoContent">> => req.list /\ ~ShowsItem'
    <2>1. ShowsItem' <=> \E x \in answer' : x[1] = req.table
      BY <1>4 DEF ShowsItem
    <2>2. /\ result' # <<>> => todo' = <<>>
          /\ result' = <<"NoContent">> => req.list /\ ~\E x \in answer' : x[1] = req.table
      BY <1>3, EndOfList
    <2>3. QED
      BY <2>1, <2>2
  <1>7. ASSUME req.list, "dropped" \notin trouble
        PROVE  Awaited' \/ ShowsItem' \/ NoMore'
    <2>1. Awaited \/ ShowsItem \/ NoMore
      BY <1>1, <1>7 DEF ListIsRead
    <2>2. ShowsItem => ShowsItem'
      BY <1>3, <1>4 DEF ShowsItem
    <2>3. NoMore => NoMore'
      BY <1>4 DEF NoMore, Lasting, ItemsOf
    <2>4. QED
      BY <1>7, <2>1, <2>2, <2>3, AwaitedStep
  <1>8. QED
    BY <1>4, <1>5, <1>6, <1>7 DEF ListIsRead

\* The same after a query that failed: its error is the answer, or it is dropped.
LEMMA ListAfterFail ==
  ASSUME Inductive, ListIsRead, NEW error, NEW why, todo # <<>>,
         Fail(Head(todo), error, why), req' = req,
         error # <<>>, error # <<"NoContent">>
  PROVE  ListIsRead'
  <1> DEFINE q == Head(todo)
  <1>1. todo \in Seq(Elements(todo))
    BY InductiveParts DEF Pending
  <1>2. CASE q.block = <<>>
    <2>1. result' = error /\ todo' = <<>>
      BY <1>2 DEF Fail
    <2>2. QED
      BY <2>1 DEF ListIsRead
  <1>3. CASE q.block # <<>>
    <2>1. /\ todo' = Skip(q.block) /\ result' = End(todo', answer')
          /\ trouble' = trouble \cup why \cup {"dropped"}
      BY <1>3 DEF Fail
    <2>2. PICK k \in 0..Len(todo) : Skip(q.block) = SubSeq(todo, k + 1, Len(todo))
      BY <1>1, SkipIs DEF Elements
    <2>3. todo' \in Seq(Elements(todo))
      BY <1>1, <2>1, <2>2, RestOf
    <2>4. req.list => \A i \in DOMAIN todo' : Fitting(req, todo'[i])
      <3>1. \A i \in DOMAIN todo' : todo'[i] \in Elements(todo)
        BY <2>3
      <3>2. QED
        BY <3>1 DEF ListIsRead, Elements
    <2>5. ShowsItem' <=> \E x \in answer' : x[1] = req.table
      BY DEF ShowsItem
    <2>6. /\ result' # <<>> => todo' = <<>>
          /\ result' = <<"NoContent">> => req.list /\ ~\E x \in answer' : x[1] = req.table
      BY <2>1, EndOfList
    <2>7. QED
      BY <2>1, <2>4, <2>5, <2>6 DEF ListIsRead
  <1>4. QED
    BY <1>2, <1>3

\* What lasts becomes less and less.
LEMMA LastingShrinks ==
  ASSUME TypeOK, Honest, req' = req, always' \subseteq always
  PROVE  Lasting' \subseteq Lasting /\ (NoMore => NoMore')
  <1>1. Lasting' \subseteq Lasting
    BY DEF Lasting, ItemsOf
  <1>2. IsFiniteSet(Lasting)
    <2>1. Lasting \subseteq db
      BY DEF Lasting, Honest
    <2>2. QED
      BY <2>1, RowsOfRequest, FS_Subset
  <1>3. /\ Cardinality(Lasting') <= Cardinality(Lasting)
        /\ Cardinality(Lasting') \in Nat /\ Cardinality(Lasting) \in Nat
    BY <1>1, <1>2, FS_Subset, FS_CardinalityType
  <1>4. req.offset \in Nat
    BY ReadsAssumption DEF TypeOK
  <1>5. QED
    BY <1>1, <1>3, <1>4 DEF NoMore

\* Every step keeps what is known of a list.
LEMMA ListStep ==
  ASSUME Inductive, ListIsRead, [Next]_vars
  PROVE  ListIsRead'
  <1>1. TypeOK /\ Honest
    BY InductiveParts
  <1>2. CASE Reject
    <2>1. result' = <<"Parameter">> /\ todo' = <<>>
      BY <1>2 DEF Reject
    <2>2. QED
      BY <2>1 DEF ListIsRead
  <1>3. CASE Step
    BY <1>3, ListAfterStep
  <1>4. CASE StepFails
    <2> DEFINE error == ErrorOf(Head(todo))
    <2>1. /\ todo # <<>> /\ error # <<>> /\ Fail(Head(todo), error, {}) /\ req' = req
      BY <1>4 DEF StepFails
    <2>2. error # <<"NoContent">>
      <3>1. Orderly(req, Head(todo))
        <4>1. /\ todo \in Seq(Elements(todo))
              /\ \A i \in DOMAIN todo : Orderly(req, todo[i])
          BY InductiveParts DEF Pending
        <4>2. Head(todo) = todo[1] /\ 1 \in DOMAIN todo
          BY <2>1, <4>1
        <4>3. QED
          BY <4>1, <4>2
      <3>2. Head(todo).missing # "NoContent"
        BY <3>1 DEF Orderly
      <3>3. QED
        BY <2>1, <3>2 DEF ErrorOf
    <2> HIDE DEF error
    <2>3. QED
      BY <2>1, <2>2, ListAfterFail
  <1>5. CASE Unusable
    <2>1. /\ todo # <<>> /\ req' = req
          /\ Fail(Head(todo), <<"UnusableDatabase", req.cluster>>, {"fault"})
      BY <1>5 DEF Unusable
    <2>2. /\ <<"UnusableDatabase", req.cluster>> # <<>>
          /\ <<"UnusableDatabase", req.cluster>> # <<"NoContent">>
      OBVIOUS
    <2>3. QED
      BY <2>1, <2>2, ListAfterFail
  <1>6. ASSUME UNCHANGED <<req, todo, sieve, answer, result, trouble>>, always' \subseteq always
        PROVE  ListIsRead'
    <2>1. Lasting' \subseteq Lasting /\ (NoMore => NoMore')
      BY <1>1, <1>6, LastingShrinks
    <2>2. /\ Awaited => Awaited'
          /\ ShowsItem <=> ShowsItem'
      BY <1>6, <2>1 DEF Awaited, ShowsItem
    <2>3. QED
      BY <1>6, <2>1, <2>2 DEF ListIsRead
  <1>7. ASSUME NEW x \in Rows, Added(x) \/ Removed(x)
        PROVE  ListIsRead'
    <2>1. UNCHANGED <<req, todo, sieve, answer, result, trouble>> /\ always' \subseteq always
      BY <1>7 DEF Added, Removed
    <2>2. QED
      BY <1>6, <2>1
  <1>8. CASE UNCHANGED vars
    BY <1>6, <1>8 DEF vars
  <1>9. QED
    BY <1>2, <1>3, <1>4, <1>5, <1>7, <1>8 DEF Next

\* A list is awaited at first.
LEMMA ListInit ==
  ASSUME Init
  PROVE  ListIsRead
  <1>1. req \in Reads /\ todo = Program(req) /\ result = <<>>
    BY DEF Init
  <1>2. ASSUME req.list
        PROVE  Fits(req, todo) /\ Awaited
    <2>1. Fits(req, todo) /\ Sought(req, todo)
      BY <1>1, <1>2, ListIs DEF ListProgram
    <2>2. QED
      BY <2>1 DEF Sought, Awaited
  <1>3. QED
    BY <1>1, <1>2 DEF ListIsRead, Fits

\* A list is answered with no content only if it was asked for no item, or if no
\* more items than it skips were there, with what they are filtered by, all the
\* time: neither the changes of the tables between the queries of the filter and
\* of the list nor their order hides a row (handler.go, GetCluster...List).
THEOREM EmptyListsAreEmpty == Spec => []EmptyMeansNone
  <1>1. Init => Inductive /\ ListIsRead
    BY InitInductive, ListInit
  <1>2. (Inductive /\ ListIsRead) /\ [Next]_vars => (Inductive /\ ListIsRead)'
    BY StepInductive, ListStep
  <1>3. ListIsRead => EmptyMeansNone
    <2> SUFFICES ASSUME ListIsRead, result = <<"NoContent">>, "dropped" \notin trouble
                 PROVE  NoMore
      BY DEF EmptyMeansNone, NoMore
    <2>1. todo = <<>> /\ req.list /\ ~ShowsItem /\ (Awaited \/ ShowsItem \/ NoMore)
      BY DEF ListIsRead
    <2>2. ~Awaited
      BY <2>1 DEF Awaited
    <2>3. QED
      BY <2>1, <2>2
  <1>4. QED
    BY <1>1, <1>2, <1>3, PTL DEF Spec
=============================================================================
