------------------------- MODULE Gr1ReductionProofs -------------------------
(***************************************************************************)
(* The reduction, for all requests, budgets and automata whose states were *)
(* interned as they were found: a failed call leaves nothing behind, and   *)
(* its account of the work is honest.                                      *)
(***************************************************************************)
EXTENDS Gr1Reduction, FiniteSetTheorems, WellFoundedInduction, TLAPS

-----------------------------------------------------------------------------
\* The monitors that a request can have, and their states.
Made == {Monitor(req.conjuncts[i]) : i \in 1..Len(req.conjuncts)}
Pairs == {p \in Ms \X (1..req.maxMonitorStates) : p[2] \in StatesOf(monitors[p[1]].dba)}

\* The work done fits the budgets, and is that of the finished monitors.
WorkInv ==
  /\ work.states <= req.maxMonitorStates
  /\ budget.maxTotalStates # 0 => work.states <= budget.maxTotalStates
  /\ budget.maxTotalEdges # 0 => work.edges <= budget.maxTotalEdges
  /\ IsFiniteSet(Pairs) /\ work.states = Cardinality(Pairs)

\* The monitor being expanded has fitted so far.
RowInv ==
  /\ k \in 1..Len(req.conjuncts) /\ row \in 1..(Conjunct.dba.n + 1)
  /\ row > Conjunct.dba.n => Conjunct.dba.n <= Cap
  /\ budget.maxTotalEdges # 0 => seen <= Less(budget.maxTotalEdges, work.edges)

\* The first parts have been handed out.
PartsInv ==
  \E c \in 0..Len(Parts) :
    result = {Parts[i] : i \in 1..c} /\ IsFiniteSet(result) /\ Cardinality(result) = c

Untouched == IF req.occupied THEN {"game"} ELSE {}

TypeInv ==
  /\ req \in Requests
  /\ pc \in {"enter", "source", "monitor", "expand", "publish", "done"}
  /\ budget \in [maxConjuncts : Nat, maxPredicted : Nat, maxTotalStates : Nat,
                 maxTotalEdges : Nat]
  /\ work \in [states : Nat, edges : Nat, completed : Nat]
  /\ k \in Nat \ {0} /\ row \in Nat /\ seen \in Nat /\ monitors \in Seq(Made)

RunInv ==
  /\ TypeInv
  /\ pc \notin {"enter", "done"} => ~req.occupied
  /\ pc \notin {"publish", "done"} => result = Untouched
  /\ pc # "done" => status = "none" /\ failure = "OK" /\ WorkInv
  /\ pc \in {"enter", "source"} => work.states = 0
  /\ pc = "expand" => RowInv
  /\ pc = "publish" => PartsInv
  /\ FailsClean

-----------------------------------------------------------------------------
\* What is said of the request.
LEMMA RequestTyped ==
  ASSUME NEW r \in Requests
  PROVE  /\ r.maxMonitorStates \in Nat /\ r.tighten \subseteq Nat
         /\ Len(r.conjuncts) \in Nat
         /\ \A i \in 1..Len(r.conjuncts) : Found(r.conjuncts[i].dba)
         /\ r.budget \in [maxConjuncts : Nat, maxPredicted : Nat, maxTotalStates : Nat,
                          maxTotalEdges : Nat]
         /\ r.occupied \in BOOLEAN
BY ReductionConstants

\* The call's arguments stay; with them the structural budget.
LEMMA CallKept ==
  ASSUME UNCHANGED call
  PROVE  /\ req' = req /\ budget' = budget /\ OverStructure' = OverStructure
         /\ Untouched' = Untouched /\ Made' = Made
<1>1. req' = req /\ budget' = budget
  BY DEF call
<1>2. Predicted' = Predicted
  BY <1>1 DEF Predicted, Estimate
<1> QED
  BY <1>1, <1>2 DEF OverStructure, Untouched, Made, Monitor, Strict


\* Every non-empty set of naturals has a least element.
LEMMA LeastNatural ==
  ASSUME NEW T \in SUBSET Nat, T # {}
  PROVE  \E n \in T : \A m \in T : n <= m
<1> DEFINE R == {ss \in Nat \X Nat : ss[1] < ss[2]}
<1>1. IsWellFoundedOn(R, Nat)
  BY NatLessThanWellFounded, Zenon DEF OpToRel
<1>2. \A n, m \in Nat : ~(<<m, n>> \in R) => n <= m
  OBVIOUS
<1> HIDE DEF R
<1>3. \E n \in T : \A m \in T : ~(<<m, n>> \in R)
  BY <1>1, WFMin, Zenon
<1> QED
  BY <1>2, <1>3, Zenon

\* What is left of both state budgets: more than that passes one of them.
LEMMA CapFacts ==
  ASSUME TypeInv, WorkInv
  PROVE  /\ Cap \in Nat /\ work.states + Cap <= req.maxMonitorStates
         /\ budget.maxTotalStates # 0 => work.states + Cap <= budget.maxTotalStates
         /\ \/ work.states + (Cap + 1) > req.maxMonitorStates
            \/ /\ budget.maxTotalStates # 0
               /\ work.states + (Cap + 1) > budget.maxTotalStates
<1> DEFINE w == work.states
           m == req.maxMonitorStates
           t == budget.maxTotalStates
<1>1. w \in Nat /\ m \in Nat /\ t \in Nat /\ w <= m /\ (t # 0 => w <= t)
  BY RequestTyped DEF TypeInv, WorkInv
<1>2. Cap = IF t = 0 THEN Less(m, w) ELSE Least(Less(t, w), Less(m, w))
  BY DEF Cap
<1> HIDE DEF w, m, t
<1>3. Less(m, w) = m - w /\ (t # 0 => Less(t, w) = t - w)
  BY <1>1 DEF Less, Least
<1>4. Cap = IF t = 0 THEN m - w ELSE IF t - w <= m - w THEN t - w ELSE m - w
  BY <1>2, <1>3 DEF Least
<1>5. /\ Cap \in Nat /\ w + Cap <= m /\ (t # 0 => w + Cap <= t)
      /\ w + (Cap + 1) > m \/ (t # 0 /\ w + (Cap + 1) > t)
  <2>1. CASE t = 0
    BY <1>1, <1>4, <2>1
  <2>2. CASE t # 0 /\ t - w <= m - w
    BY <1>1, <1>4, <2>2
  <2>3. CASE t # 0 /\ ~(t - w <= m - w)
    BY <1>1, <1>4, <2>3
  <2> QED
    BY <2>1, <2>2, <2>3
<1> QED
  BY <1>5 DEF w, m, t

\* The last row leaves no state undiscovered; a row has finitely many edges.
LEMMA Discovery ==
  ASSUME NEW a, Found(a)
  PROVE  /\ Discovered(a, a.n) = a.n
         /\ \A r \in 1..a.n : Edges(a, r) \in Nat
<1>1. a.n \in Nat \ {0} /\ \A s \in 1..a.n : Targets(a, s) \subseteq 1..a.n
  BY DEF Found, Targets, StatesOf
<1> DEFINE S == {1} \cup UNION {Targets(a, s) : s \in 1..a.n}
<1>2. S \subseteq 1..a.n
  BY <1>1
<1>3. a.n \in S
  <2>1. CASE a.n = 1
    BY <2>1
  <2>2. CASE a.n # 1
    <3>1. a.n \in StatesOf(a) \ {1}
      BY <1>1, <2>2 DEF StatesOf
    <3>2. PICK s \in StatesOf(a) : a.n \in Targets(a, s)
      BY <3>1 DEF Found
    <3> QED
      BY <3>2 DEF StatesOf
  <2> QED
    BY <2>1, <2>2
<1>4. Discovered(a, a.n) = CHOOSE m \in S : \A s \in S : s <= m
  BY DEF Discovered
<1> HIDE DEF S
<1>5. \A s \in S : s <= a.n
  BY <1>1, <1>2
<1>6. \A m \in S : (\A s \in S : s <= m) => m = a.n
  BY <1>1, <1>2, <1>3, <1>5
<1>7. Discovered(a, a.n) = a.n
  BY <1>3, <1>4, <1>5, <1>6
<1>8. ASSUME NEW r \in 1..a.n PROVE Edges(a, r) \in Nat
  <2>1. IsFiniteSet(1..a.n)
    <3>1. 1 \in Int /\ a.n \in Int
      BY <1>1
    <3> QED
      BY <3>1, FS_Interval
  <2>2. IsFiniteSet(Targets(a, r))
    BY <1>1, <2>1, FS_Subset
  <2> QED
    BY <2>2, FS_CardinalityType DEF Edges
<1> QED
  BY <1>7, <1>8

\* After every row there is a last state that was found.
LEMMA DiscoveredTyped ==
  ASSUME NEW a, Found(a), NEW r \in 1..a.n
  PROVE  Discovered(a, r) \in Nat
<1>1. a.n \in Nat \ {0} /\ \A s \in 1..a.n : Targets(a, s) \subseteq 1..a.n
  BY DEF Found, Targets, StatesOf
<1> DEFINE S == {1} \cup UNION {Targets(a, s) : s \in 1..r}
<1>2. \A s \in 1..r : s \in 1..a.n
  BY <1>1
<1>3. S \subseteq 1..a.n /\ 1 \in S
  BY <1>1, <1>2
<1>4. Discovered(a, r) = CHOOSE m \in S : \A s \in S : s <= m
  BY DEF Discovered
<1> HIDE DEF S
<1> DEFINE T == {a.n - s : s \in S}
<1>5. T \in SUBSET Nat /\ T # {}
  BY <1>1, <1>3
<1>6. PICK d \in T : \A e \in T : d <= e
  <2> HIDE DEF T
  <2> QED
    BY <1>5, LeastNatural
<1>7. PICK m \in S : d = a.n - m
  BY <1>6
<1>8. \A s \in S : s <= m
  <2> SUFFICES ASSUME NEW s \in S PROVE s <= m
    OBVIOUS
  <2>1. d <= a.n - s
    BY <1>6
  <2>2. s \in 1..a.n /\ m \in 1..a.n
    BY <1>3
  <2> QED
    BY <1>1, <1>7, <2>1, <2>2
<1>9. Discovered(a, r) \in S
  BY <1>4, <1>8
<1>10. Discovered(a, r) \in 1..a.n
  BY <1>3, <1>9, Zenon
<1> QED
  BY <1>1, <1>10

\* A finished monitor adds its states to the pairs.
LEMMA PairsGrow ==
  ASSUME TypeInv, WorkInv, req' = req, NEW c, c \in Made, c.dba.n \in Nat,
         c.dba.n <= req.maxMonitorStates, monitors' = Append(monitors, c)
  PROVE  /\ IsFiniteSet(Pairs)' /\ Cardinality(Pairs)' = Cardinality(Pairs) + c.dba.n
         /\ monitors' \in Seq(Made)
<1> DEFINE L == Len(monitors)
           N == {L + 1} \X (1..c.dba.n)
<1>1. /\ monitors \in Seq(Made) /\ L \in Nat /\ DOMAIN monitors = 1..L
      /\ req.maxMonitorStates \in Nat
  BY RequestTyped DEF TypeInv
<1>2. /\ monitors' \in Seq(Made) /\ Len(monitors') = L + 1 /\ DOMAIN monitors' = 1..(L + 1)
      /\ \A i \in 1..L : monitors'[i] = monitors[i]
      /\ monitors'[L + 1] = c
  BY <1>1
<1>3. Pairs' = Pairs \cup N
  <2>1. Pairs' = {p \in (1..(L + 1)) \X (1..req.maxMonitorStates) :
                    p[2] \in StatesOf(monitors'[p[1]].dba)}
    BY <1>2 DEF Pairs, Ms, StatesOf
  <2>2. Pairs = {p \in (1..L) \X (1..req.maxMonitorStates) :
                   p[2] \in StatesOf(monitors[p[1]].dba)}
    BY <1>1 DEF Pairs, Ms
  <2>3. \A i \in 1..(L + 1) : i = L + 1 \/ i \in 1..L
    BY <1>1
  <2>4. \A i \in 1..L : i \in 1..(L + 1)
    BY <1>1
  <2>5. L + 1 \in 1..(L + 1)
    BY <1>1
  <2>6. \A s \in 1..c.dba.n : s \in 1..req.maxMonitorStates
    BY <1>1
  <2>7. StatesOf(c.dba) = 1..c.dba.n
    BY DEF StatesOf
  <2> HIDE DEF L
  <2>8. ASSUME NEW p \in Pairs' PROVE p \in Pairs \cup N
    <3>1. /\ p = <<p[1], p[2]>> /\ p[1] \in 1..(L + 1) /\ p[2] \in 1..req.maxMonitorStates
          /\ p[2] \in StatesOf(monitors'[p[1]].dba)
      <4>1. /\ p \in (1..(L + 1)) \X (1..req.maxMonitorStates)
            /\ p[2] \in StatesOf(monitors'[p[1]].dba)
        BY <2>1, <2>8, Zenon
      <4>2. \A A, B : p \in A \X B => p = <<p[1], p[2]>> /\ p[1] \in A /\ p[2] \in B
        OBVIOUS
      <4> QED
        BY <4>1, <4>2, Zenon
    <3>2. CASE p[1] = L + 1
      <4>1. p[2] \in 1..c.dba.n
        BY <1>2, <2>7, <3>1, <3>2
      <4> QED
        BY <3>1, <3>2, <4>1
    <3>3. CASE p[1] \in 1..L
      BY <1>2, <2>2, <3>1, <3>3
    <3> QED
      BY <2>3, <3>1, <3>2, <3>3
  <2>9. ASSUME NEW p \in Pairs PROVE p \in Pairs'
    <3>1. /\ p = <<p[1], p[2]>> /\ p[1] \in 1..L /\ p[2] \in 1..req.maxMonitorStates
          /\ p[2] \in StatesOf(monitors[p[1]].dba)
      BY <2>2
    <3> QED
      BY <1>2, <2>1, <2>4, <3>1
  <2>10. ASSUME NEW p \in N PROVE p \in Pairs'
    <3>1. p = <<p[1], p[2]>> /\ p[1] = L + 1 /\ p[2] \in 1..c.dba.n
      OBVIOUS
    <3> QED
      BY <1>2, <2>1, <2>5, <2>6, <2>7, <3>1
  <2> QED
    BY <2>8, <2>9, <2>10
<1>4. Pairs \cap N = {}
  <2>1. \A p \in Pairs : p[1] \in 1..L
    BY <1>1 DEF Pairs, Ms
  <2>2. \A p \in N : p[1] \notin 1..L
    BY <1>1
  <2> QED
    BY <2>1, <2>2
<1>5. IsFiniteSet(N) /\ Cardinality(N) = c.dba.n
  <2>1. IsFiniteSet({L + 1}) /\ Cardinality({L + 1}) = 1
    BY FS_Singleton
  <2>2. IsFiniteSet(1..c.dba.n) /\ Cardinality(1..c.dba.n) = c.dba.n
    <3> DEFINE n == c.dba.n
    <3>1. 1 \in Int /\ n \in Int /\ (IF 1 > n THEN 0 ELSE n - 1 + 1) = n
      OBVIOUS
    <3> HIDE DEF n
    <3>2. IsFiniteSet(1..n) /\ Cardinality(1..n) = n
      BY <3>1, FS_Interval
    <3> QED
      BY <3>2 DEF n
  <2>3. Cardinality(N) = 1 * c.dba.n /\ IsFiniteSet(N)
    BY <2>1, <2>2, FS_Product
  <2> QED
    BY <2>3
<1>6. IsFiniteSet(Pairs) /\ Cardinality(Pairs) \in Nat
  BY FS_CardinalityType DEF WorkInv
<1>7. /\ IsFiniteSet(Pairs \cup N)
      /\ Cardinality(Pairs \cup N) = Cardinality(Pairs) + Cardinality(N) - Cardinality(Pairs \cap N)
  BY <1>5, <1>6, FS_Union
<1>8. Cardinality(Pairs \cap N) = 0
  BY <1>4, FS_EmptySet
<1>9. Cardinality(Pairs \cup N) = Cardinality(Pairs) + c.dba.n
  BY <1>5, <1>6, <1>7, <1>8
<1> QED
  BY <1>2, <1>3, <1>7, <1>9


-----------------------------------------------------------------------------
\* The steps.  More work was counted than a budget has.
Excess ==
  \/ work.states > req.maxMonitorStates
  \/ budget.maxTotalStates # 0 /\ work.states > budget.maxTotalStates
  \/ budget.maxTotalEdges # 0 /\ work.edges > budget.maxTotalEdges

\* A failure clears the result, whatever was in it.
LEMMA Failing ==
  ASSUME RunInv, pc \notin {"enter", "done"}, UNCHANGED call, UNCHANGED <<k, row, seen, monitors>>,
         work' \in [states : Nat, edges : Nat, completed : Nat],
         NEW code, NEW cause, Fail(code, cause), code # "OK", cause # "OK",
         code = "LIMIT" => "LIMIT" \in StopKinds \/ OverStructure \/ Excess'
  PROVE  RunInv'
<1>1. /\ req' = req /\ budget' = budget /\ OverStructure' = OverStructure
      /\ Untouched' = Untouched /\ Made' = Made
  BY CallKept
<1>2. pc' = "done" /\ result' = {} /\ status' = code /\ failure' = cause
  BY DEF Fail
<1>3. ~req.occupied /\ TypeInv
  BY DEF RunInv
<1>4. TypeInv'
  BY <1>1, <1>2, <1>3 DEF TypeInv
<1>5. FailsClean'
  BY <1>1, <1>2, <1>3 DEF FailsClean, Excess
<1> QED
  BY <1>2, <1>4, <1>5 DEF RunInv

\* What is counted is added.
LEMMA Counting ==
  ASSUME work \in [states : Nat, edges : Nat, completed : Nat], NEW s \in Nat, NEW e \in Nat,
         Count(s, e)
  PROVE  /\ work' \in [states : Nat, edges : Nat, completed : Nat]
         /\ work'.states = work.states + s /\ work'.edges = work.edges + e
<1>1. /\ work = [states |-> work.states, edges |-> work.edges, completed |-> work.completed]
      /\ work.states \in Nat /\ work.edges \in Nat /\ work.completed \in Nat
  OBVIOUS
<1>2. work' = [states |-> work.states + s, edges |-> work.edges + e,
               completed |-> work.completed]
  <2>1. work' = [work EXCEPT !.states = @ + s, !.edges = @ + e]
    BY DEF Count
  <2> QED
    BY <1>1, <2>1
<1> QED
  BY <1>1, <1>2

\* The monitors and the account of the work stay.
LEMMA WorkKept ==
  ASSUME req' = req, work' = work, monitors' = monitors,
         budget' = [budget EXCEPT !.maxTotalStates = budget'.maxTotalStates],
         budget'.maxTotalStates = budget.maxTotalStates \/ work.states = 0,
         TypeInv, TypeInv', WorkInv
  PROVE  WorkInv'
<1>1. Pairs' = Pairs
  BY DEF Pairs, Ms
<1>2. budget'.maxTotalEdges = budget.maxTotalEdges
  BY DEF TypeInv
<1>3. /\ work'.states <= req.maxMonitorStates
      /\ budget.maxTotalEdges # 0 => work'.edges <= budget.maxTotalEdges
      /\ IsFiniteSet(Pairs) /\ work'.states = Cardinality(Pairs)
  BY DEF WorkInv
<1>4. budget'.maxTotalStates # 0 => work'.states <= budget'.maxTotalStates
  BY DEF WorkInv, TypeInv
<1> QED
  BY <1>1, <1>2, <1>3, <1>4 DEF WorkInv

\* The call is refused or entered, or ends early.
LEMMA FrontSteps ==
  ASSUME RunInv,
         \/ Invalid \/ Enter \/ SourceRefused \/ Finish
         \/ \E kind \in StopKinds : Interrupted(kind)
         \/ \E tighter \in Tighter : Precheck(tighter)
  PROVE  RunInv'
<1>i. TypeInv /\ (pc # "done" => status = "none" /\ failure = "OK" /\ WorkInv)
  BY DEF RunInv
<1>1. CASE Invalid
  <2>1. /\ UNCHANGED <<call, expansion, result>> /\ pc = "enter" /\ pc' = "done"
        /\ status' = "INVALID" /\ failure' = "INVALID"
    BY <1>1 DEF Invalid
  <2>2. req' = req /\ budget' = budget /\ Untouched' = Untouched /\ Made' = Made
    BY <2>1, CallKept
  <2>3. TypeInv'
    BY <1>i, <2>1, <2>2 DEF TypeInv, expansion
  <2>4. FailsClean'
    BY <2>1, <2>2 DEF RunInv, FailsClean, Untouched
  <2> QED
    BY <2>1, <2>3, <2>4 DEF RunInv
<1>2. CASE Enter
  <2>1. /\ UNCHANGED <<call, expansion, result, status, failure>> /\ pc = "enter" /\ pc' = "source"
        /\ ~req.occupied
    BY <1>2 DEF Enter
  <2>2. req' = req /\ budget' = budget /\ Untouched' = Untouched /\ Made' = Made
    BY <2>1, CallKept
  <2>3. TypeInv'
    BY <1>i, <2>1, <2>2 DEF TypeInv, expansion
  <2>4. WorkInv'
    BY <1>i, <2>1, <2>2, <2>3, WorkKept DEF expansion, TypeInv
  <2> QED
    BY <2>1, <2>2, <2>3, <2>4 DEF RunInv, FailsClean, expansion
<1>3. CASE SourceRefused
  <2>1. /\ UNCHANGED call /\ UNCHANGED expansion /\ pc = "source"
        /\ \E code, cause \in {"INVALID", "UNSUPPORTED", "ERROR"} : Fail(code, cause)
    BY <1>3 DEF SourceRefused
  <2>2. PICK code, cause \in {"INVALID", "UNSUPPORTED", "ERROR"} : Fail(code, cause)
    BY <2>1
  <2>3. work' \in [states : Nat, edges : Nat, completed : Nat]
    BY <1>i, <2>1 DEF TypeInv, expansion
  <2> QED
    BY <2>1, <2>2, <2>3, Failing DEF expansion
<1>4. CASE Finish
  <2>1. /\ UNCHANGED <<call, expansion, result, failure>> /\ pc = "publish" /\ pc' = "done"
        /\ status' = "OK" /\ Cardinality(result) = Len(Parts)
    BY <1>4 DEF Finish
  <2>2. req' = req /\ budget' = budget /\ Made' = Made
    BY <2>1, CallKept
  <2>3. TypeInv'
    BY <1>i, <2>1, <2>2 DEF TypeInv, expansion
  <2>4. PICK c \in 0..Len(Parts) :
          result = {Parts[i] : i \in 1..c} /\ IsFiniteSet(result) /\ Cardinality(result) = c
    BY <2>1 DEF RunInv, PartsInv
  <2>5. DOMAIN Parts = 1..Len(Parts)
    BY DEF Parts
  <2>6. result' = {Parts[i] : i \in DOMAIN Parts}
    BY <2>1, <2>4, <2>5
  <2>7. WorkInv'
    <3>1. WorkInv
      BY <1>i, <2>1
    <3> QED
      BY <1>i, <2>1, <2>2, <2>3, <3>1, WorkKept DEF expansion, TypeInv
  <2>8. FailsClean'
    BY <1>i, <2>1, <2>6, <2>7 DEF FailsClean, WorkInv, Pairs
  <2> QED
    BY <2>1, <2>3, <2>8 DEF RunInv
<1>5. CASE \E kind \in StopKinds : Interrupted(kind)
  <2>1. PICK kind \in StopKinds : Interrupted(kind)
    BY <1>5
  <2>2. /\ UNCHANGED call /\ UNCHANGED expansion /\ pc \notin {"enter", "done"}
        /\ Fail(kind, kind) /\ kind # "OK"
    BY <2>1, ReductionConstants DEF Interrupted
  <2>3. work' \in [states : Nat, edges : Nat, completed : Nat]
    BY <1>i, <2>2 DEF TypeInv, expansion
  <2> QED
    BY <2>2, <2>3, Failing DEF expansion
<1>6. CASE \E tighter \in Tighter : Precheck(tighter)
  <2>1. PICK tighter \in Tighter : Precheck(tighter)
    BY <1>6
  <2>2. CASE OverStructure
    <3>1. UNCHANGED call /\ UNCHANGED expansion /\ pc = "source" /\ Fail("LIMIT", "LIMIT")
      BY <2>1, <2>2 DEF Precheck
    <3>2. work' \in [states : Nat, edges : Nat, completed : Nat]
      BY <1>i, <3>1 DEF TypeInv, expansion
    <3> QED
      BY <2>2, <3>1, <3>2, Failing DEF expansion
  <2>3. CASE ~OverStructure
    <3>1. /\ UNCHANGED <<req, expansion, result, status, failure>> /\ pc = "source" /\ pc' = "monitor"
          /\ budget' = [budget EXCEPT !.maxTotalStates = tighter]
      BY <2>1, <2>3 DEF Precheck
    <3>2. tighter \in Nat
      BY <1>i, RequestTyped DEF Tighter, TypeInv
    <3>3. /\ budget' \in [maxConjuncts : Nat, maxPredicted : Nat, maxTotalStates : Nat,
                         maxTotalEdges : Nat]
          /\ budget'.maxTotalStates = tighter
      BY <1>i, <3>1, <3>2 DEF TypeInv
    <3>4. req' = req /\ Made' = Made /\ Untouched' = Untouched
      BY <3>1 DEF Made, Monitor, Strict, Untouched
    <3>5. TypeInv'
      BY <1>i, <3>1, <3>3, <3>4 DEF TypeInv, expansion
    <3>6. work.states = 0 /\ WorkInv /\ ~req.occupied /\ result = Untouched
      BY <3>1 DEF RunInv
    <3>7. WorkInv'
      BY <1>i, <3>1, <3>3, <3>5, <3>6, WorkKept DEF expansion
    <3> QED
      BY <1>i, <3>1, <3>4, <3>5, <3>6, <3>7 DEF RunInv, FailsClean
  <2> QED
    BY <2>2, <2>3
<1> QED
  BY <1>1, <1>2, <1>3, <1>4, <1>5, <1>6


\* A monitor is begun, its rows expanded, and it is finished, or a budget ends it.
LEMMA MonitorSteps ==
  ASSUME RunInv,
         \/ Exhausted \/ CreateFails \/ Create \/ RowOverStates \/ RowOverEdges
         \/ ExpandRow \/ ContractBroken \/ FinishMonitor
  PROVE  RunInv'
<1>i. TypeInv /\ pc \in {"monitor", "expand"} /\ ~req.occupied
  BY DEF RunInv, Exhausted, CreateFails, Create, RowOverStates, RowOverEdges, ExpandRow,
         ContractBroken, FinishMonitor
<1>w. /\ WorkInv /\ status = "none" /\ failure = "OK" /\ result = Untouched
      /\ pc = "expand" => RowInv
  BY <1>i DEF RunInv
<1>c. /\ Cap \in Nat /\ work.states + Cap <= req.maxMonitorStates
      /\ budget.maxTotalStates # 0 => work.states + Cap <= budget.maxTotalStates
      /\ \/ work.states + (Cap + 1) > req.maxMonitorStates
         \/ /\ budget.maxTotalStates # 0
            /\ work.states + (Cap + 1) > budget.maxTotalStates
  BY <1>i, <1>w, CapFacts
<1>t. /\ work \in [states : Nat, edges : Nat, completed : Nat]
      /\ work.states \in Nat /\ work.edges \in Nat /\ work.completed \in Nat
      /\ budget.maxTotalStates \in Nat /\ budget.maxTotalEdges \in Nat
      /\ req.maxMonitorStates \in Nat /\ k \in Nat /\ row \in Nat /\ seen \in Nat
      /\ Len(req.conjuncts) \in Nat
  BY <1>i, RequestTyped DEF TypeInv
<1>d. k \in 1..Len(req.conjuncts) =>
        /\ Found(Conjunct.dba) /\ Conjunct.dba.n \in Nat \ {0}
        /\ Discovered(Conjunct.dba, Conjunct.dba.n) = Conjunct.dba.n
        /\ \A r \in 1..Conjunct.dba.n : Edges(Conjunct.dba, r) \in Nat
        /\ Monitor(Conjunct) \in Made /\ Monitor(Conjunct).dba = Conjunct.dba
  <2> SUFFICES ASSUME k \in 1..Len(req.conjuncts)
               PROVE  /\ Found(Conjunct.dba) /\ Conjunct.dba.n \in Nat \ {0}
                      /\ Discovered(Conjunct.dba, Conjunct.dba.n) = Conjunct.dba.n
                      /\ \A r \in 1..Conjunct.dba.n : Edges(Conjunct.dba, r) \in Nat
                      /\ Monitor(Conjunct) \in Made /\ Monitor(Conjunct).dba = Conjunct.dba
    OBVIOUS
  <2>1. Found(Conjunct.dba)
    BY <1>i, RequestTyped DEF TypeInv, Conjunct
  <2>2. Conjunct.dba.n \in Nat \ {0}
    BY <2>1 DEF Found
  <2>3. Monitor(Conjunct) \in Made
    BY DEF Made, Conjunct
  <2>4. Monitor(Conjunct).dba = Conjunct.dba
    BY DEF Monitor
  <2> QED
    BY <2>1, <2>2, <2>3, <2>4, Discovery
<1>1. CASE Exhausted
  <2>1. /\ Count(1, 0) /\ Fail("LIMIT", "LIMIT") /\ UNCHANGED call
        /\ UNCHANGED <<k, row, seen, monitors>> /\ Cap = 0 /\ req' = req /\ budget' = budget
    BY <1>1 DEF Exhausted, call
  <2>2. /\ work' \in [states : Nat, edges : Nat, completed : Nat]
        /\ work'.states = work.states + 1
    <3>1. 1 \in Nat /\ 0 \in Nat
      OBVIOUS
    <3> QED
      BY <1>t, <2>1, <3>1, Counting
  <2>3. Excess'
    BY <1>c, <2>1, <2>2 DEF Excess
  <2> QED
    BY <1>i, <2>1, <2>2, <2>3, Failing
<1>2. CASE CreateFails \/ ContractBroken
  <2>1. /\ UNCHANGED call /\ UNCHANGED expansion
        /\ \E cause \in {"UNSUPPORTED", "ERROR"} : Fail("UNSUPPORTED", cause)
    BY <1>2 DEF CreateFails, ContractBroken
  <2>2. PICK cause \in {"UNSUPPORTED", "ERROR"} : Fail("UNSUPPORTED", cause)
    BY <2>1
  <2>3. work' \in [states : Nat, edges : Nat, completed : Nat]
    BY <1>t, <2>1 DEF expansion
  <2> QED
    BY <1>i, <2>1, <2>2, <2>3, Failing DEF expansion
<1>3. CASE RowOverStates
  <2>1. /\ Count(Cap + 1, seen) /\ Fail("LIMIT", "LIMIT") /\ UNCHANGED call
        /\ UNCHANGED <<k, row, seen, monitors>> /\ req' = req /\ budget' = budget
    BY <1>3 DEF RowOverStates, call
  <2>2. /\ work' \in [states : Nat, edges : Nat, completed : Nat]
        /\ work'.states = work.states + (Cap + 1)
    BY <1>t, <1>c, <2>1, Counting
  <2>3. Excess'
    BY <1>c, <2>1, <2>2 DEF Excess
  <2> QED
    BY <1>i, <2>1, <2>2, <2>3, Failing
<1>4. CASE RowOverEdges
  <2> DEFINE total == seen + Edges(Conjunct.dba, row)
             found == Discovered(Conjunct.dba, row)
  <2>1. /\ Count(found, total) /\ Fail("LIMIT", "LIMIT") /\ UNCHANGED call
        /\ UNCHANGED <<k, row, seen, monitors>> /\ req' = req /\ budget' = budget
        /\ OverEdges(total) /\ row <= Conjunct.dba.n /\ pc = "expand"
    BY <1>4 DEF RowOverEdges, call
  <2>2. RowInv
    BY <1>w, <2>1
  <2>3. row \in 1..Conjunct.dba.n /\ k \in 1..Len(req.conjuncts)
    BY <1>d, <1>t, <2>1, <2>2 DEF RowInv
  <2>4. total \in Nat
    BY <1>d, <1>t, <2>3
  <2>5. found \in Nat
    BY <1>d, <2>3, DiscoveredTyped
  <2> HIDE DEF total, found
  <2>6. /\ work' \in [states : Nat, edges : Nat, completed : Nat]
        /\ work'.edges = work.edges + total
    BY <1>t, <2>1, <2>4, <2>5, Counting
  <2>7. budget.maxTotalEdges # 0 /\ total > Less(budget.maxTotalEdges, work.edges)
    BY <2>1 DEF OverEdges
  <2>8. work.edges + total > budget.maxTotalEdges
    BY <1>t, <2>4, <2>7 DEF Less, Least
  <2>9. Excess'
    BY <2>1, <2>6, <2>7, <2>8 DEF Excess
  <2> QED
    BY <1>i, <2>1, <2>6, <2>9, Failing
<1>5. CASE Create
  <2>1. /\ UNCHANGED <<call, work, k, monitors, result, status, failure>> /\ pc' = "expand"
        /\ row' = 1 /\ seen' = 0 /\ k <= Len(req.conjuncts)
    BY <1>5 DEF Create
  <2>2. req' = req /\ budget' = budget /\ Untouched' = Untouched /\ Made' = Made
    BY <2>1, CallKept
  <2>3. TypeInv'
    BY <1>i, <2>1, <2>2 DEF TypeInv
  <2>4. WorkInv'
    BY <1>i, <1>w, <2>1, <2>2, <2>3, WorkKept DEF TypeInv
  <2>5. k \in 1..Len(req.conjuncts)
    BY <1>i, <1>t, <2>1 DEF TypeInv
  <2>6. Conjunct' = Conjunct
    BY <2>1, <2>2 DEF Conjunct
  <2>7. 0 <= Less(budget.maxTotalEdges, work.edges)
    BY <1>t DEF Less, Least
  <2>8. RowInv'
    BY <1>d, <2>1, <2>2, <2>5, <2>6, <2>7 DEF RowInv, Less, Least
  <2> QED
    BY <1>i, <1>w, <2>1, <2>2, <2>3, <2>4, <2>8 DEF RunInv, FailsClean
<1>6. CASE ExpandRow
  <2> DEFINE total == seen + Edges(Conjunct.dba, row)
  <2>1. /\ UNCHANGED <<call, pc, work, k, monitors, result, status, failure>> /\ pc = "expand"
        /\ seen' = total /\ row' = row + 1 /\ row <= Conjunct.dba.n
        /\ Discovered(Conjunct.dba, row) <= Cap /\ ~OverEdges(total)
    BY <1>6 DEF ExpandRow
  <2>2. req' = req /\ budget' = budget /\ Untouched' = Untouched /\ Made' = Made
    BY <2>1, CallKept
  <2>3. RowInv
    BY <1>w, <2>1
  <2>4. row \in 1..Conjunct.dba.n /\ k \in 1..Len(req.conjuncts)
    BY <1>d, <1>t, <2>1, <2>3 DEF RowInv
  <2>5. total \in Nat
    BY <1>d, <1>t, <2>4
  <2> HIDE DEF total
  <2>6. TypeInv'
    BY <1>i, <1>t, <2>1, <2>2, <2>5 DEF TypeInv
  <2>7. WorkInv'
    BY <1>i, <1>w, <2>1, <2>2, <2>6, WorkKept DEF TypeInv
  <2>8. Conjunct' = Conjunct /\ Cap' = Cap
    BY <2>1, <2>2 DEF Conjunct, Cap, Less, Least
  <2>9. budget.maxTotalEdges # 0 => total <= Less(budget.maxTotalEdges, work.edges)
    BY <1>t, <2>1, <2>5 DEF OverEdges, Less, Least
  <2>10. row + 1 \in 1..(Conjunct.dba.n + 1)
    BY <1>d, <2>4
  <2>11. row + 1 > Conjunct.dba.n => Conjunct.dba.n <= Cap
    <3>1. row + 1 > Conjunct.dba.n => row = Conjunct.dba.n
      BY <1>d, <2>4
    <3> QED
      BY <1>d, <2>1, <2>4, <3>1
  <2>12. RowInv'
    BY <2>1, <2>2, <2>4, <2>8, <2>9, <2>10, <2>11 DEF RowInv, Less, Least
  <2> QED
    BY <1>i, <1>w, <2>1, <2>2, <2>6, <2>7, <2>12 DEF RunInv, FailsClean
<1>7. CASE FinishMonitor
  <2> DEFINE c == Monitor(Conjunct)
             n == Conjunct.dba.n
  <2>1. /\ UNCHANGED <<call, row, seen, result, status, failure>> /\ pc = "expand"
        /\ row > n /\ k' = k + 1 /\ pc' = "monitor"
        /\ work' = [states |-> work.states + n, edges |-> work.edges + seen,
                    completed |-> work.completed + 1]
        /\ monitors' = Append(monitors, c)
    BY <1>7 DEF FinishMonitor
  <2>2. req' = req /\ budget' = budget /\ Untouched' = Untouched /\ Made' = Made
    BY <2>1, CallKept
  <2>3. RowInv
    BY <1>w, <2>1
  <2>4. /\ k \in 1..Len(req.conjuncts) /\ n <= Cap
        /\ budget.maxTotalEdges # 0 => seen <= Less(budget.maxTotalEdges, work.edges)
    BY <2>1, <2>3 DEF RowInv
  <2>5. c \in Made /\ c.dba.n = n /\ n \in Nat
    BY <1>d, <2>4
  <2> HIDE DEF c, n
  <2>6. n <= req.maxMonitorStates
    BY <1>c, <1>t, <2>4, <2>5
  <2>7. /\ IsFiniteSet(Pairs)' /\ Cardinality(Pairs)' = Cardinality(Pairs) + n
        /\ monitors' \in Seq(Made)
    BY <1>i, <1>w, <2>1, <2>2, <2>5, <2>6, PairsGrow
  <2>8. TypeInv'
    <3>1. work' \in [states : Nat, edges : Nat, completed : Nat]
      BY <1>t, <2>1, <2>5
    <3> QED
      BY <1>i, <1>t, <2>1, <2>2, <2>7, <3>1 DEF TypeInv
  <2>9. /\ work.states + n <= req.maxMonitorStates
        /\ budget.maxTotalStates # 0 => work.states + n <= budget.maxTotalStates
    BY <1>c, <1>t, <2>4, <2>5
  <2>10. budget.maxTotalEdges # 0 => work.edges + seen <= budget.maxTotalEdges
    <3>1. budget.maxTotalEdges # 0 => work.edges <= budget.maxTotalEdges
      BY <1>w DEF WorkInv
    <3> QED
      BY <1>t, <2>4, <3>1 DEF Less, Least
  <2>11. work'.states = work.states + n /\ work'.edges = work.edges + seen
    BY <2>1
  <2>12. work.states = Cardinality(Pairs)
    BY <1>w DEF WorkInv
  <2>13. WorkInv'
    BY <2>2, <2>7, <2>9, <2>10, <2>11, <2>12 DEF WorkInv
  <2> QED
    BY <1>i, <1>w, <2>1, <2>2, <2>8, <2>13 DEF RunInv, FailsClean
<1> QED
  BY <1>1, <1>2, <1>3, <1>4, <1>5, <1>6, <1>7

\* The parts are handed out one after another.
LEMMA PublishSteps ==
  ASSUME RunInv, Encode \/ PublishPart
  PROVE  RunInv'
<1>i. TypeInv /\ pc \in {"monitor", "publish"} /\ ~req.occupied
  BY DEF RunInv, Encode, PublishPart
<1>w. /\ WorkInv /\ status = "none" /\ failure = "OK"
      /\ pc = "monitor" => result = {}
      /\ pc = "publish" => PartsInv
  BY <1>i DEF RunInv, Untouched
<1>1. /\ UNCHANGED <<call, expansion, status, failure>> /\ pc' = "publish"
  BY DEF Encode, PublishPart
<1>2. req' = req /\ budget' = budget /\ Made' = Made
  BY <1>1, CallKept
<1>3. TypeInv'
  BY <1>i, <1>1, <1>2 DEF TypeInv, expansion
<1>4. WorkInv'
  BY <1>i, <1>w, <1>1, <1>2, <1>3, WorkKept DEF TypeInv, expansion
<1>5. PartsInv'
  <2>1. CASE Encode
    <3>1. result' = {}
      BY <1>w, <2>1 DEF Encode
    <3>2. {} = {Parts[i] : i \in 1..0} /\ IsFiniteSet({}) /\ Cardinality({}) = 0
      BY FS_EmptySet
    <3>3. 0 \in 0..Len(Parts)
      BY DEF Parts
    <3> QED
      BY <3>1, <3>2, <3>3 DEF PartsInv
  <2>2. CASE PublishPart
    <3>1. /\ pc = "publish" /\ Cardinality(result) < Len(Parts)
          /\ result' = result \cup {Parts[Cardinality(result) + 1]}
      BY <2>2 DEF PublishPart
    <3>2. PICK c \in 0..Len(Parts) :
            result = {Parts[i] : i \in 1..c} /\ IsFiniteSet(result) /\ Cardinality(result) = c
      BY <1>w, <3>1 DEF PartsInv
    <3>3. Len(Parts) = 5 /\ \A i, j \in 1..5 : Parts[i] = Parts[j] => i = j
      BY DEF Parts
    <3>4. c \in 0..4 /\ c + 1 \in 0..Len(Parts)
      BY <3>1, <3>2, <3>3
    <3>5. \A i \in 1..(c + 1) : i = c + 1 \/ i \in 1..c
      BY <3>4
    <3>6. result' = {Parts[i] : i \in 1..(c + 1)}
      <4>1. 1..(c + 1) = (1..c) \cup {c + 1}
        BY <3>4
      <4> QED
        BY <3>1, <3>2, <4>1
    <3>7. Parts[c + 1] \notin result
      <4>1. c + 1 \in 1..5 /\ \A i \in 1..c : i \in 1..5 /\ i # c + 1
        BY <3>4
      <4> HIDE DEF Parts
      <4> QED
        BY <3>2, <3>3, <4>1
    <3>8. IsFiniteSet(result') /\ Cardinality(result') = c + 1
      BY <3>1, <3>2, <3>7, FS_AddElement
    <3> QED
      BY <3>4, <3>6, <3>8 DEF PartsInv
  <2> QED
    BY <2>1, <2>2
<1> QED
  BY <1>i, <1>w, <1>1, <1>2, <1>3, <1>4, <1>5 DEF RunInv, FailsClean

-----------------------------------------------------------------------------
\* Wherever the call of gr1_reduction.cc is refused, stopped, ended by a budget or
\* finished, it reports that one way in both codes; what it hands out is
\* everything or nothing; the work of what was finished is exactly that of its
\* monitors and fits every budget, tightened ones too; and a state or edge budget
\* is blamed only for work beyond it.
THEOREM FailuresAreClean == PlaySpec => []FailsClean
<1>1. PlayInit => RunInv
  <2> SUFFICES ASSUME Init PROVE RunInv
    BY DEF PlayInit
  <2>1. /\ req \in Requests /\ budget = req.budget /\ pc = "enter" /\ k = 1 /\ row = 0 /\ seen = 0
        /\ work = [states |-> 0, edges |-> 0, completed |-> 0] /\ monitors = << >>
        /\ result = Untouched /\ status = "none" /\ failure = "OK"
    BY DEF Init, Untouched
  <2>2. TypeInv
    BY <2>1, RequestTyped DEF TypeInv
  <2>3. Pairs = {}
    BY <2>1 DEF Pairs, Ms
  <2>4. WorkInv
    BY <2>1, <2>2, <2>3, RequestTyped, FS_EmptySet DEF WorkInv, TypeInv
  <2> QED
    BY <2>1, <2>2, <2>4 DEF RunInv, FailsClean
<1>2. RunInv /\ [Solve \/ Play]_playVars => RunInv'
  <2> SUFFICES ASSUME RunInv, [Solve \/ Play]_playVars PROVE RunInv'
    OBVIOUS
  <2>1. Next \/ UNCHANGED vars
    BY DEF Solve, Play, Round, playVars
  <2>2. CASE UNCHANGED vars
    <3>1. UNCHANGED call /\ UNCHANGED <<pc, result, status, failure>> /\ UNCHANGED expansion
      BY <2>2 DEF vars
    <3>2. /\ req' = req /\ budget' = budget /\ Untouched' = Untouched /\ Made' = Made
          /\ OverStructure' = OverStructure
      BY <3>1, CallKept
    <3>3. Pairs' = Pairs /\ Cap' = Cap /\ Conjunct' = Conjunct
      BY <3>1, <3>2 DEF expansion, Pairs, Ms, Cap, Less, Least, Conjunct
    <3>4. TypeInv' = TypeInv /\ WorkInv' = WorkInv /\ RowInv' = RowInv /\ PartsInv' = PartsInv
      BY <3>1, <3>2, <3>3 DEF expansion, TypeInv, WorkInv, RowInv, PartsInv, Less, Least
    <3>5. FailsClean' = FailsClean
      BY <3>1, <3>2 DEF expansion, FailsClean, Ms
    <3> QED
      BY <3>1, <3>2, <3>4, <3>5 DEF expansion, RunInv
  <2> QED
    BY <2>1, <2>2, FrontSteps, MonitorSteps, PublishSteps DEF Next
<1>3. RunInv => FailsClean
  BY DEF RunInv
<1> QED
  BY <1>1, <1>2, <1>3, PTL DEF PlaySpec
=============================================================================
