------------------------------- MODULE DpaRun -------------------------------
(***************************************************************************)
(* dpa.c: a context is created from a formula or from a table of formula   *)
(* records, and rows are computed when they are asked for; equality of two *)
(* formulas is decided on the automaton of their difference.               *)
(*                                                                         *)
(* A job is [call, root, other, temporal, unproved, limit, records]: call  *)
(* is "expand", "buchi", "records" (rows in order of discovery), "parity"  *)
(* (in any order) or "equal"; limit is max_states, 0 for none; a poll may  *)
(* find that a limit, the deadline or a cancellation has struck: Stop.     *)
(***************************************************************************)
EXTENDS DpaFormula

-----------------------------------------------------------------------------
(***************************************************************************)
(* The automaton read off the components of a formula: the breakpoint      *)
(* construction of one component (dpa_dela.c), the Zielonka tree of the    *)
(* acceptance condition (dpa_zielonka.c) and the joint step on one letter. *)
(*                                                                         *)
(* A context ctx holds the components (classes), the acceptance class over *)
(* their colours, whether the automaton is a Buchi monitor, and the mode   *)
(* the tags are read in.  A state is [pairs, leaf] or a sink.              *)
(***************************************************************************)
\* transition: a is what the component still has to satisfy, r what must
\* happen before its next mark.
To(n, rejecting, mark) == [pair |-> <<n, rejecting>>, mark |-> mark]

Renewed(next, renewed) ==
    IF renewed = Zero THEN To(Zero, Zero, FALSE) ELSE To(next, renewed, TRUE)

Moved(next, waiting, remainder, mode) ==
    CASE next = Zero -> To(Zero, Zero, FALSE)
      [] next # Zero /\ HasTags(next, {"safety"}, mode) -> To(next, Zero, TRUE)
      [] next # Zero /\ ~HasTags(next, {"safety"}, mode) /\
         HasTags(next, {"cosafety"}, mode) -> To(next, Zero, FALSE)
      [] OTHER ->
           IF waiting = Zero THEN To(next, remainder, FALSE)
           ELSE IF ~HasTags(waiting, {"finite"}, mode) THEN To(next, waiting, FALSE)
           ELSE Renewed(next, AndF(waiting, remainder))

Transition(a, r, mode) == Moved(Unfold(a), Unfold(r), Remainder(a, mode), mode)

\* dpa_dela_initial, one component.
InitialPair(f, mode) ==
    LET all == Unfold(f)
    IN  <<all, IF HasTags(all, {"safety", "cosafety"}, mode) THEN Zero
               ELSE Remainder(f, mode)>>

-----------------------------------------------------------------------------
\* The Zielonka tree over the colours 1..Len(ctx.comps).

AcceptsColours(ctx, S) == Holds(ctx.acceptance, {<<"colour", i>> : i \in S})

\* before: the lexicographic order of the sorted colour lists.
Before(A, B) ==
    LET m == Min((A \ B) \cup (B \ A))
    IN  A # B /\ IF m \in A THEN \E k \in B : k > m ELSE ~\E k \in A : k > m

\* tree: the children of a node are the maximal subsets of its colours with
\* the other acceptance.
TreeChildren(ctx, S) ==
    LET other == UNION {IF AcceptsColours(ctx, T) # AcceptsColours(ctx, S)
                        THEN {T} ELSE {} : T \in SUBSET S}
        maximal == {T \in other : ~\E U \in other : T # U /\ T \subseteq U}
    IN  SetToSortSeq(maximal, Before)

AllColours(ctx) == 1..Len(ctx.comps)

\* The colours of the node a path of child positions leads to.
RECURSIVE NodeAt(_, _, _)
NodeAt(ctx, S, path) ==
    IF path = <<>> THEN S
    ELSE NodeAt(ctx, TreeChildren(ctx, S)[path[1] + 1], Tail(path))

\* leftmost.
RECURSIVE Leftmost(_, _)
Leftmost(ctx, path) ==
    IF TreeChildren(ctx, NodeAt(ctx, AllColours(ctx), path)) = <<>> THEN path
    ELSE Leftmost(ctx, Append(path, 0))

\* tlsf_dpa_create: the largest priority is odd.
MaxPriority(ctx) == LET n == Len(ctx.comps) + 2 IN IF n % 2 = 1 THEN n ELSE n + 1

\* dpa_tree_step: the deepest node of the path that contains the colours, its
\* next child, and from there leftmost.
TreeStep(ctx, leaf, colours) ==
    LET Node(d) == NodeAt(ctx, AllColours(ctx), SubSeq(leaf, 1, d))
        anchor == Max({d \in 0..Len(leaf) : colours \subseteq Node(d)})
        count == Len(TreeChildren(ctx, Node(anchor)))
        priority == anchor + IF AcceptsColours(ctx, AllColours(ctx)) THEN 0 ELSE 1
    IN  [leaf |-> IF count = 0 THEN leaf
                  ELSE Leftmost(ctx, Append(SubSeq(leaf, 1, anchor),
                                            (leaf[anchor + 1] + 1) % count)),
         priority |-> MaxPriority(ctx) - priority]

-----------------------------------------------------------------------------
\* States and rows.

Sink(truth) == [pairs |-> <<>>, leaf |-> <<IF truth THEN -1 ELSE -2>>]
Sinks == {Sink(TRUE), Sink(FALSE)}

\* terminal_condition.
TerminalCondition(ctx, pairs) ==
    MapClass(ctx.acceptance,
        {<<x, IF pairs[x[2]][1] \in Constants THEN pairs[x[2]][1] ELSE Var(x)>> :
           x \in ctx.acceptance[1]})

\* seen_colours: the residual of a round after the colours were seen.
SeenColours(f, colours) ==
    Granted(f, {x \in f[1] : x[2] \in colours})

\* The edge into a sink.
Settled(ctx, truth) == [to |-> Sink(truth), priority |-> MaxPriority(ctx) - IF truth THEN 0 ELSE 1]

\* A Buchi state's leaf is the round: the residual acceptance and the mark.
BuchiEdge(ctx, state, pairs, residual) ==
    [to |-> [pairs |-> pairs,
             leaf |-> IF residual = One THEN <<ctx.acceptance, TRUE>> ELSE <<residual, FALSE>>],
     priority |-> IF state.leaf[2] THEN 1 ELSE 0]

ParityEdge(ctx, pairs, truth, step) ==
    IF truth \in Constants THEN Settled(ctx, truth = One)
    ELSE [to |-> [pairs |-> pairs, leaf |-> step.leaf], priority |-> step.priority]

\* joint, dpa_dela_step: where a letter leads and the priority of the edge.
Moves(ctx, state, letter) ==
    <<>> \o [i \in DOMAIN ctx.comps |->
               Transition(StepClass(state.pairs[i][1], letter),
                          StepClass(state.pairs[i][2], letter), ctx.mode)]

Landed(ctx, state, pairs, colours) ==
    IF ctx.buchi
    THEN BuchiEdge(ctx, state, pairs, SeenColours(state.leaf[1], colours))
    ELSE ParityEdge(ctx, pairs, TerminalCondition(ctx, pairs),
                    TreeStep(ctx, state.leaf, colours))

Joined(ctx, state, moves) ==
    Landed(ctx, state, <<>> \o [i \in DOMAIN moves |-> moves[i].pair],
           {i \in DOMAIN moves : moves[i].mark})

Joint(ctx, state, letter) ==
    IF state \in Sinks THEN Settled(ctx, state = Sink(TRUE))
    ELSE Joined(ctx, state, Moves(ctx, state, letter))

\* The initial tuple; mode is the one tags are read in at that moment.
InitialState(ctx, mode) ==
    [pairs |-> <<>> \o [i \in DOMAIN ctx.comps |-> InitialPair(ctx.comps[i], mode)],
     leaf |-> IF ctx.buchi THEN <<ctx.acceptance, ctx.acceptance # Zero>>
              ELSE Leftmost(ctx, <<>>)]

-----------------------------------------------------------------------------
CONSTANTS Jobs,
          Names,        \* the declared propositions
          LetterSeq,    \* the letters, in the order a row is computed
          Lassos        \* the words the language is compared on

VARIABLES job,
          status,       \* "ok", or how the context failed
          ctx,          \* <<the context's components and acceptance>> or <<>>
          states,       \* the states found so far, by identifier
          rows,         \* the rows computed: identifier -> set of edges
          answer,       \* of an equality question
          pc

vars == <<job, status, ctx, states, rows, answer, pc>>

Letters == {LetterSeq[k] : k \in DOMAIN LetterSeq}
NoRow == {}

Called(j) ==
    /\ job = j
    /\ status = "ok"
    /\ ctx = <<>> /\ states = <<>> /\ rows = <<>>
    /\ answer = FALSE
    /\ pc = CASE job.call = "records" -> "records"
              [] job.call = "equal" -> "compare"
              [] OTHER -> "create"

Init == \E j \in Jobs : Called(j)

-----------------------------------------------------------------------------
\* tlsf_dpa_create_from_dag: records are [kind, left, right, ap] with 0 for an
\* unused field; a child comes before its parent.
Arity(k) == CASE k \in {"true", "false", "ap"} -> 0
              [] k \in {"not", "X", "F", "G"} -> 1
              [] OTHER -> 2

ValidRecord(records, i) ==
    LET n == records[i]
    IN  /\ n.kind \in CoreKinds \ {"X!"}
        /\ IF Arity(n.kind) > 0 THEN n.left \in 1..(i - 1) ELSE n.left = 0
        /\ IF Arity(n.kind) = 2 THEN n.right \in 1..(i - 1) ELSE n.right = 0
        /\ IF n.kind = "ap" THEN n.ap \in Names ELSE n.ap = 0

RECURSIVE Written(_, _)
Written(records, i) ==
    LET n == records[i]
    IN  CASE n.kind = "ap" -> Ap(n.ap)
          [] n.kind \in {"true", "false"} -> <<n.kind>>
          [] Arity(n.kind) = 1 -> <<n.kind, Written(records, n.left)>>
          [] OTHER -> <<n.kind, Written(records, n.left), Written(records, n.right)>>

ReadRecords ==
    /\ pc = "records"
    /\ IF \A i \in DOMAIN job.records : ValidRecord(job.records, i)
       THEN /\ job' = [job EXCEPT !.root = Written(job.records, Len(job.records))]
            /\ pc' = "create" /\ UNCHANGED status
       ELSE status' = "invalid" /\ pc' = "failed" /\ UNCHANGED job
    /\ UNCHANGED <<ctx, states, rows, answer>>

-----------------------------------------------------------------------------
\* Creation.

Mode(started) == [unproved |-> job.unproved, started |-> started]

\* What is compared or monitored: equality asks for the difference.
Target == IF job.call = "equal" THEN Not(<<"equiv", job.root, job.other>>) ELSE job.root

Context(accepted, buchi) ==
    [comps |-> accepted.table, acceptance |-> accepted.fn, buchi |-> buchi,
     mode |-> Mode(TRUE)]

Declined(reason) ==
    /\ status' = reason
    /\ pc' = "failed"
    /\ UNCHANGED <<job, ctx, states, rows, answer>>

\* tlsf_dpa_create.  The acceptance is fixed here; the tree and the initial
\* tuple wait for the first row.
Create ==
    /\ pc = "create"
    /\ LET term == Transport(Target, FALSE, 0)
           f == Materialize(term)
       IN  IF ReadFailures(Target, Names) # {}
           THEN \E reason \in ReadFailures(Target, Names) : Declined(reason)
           ELSE IF ~CheckAdmission(f, Mode(FALSE))
           THEN IF job.call = "equal"
                THEN pc' = "done" /\ UNCHANGED <<job, status, ctx, states, rows, answer>>
                ELSE Declined("unsupported")
           ELSE /\ ctx' = <<Context(GroupedAcceptance(term, Mode(FALSE)), FALSE)>>
                /\ pc' = IF job.call = "buchi" THEN "buchi" ELSE "serve"
                /\ UNCHANGED <<job, status, states, rows, answer>>

\* dpa_buchi_create: the components again, as a positive combination, and a
\* first state whose round is marked.
CreateBuchi ==
    /\ pc = "buchi"
    /\ LET term == Transport(Target, FALSE, 0)
           buchi == BuchiSyntax(term, <<>>, Mode(FALSE))
       IN  IF \/ "pi2" \notin ClassTags(Materialize(term), Mode(FALSE))
              \/ buchi = <<>>
           THEN Declined("unsupported")
           ELSE LET c == Context(buchi[1], TRUE)
                IN  /\ ctx' = <<c>>
                    /\ states' = <<InitialState(c, Mode(FALSE))>>
                    /\ pc' = "serve"
                    /\ UNCHANGED <<job, status, rows, answer>>

-----------------------------------------------------------------------------
\* Rows.

\* The first request builds the tree and replaces the placeholder state.
Start ==
    /\ pc = "serve" /\ states = <<>>
    /\ states' = <<InitialState(ctx[1], ctx[1].mode)>>
    /\ UNCHANGED <<job, status, ctx, rows, answer, pc>>

\* dpa_state: interning under the state limit.
Interned(known, s) == IF \E i \in DOMAIN known : known[i] = s THEN known ELSE Append(known, s)
IdOf(known, s) == CHOOSE i \in DOMAIN known : known[i] = s

Missing == {i \in DOMAIN states : i > Len(rows) \/ rows[i] = NoRow}

\* tlsf_dpa_successors on a state without a row: letters with the same target
\* and priority become one edge.
RECURSIVE AllInterned(_, _)
AllInterned(known, edges) ==
    IF edges = <<>> THEN known ELSE AllInterned(Interned(known, edges[1].to), Tail(edges))

Row(edges, known) ==
    {[label |-> {LetterSeq[k] : k \in {j \in DOMAIN edges : edges[j] = edges[m]}},
      successor |-> IdOf(known, edges[m].to),
      priority |-> edges[m].priority] : m \in DOMAIN edges}

WithRow(id, row) ==
    [i \in 1..Max({id, Len(rows)}) |->
       IF i = id THEN row ELSE IF i \in DOMAIN rows THEN rows[i] ELSE NoRow]

Found(id, edges, known) ==
    IF job.limit # 0 /\ Len(known) > job.limit
    THEN Declined("state_limit")
    ELSE /\ states' = known
         /\ rows' = WithRow(id, Row(edges, known))
         /\ UNCHANGED <<job, status, ctx, answer, pc>>

Served(id, edges) == Found(id, edges, AllInterned(states, edges))

Successors(id) ==
    /\ pc = "serve" /\ id \in Missing
    /\ job.call # "parity" => \A i \in Missing : id <= i
    /\ Served(id, <<>> \o [k \in DOMAIN LetterSeq |->
                             Joint(ctx[1], states[id], LetterSeq[k])])

Complete == states # <<>> /\ Missing = {}

-----------------------------------------------------------------------------
\* dpa_formula_equal.

Compare ==
    /\ pc = "compare"
    /\ LET same == Materialize(Transport(job.root, FALSE, 0)) =
                   Materialize(Transport(job.other, FALSE, 0))
       IN  IF ReadFailures(Target, Names) # {}
           THEN \E reason \in ReadFailures(Target, Names) : Declined(reason)
           ELSE /\ answer' = same
                /\ pc' = IF same \/ ~job.temporal THEN "done" ELSE "create"
                /\ UNCHANGED <<job, status, ctx, states, rows>>

\* equality_scc: what a state reaches over edges of priority at most p.
RECURSIVE ReachUpTo(_, _)
ReachUpTo(S, p) ==
    LET next == S \cup UNION {{e.successor : e \in {d \in rows[i] : d.priority <= p}} : i \in S}
    IN  IF next = S THEN S ELSE ReachUpTo(next, p)

\* The search for odd cycles stops before the largest priority.
EqualityEmptyShort ==
    ~\E i \in DOMAIN rows : \E e \in rows[i] :
        /\ e.priority % 2 = 1 /\ e.priority < MaxPriority(ctx[1])
        /\ i \in ReachUpTo({e.successor}, e.priority)

\* equality_empty: no cycle whose largest priority is odd.
EqualityEmpty ==
    ~\E i \in DOMAIN rows : \E e \in rows[i] :
        e.priority % 2 = 1 /\ i \in ReachUpTo({e.successor}, e.priority)

Decide ==
    /\ pc = "serve" /\ job.call = "equal" /\ Complete
    /\ answer' = EqualityEmpty
    /\ pc' = "done"
    /\ UNCHANGED <<job, status, ctx, states, rows>>

\* A poll that finds a limit, the deadline or a cancellation.
Stop ==
    /\ pc \notin {"failed", "done"}
    /\ status' = "declined"
    /\ pc' = "failed"
    /\ answer' = FALSE
    /\ UNCHANGED <<job, ctx, states, rows>>

Next == ReadRecords \/ Create \/ CreateBuchi \/ Start \/ Compare \/ Decide \/ Stop
        \/ \E id \in DOMAIN states : Successors(id)

Spec == Init /\ [][Next]_vars

-----------------------------------------------------------------------------
\* The run of the automaton on a lasso word, and its verdict on it.
EdgeOf(i, letter) == CHOOSE e \in rows[i] : letter \in e.label

RECURSIVE Visits(_, _, _)
Visits(w, at, seen) ==      \* seen: <<state, position, priority>> so far
    LET e == EdgeOf(at[1], w.letters[at[2]])
        here == <<at[1], at[2], e.priority>>
    IN  IF \E k \in DOMAIN seen : seen[k] = here
        THEN LET first == CHOOSE k \in DOMAIN seen : seen[k] = here
             IN  {seen[k][3] : k \in first..Len(seen)}
        ELSE Visits(w, <<e.successor, Following(w, at[2])>>, Append(seen, here))

AutomatonAccepts(w) == Max(Visits(w, <<1, 1>>, <<>>)) % 2 = 1

\* What a context answers is true.  Once all reachable rows are there, in
\* whatever order they were asked for, the automaton accepts exactly the words
\* of the formula it was made from: the largest priority that recurs is odd
\* exactly on the formula's words, for parity automata and for Buchi monitors.
\* An equality that is answered yes is one, also when the automaton was cut
\* short; where the difference has an automaton, the answer no means that some
\* word tells the formulas apart.
LanguageExact ==
    Complete /\ status = "ok" =>
        \A w \in Lassos : AutomatonAccepts(w) <=> 1 \in Sat(Target, w)

EqualitySound ==
    pc = "done" /\ job.call = "equal" =>
        LET same == \A w \in Lassos : (1 \in Sat(job.root, w)) <=> (1 \in Sat(job.other, w))
        IN  /\ answer => same
            /\ ctx # <<>> /\ ~answer => ~same

\* What dpa.c answers is true of the words: the automaton it gives accepts the
\* words of its formula, and its answers about equality are right.
AnswersTrue == LanguageExact /\ EqualitySound
=============================================================================
