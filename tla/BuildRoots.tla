----------------------------- MODULE BuildRoots -----------------------------
(***************************************************************************)
(* oxidd_build_roots: the BDDs of selected literals of an AND-inverter     *)
(* circuit.  Uses are counted backwards from the roots, gates are built in *)
(* topological order, each map entry is released when its last consumer    *)
(* has read it, and the roots are published only when all were built.  The *)
(* caller may seed gates it compiled earlier; any wrapped operation may    *)
(* fail (RunGuard), also before the call, while the leaves were made.      *)
(*                                                                         *)
(* Variables 1..NumLeaves are inputs and latches, NumLeaves + i is gate i. *)
(* A literal is twice its variable, plus one when complemented; literals 0 *)
(* and 1 are the constants.  A BDD is the set of assignments it accepts.   *)
(***************************************************************************)
EXTENDS Naturals, Sequences, FiniteSets

CONSTANTS NumLeaves,
          Circuits,   \* records of gates, a sequence of literal pairs, the literals
                      \* asked for, and the gate variables seeded
          BuildStops  \* limits the caller may arm

\* "The reader and AIG builder guarantee topological gate order"; a seed is a
\* gate, and the caller may ask for any literal.
ASSUME CircuitAssumption ==
  /\ NumLeaves \in Nat
  /\ BuildStops \subseteq {"DEADLINE", "CANCELLED"}
  /\ \A c \in Circuits :
       /\ c.gates \in Seq(Nat \X Nat)
       /\ \A k \in DOMAIN c.gates : \A n \in {1, 2} :
            c.gates[k][n] \div 2 < NumLeaves + k
       /\ c.lits \in Seq(Nat)
       /\ c.seeded \subseteq {NumLeaves + k : k \in DOMAIN c.gates}

VARIABLES buildPc, circuit, buildGuard, ok,
          hostFailed,    \* an allocation (or a constant) was refused
          map, uses, i,
          retained,      \* map references held, as the code counts them
          published, roots

buildVars == <<buildPc, circuit, buildGuard, ok, hostFailed, map, uses, i, retained,
          published, roots>>

Guarded == INSTANCE RunGuard
             WITH guard <- buildGuard, valid <- ~buildGuard.failed, StopKinds <- BuildStops

Assignments == [1..NumLeaves -> BOOLEAN]
Invalid == [ok |-> FALSE, fn |-> {}]
Bdd(S) == [ok |-> TRUE, fn |-> S]
False == Bdd({})
True == Bdd(Assignments)

NumGates == Len(circuit.gates)
MaxVar == NumLeaves + NumGates
Vars == 1..MaxVar
GateVar(k) == NumLeaves + k
Fanin(k) == circuit.gates[k]
Var(lit) == lit \div 2

-----------------------------------------------------------------------------
\* The reference: what each literal of the circuit denotes.
LitOf(den, lit) ==
  CASE lit = 0 -> {}
    [] lit = 1 -> Assignments
    [] lit > 1 /\ lit % 2 = 0 -> den[Var(lit)]
    [] lit > 1 /\ lit % 2 = 1 -> Assignments \ den[Var(lit)]

Denotes[v \in Vars] ==
  IF v <= NumLeaves THEN {a \in Assignments : a[v]}
  ELSE {a \in Assignments : \A n \in {1, 2} : a \in LitOf(Denotes, Fanin(v - NumLeaves)[n])}

Denotation == [lit \in 0..(2 * MaxVar + 1) |-> LitOf(Denotes, lit)]

\* The caller's map: leaves up to `made` (making the next one failed, if there
\* is a next one) and the seeded gates.
InitialMap(made) ==
  [v \in Vars |-> IF v <= made \/ v \in circuit.seeded
                    THEN Bdd(Denotation[2 * v]) ELSE Invalid]

Held(m) == Cardinality({v \in DOMAIN m : m[v].ok})

BuildInit ==
  /\ buildPc = "allocate" /\ circuit \in Circuits
  /\ \E made \in 0..NumLeaves :
       /\ map = InitialMap(made)
       /\ buildGuard \in IF made = NumLeaves THEN {Guarded!FreshGuard}
                    ELSE Guarded!Outcomes(Guarded!FreshGuard, TRUE)
                           \ {Guarded!FreshGuard}
  /\ ok = TRUE /\ hostFailed = FALSE
  /\ uses = [v \in Vars |-> 0] /\ i = 0 /\ retained = 0
  /\ published = << >>
  /\ roots = [r \in 1..Len(circuit.lits) |-> Invalid]

\* The use counts and the publication buffer are allocated, or not.
Allocate ==
  /\ buildPc = "allocate"
  /\ buildPc' = "roots" /\ retained' = Held(map)
  /\ UNCHANGED <<circuit, buildGuard, ok, hostFailed, map, uses, i, published,
                 roots>>

AllocateFails ==
  /\ buildPc = "allocate"
  /\ buildGuard' = Guarded!RecordFailure(buildGuard, "HOST")
  /\ ok' = FALSE /\ hostFailed' = TRUE /\ buildPc' = "done"
  /\ UNCHANGED <<circuit, map, uses, i, retained, published, roots>>

\* The first r root literals lie inside the circuit.
KnownUpTo(r) == \A q \in 1..r : Var(circuit.lits[q]) <= MaxVar

CountEachVariableOnce ==
  /\ buildPc = "roots"
  /\ ok' = KnownUpTo(Len(circuit.lits))
  /\ uses' = [v \in Vars |->
                IF \E r \in 1..Len(circuit.lits) :
                     KnownUpTo(r) /\ Var(circuit.lits[r]) = v
                  THEN 1 ELSE 0]
  /\ buildPc' = "count" /\ i' = NumGates
  /\ UNCHANGED <<circuit, buildGuard, hostFailed, map, retained, published, roots>>

\* Every root occurrence is a use; counting ends, with an error, at a literal
\* the map cannot hold.
CountRoots ==
  /\ buildPc = "roots"
  /\ ok' = KnownUpTo(Len(circuit.lits))
  /\ uses' = [v \in Vars |->
                Cardinality({r \in 1..Len(circuit.lits) :
                               KnownUpTo(r) /\ Var(circuit.lits[r]) = v})]
  /\ buildPc' = "count" /\ i' = NumGates
  /\ UNCHANGED <<circuit, buildGuard, hostFailed, map, retained, published, roots>>

Edges(k, v) ==
  (IF Var(Fanin(k)[1]) = v THEN 1 ELSE 0)
    + (IF Var(Fanin(k)[2]) = v THEN 1 ELSE 0)

\* Gate k is read by someone and is not there yet.
ToBuild(k) == uses[GateVar(k)] # 0 /\ ~map[GateVar(k)].ok

\* Backwards over the gates: a needed one uses its operands, both occurrences
\* when they are the same variable; a seeded one is a leaf.
CountGate ==
  /\ buildPc = "count" /\ ok /\ i > 0
  /\ uses' = IF ToBuild(i) THEN [v \in Vars |-> uses[v] + Edges(i, v)] ELSE uses
  /\ i' = i - 1
  /\ UNCHANGED <<buildPc, circuit, buildGuard, ok, hostFailed, map, retained, published,
                 roots>>

\* Entries without a use are released before anything is built.
ReleaseUnused ==
  /\ buildPc = "count" /\ (i = 0 \/ ~ok)
  /\ map' = [v \in Vars |-> IF uses[v] = 0 THEN Invalid ELSE map[v]]
  /\ retained' = retained - Cardinality({v \in Vars : uses[v] = 0 /\ map[v].ok})
  /\ \/ ok' = ok /\ hostFailed' = hostFailed
     \/ ok' = FALSE /\ hostFailed' = TRUE   \* no handle for a constant
  /\ buildPc' = IF ok' THEN "build" ELSE "finish"
  /\ i' = 1
  /\ UNCHANGED <<circuit, buildGuard, uses, published, roots>>

-----------------------------------------------------------------------------
\* run_literal: a reference, or a wrapped negation.
LiteralGuards(g, lit) ==
  IF lit > 1 /\ lit % 2 = 1 /\ map[Var(lit)].ok
    THEN Guarded!Outcomes(g, TRUE) ELSE {g}

LiteralValue(g, lit) ==
  IF lit < 2 THEN IF lit = 1 THEN True ELSE False
  ELSE IF ~map[Var(lit)].ok THEN Invalid
  ELSE IF lit % 2 = 0 THEN map[Var(lit)]
  ELSE IF g.failed THEN Invalid
  ELSE Bdd(Assignments \ map[Var(lit)].fn)

\* The gate needs no operation when an operand is a constant, even if the other
\* operand could not be made.
Shortcut(a, b) == a \in {False, True} \/ b \in {False, True}

\* The shortcut tests the operands in the wrong order.
TrueFirst(a, b) ==
  IF a = True \/ b = True THEN True ELSE IF a = False THEN b ELSE a

ShortcutValue(a, b) ==
  IF a = False \/ b = False THEN False ELSE IF a = True THEN b ELSE a

\* consume_literal: the last consumer releases the entry.
Consumed(u, lit) ==
  IF Var(lit) = 0 THEN u ELSE [u EXCEPT ![Var(lit)] = @ - 1]

Release(m, before, after) ==
  [v \in Vars |-> IF before[v] > 0 /\ after[v] = 0 THEN Invalid ELSE m[v]]

Dropped(m, before, after) ==
  Cardinality({v \in Vars : before[v] > 0 /\ after[v] = 0 /\ m[v].ok})

SkipGate ==
  /\ buildPc = "build" /\ i <= NumGates /\ ~ToBuild(i)
  /\ i' = i + 1
  /\ UNCHANGED <<buildPc, circuit, buildGuard, ok, hostFailed, map, uses, retained,
                 published, roots>>

\* Build gate i, store it, then consume its operands, whether or not it could
\* be built.
BuildGate ==
  /\ buildPc = "build" /\ i <= NumGates /\ ToBuild(i)
  /\ \E g1 \in LiteralGuards(buildGuard, Fanin(i)[1]) :
     \E g2 \in LiteralGuards(g1, Fanin(i)[2]) :
       LET a == LiteralValue(g1, Fanin(i)[1])
           b == LiteralValue(g2, Fanin(i)[2])
           after == Consumed(Consumed(uses, Fanin(i)[1]), Fanin(i)[2])
       IN  \E g3 \in IF Shortcut(a, b) THEN {g2}
                     ELSE Guarded!Outcomes(g2, a.ok /\ b.ok) :
             LET result == IF Shortcut(a, b) THEN ShortcutValue(a, b)
                           ELSE IF g3.failed THEN Invalid
                           ELSE Bdd(a.fn \cap b.fn)
                 stored == [map EXCEPT ![GateVar(i)] = result]
             IN  /\ buildGuard' = g3
                 /\ uses' = after
                 /\ map' = Release(stored, uses, after)
                 /\ retained' = retained + (IF result.ok THEN 1 ELSE 0)
                                  - Dropped(stored, uses, after)
                 /\ ok' = result.ok
                 /\ buildPc' = IF result.ok THEN "build" ELSE "finish"
  /\ i' = i + 1
  /\ UNCHANGED <<circuit, hostFailed, published, roots>>

AllBuilt ==
  /\ buildPc = "build" /\ i > NumGates
  /\ buildPc' = "publish"
  /\ UNCHANGED <<circuit, buildGuard, ok, hostFailed, map, uses, i, retained,
                 published, roots>>

\* Take the next root into the publication buffer.
PublishRoot ==
  /\ buildPc = "publish" /\ ok /\ Len(published) < Len(circuit.lits)
  /\ LET lit == circuit.lits[Len(published) + 1]
         after == Consumed(uses, lit)
     IN  \E g \in LiteralGuards(buildGuard, lit) :
           /\ buildGuard' = g
           /\ published' = Append(published, LiteralValue(g, lit))
           /\ ok' = LiteralValue(g, lit).ok
           /\ uses' = after
           /\ map' = Release(map, uses, after)
           /\ retained' = retained - Dropped(map, uses, after)
  /\ UNCHANGED <<buildPc, circuit, hostFailed, i, roots>>

\* The roots reach the caller all together or not at all.
Finish ==
  /\ \/ buildPc = "publish" /\ (~ok \/ Len(published) = Len(circuit.lits))
     \/ buildPc = "finish"
  /\ roots' = IF ok THEN published ELSE roots
  /\ published' = << >>
  /\ buildPc' = "done"
  /\ UNCHANGED <<circuit, buildGuard, ok, hostFailed, map, uses, i, retained>>

BuildNext ==
  \/ Allocate \/ AllocateFails \/ CountRoots \/ CountGate \/ ReleaseUnused
  \/ SkipGate \/ BuildGate \/ AllBuilt \/ PublishRoot \/ Finish

BuildSpec == BuildInit /\ [][BuildNext]_buildVars

-----------------------------------------------------------------------------
Bdds == [ok : BOOLEAN, fn : SUBSET Assignments]

BuildTypeOK ==
  /\ buildPc \in {"allocate", "roots", "count", "build", "publish", "finish", "done"}
  /\ circuit \in Circuits
  /\ buildGuard \in Guarded!Guards
  /\ ok \in BOOLEAN /\ hostFailed \in BOOLEAN
  /\ map \in [Vars -> Bdds]
  /\ uses \in [Vars -> Nat]
  /\ i \in Nat /\ retained \in Nat
  /\ published \in Seq(Bdds)
  /\ roots \in [1..Len(circuit.lits) -> Bdds]

\* The consumers of v still to come: gates from i on that will be built, and
\* roots not yet published.
PendingUses(v) ==
  Cardinality({p \in (i..NumGates) \X {1, 2} :
                 ToBuild(p[1]) /\ Var(Fanin(p[1])[p[2]]) = v})
  + Cardinality({r \in (Len(published) + 1)..Len(circuit.lits) :
                   Var(circuit.lits[r]) = v})

\* While gates are built and roots published, the use count of every variable
\* is exactly the number of reads still to come, duplicates and complements
\* counted, the cones of seeded gates not.
UsesExact ==
  buildPc \in {"build", "publish"} => \A v \in Vars : uses[v] = PendingUses(v)

\* No early release: as long as nothing failed, whatever is still to be read is
\* in the map, and nothing else is; and the code's count of the references it
\* holds is right, failed or not.
HeldWhileNeeded ==
  /\ buildPc \in {"build", "publish"} /\ ~buildGuard.failed =>
       \A v \in Vars :
         map[v].ok <=> /\ uses[v] > 0
                       /\ v < GateVar(i) \/ v \in circuit.seeded
  /\ buildPc \in {"build", "publish", "finish"} => retained = Held(map)

\* What the use counts of oxidd_build_roots are for: an operand is there until
\* its last reader has read it and no longer, however often a literal repeats,
\* whatever the caller seeded and whichever operation fails.
OperandsHeld == BuildTypeOK /\ UsesExact /\ HeldWhileNeeded

\* Every handle in the map denotes its variable's function, also when an
\* operation failed and constant shortcuts hid it.  Root publication is
\* transactional: the caller gets the roots of the literals it asked for and
\* nothing is left in the map, or its roots are untouched (oxidd_common.h).
HandlesCorrect ==
  /\ \A v \in Vars : map[v].ok => map[v].fn = Denotation[2 * v]
  /\ buildPc = "done" /\ ok =>
       /\ \A r \in DOMAIN roots :
            roots[r] = Bdd(Denotation[circuit.lits[r]])
       /\ retained = 0 /\ \A v \in Vars : ~map[v].ok
  /\ buildPc = "done" /\ ~ok => \A r \in DOMAIN roots : roots[r] = Invalid
=============================================================================
