----------------------------- MODULE RewriteRun -----------------------------
(***************************************************************************)
(* apply_rewrites as tlsf2ltl calls it: NNF when asked for, then bottom-up *)
(* passes of the requested rules until a pass changes nothing or the cap   *)
(* is reached.                                                             *)
(***************************************************************************)
EXTENDS Rewrite

CONSTANTS Roots,        \* the formulas it is called on
          FlagSets,     \* the requested rules
          RewriteWordsOf(_)   \* the words of a semantics: finite or infinite

VARIABLES source,       \* the formula passed in
          flags, finite,
          root,         \* the current formula
          passes,       \* completed passes
          rewritePc

rewriteVars == <<source, flags, finite, root, passes, rewritePc>>

RewriteCalled(f, rules, onFinite) ==
    /\ source = f /\ flags = rules /\ finite = onFinite
    /\ root = source
    /\ passes = 0
    /\ rewritePc = "nnf"

RewriteInit == \E f \in Roots, rules \in FlagSets, onFinite \in BOOLEAN :
                 RewriteCalled(f, rules, onFinite)

Nnf ==
    /\ rewritePc = "nnf"
    /\ root' = IF "nnf" \in flags THEN ToNnf(root, TRUE, finite) ELSE root
    /\ rewritePc' = IF flags \ {"nnf"} = {} THEN "stable" ELSE "pass"
    /\ UNCHANGED <<source, flags, finite, passes>>

Local == (flags \ {"nnf"}) \cup IF finite THEN {"finite"} ELSE {}

Pass ==
    /\ rewritePc = "pass"
    /\ LET next == RwPass(root, Local)
       IN  /\ root' = next
           /\ passes' = passes + 1
           /\ rewritePc' = CASE next = root -> "stable"
                      [] next # root /\ passes + 1 = RwCap -> "capped"
                      [] OTHER -> "pass"
    /\ UNCHANGED <<source, flags, finite>>

RewriteNext == Nnf \/ Pass

RewriteSpec == RewriteInit /\ [][RewriteNext]_rewriteVars

-----------------------------------------------------------------------------
\* After every pass, whatever combination of rules is requested, the formula
\* holds at the same positions of every word as the one passed in, on finite
\* words when finite semantics was asked for.
RewriteEquivalent ==
    rewritePc # "nnf" => \A w \in RewriteWordsOf(finite) : Sat(root, w) = Sat(source, w)
=============================================================================
