------------------------------- MODULE MCLift -------------------------------
(***************************************************************************)
(* Buses of a few stations as families of a lift: requests r and grants g  *)
(* of every station, an obligation of each station, one of each pair of    *)
(* stations and one of the whole bus.                                      *)
(***************************************************************************)
EXTENDS LiftRoute

Ref(d, i) == [decl |-> d, index |-> <<i>>, role |-> "element"]

Decls(n) ==
    {[id |-> d, dir |-> "signal", dims |-> 1, role |-> "element", width |-> 1, index |-> <<i>>,
      complete |-> TRUE, by |-> {"n"}] :
        d \in {"r", "g"}, i \in 0..(n - 1)}
    \cup {[id |-> "busy", dir |-> "output", dims |-> 0, role |-> "scalar", width |-> 1, index |-> <<>>,
            complete |-> TRUE, by |-> {}]}

Conjunct(fid, is, refs) ==
    [fid |-> fid, nid |-> "body", binders |-> Len(is), bindings |-> is, refs |-> refs]

Monitor(fid, cls, is, refs, wide, sig) ==
    [fid |-> fid, nid |-> "body", side |-> "system", role |-> "goal", cls |-> cls, states |-> 2,
     template |-> fid, wide |-> wide, index |-> is, refs |-> refs, sig |-> sig]

\* pairs: the pairs of stations that exclude each other; sig: the signature of
\* the obligation of the whole bus.
Bus(n, pairs, sig) ==
    [decls |-> Decls(n),
     conjuncts |-> {Conjunct("serve", <<i>>, {Ref("r", i), Ref("g", i)}) : i \in 0..(n - 1)}
                   \cup {Conjunct("exclude", p, {Ref("g", p[1]), Ref("g", p[2])}) : p \in pairs}
                   \cup {Conjunct("bus", <<>>, {Ref("g", i) : i \in 0..(n - 1)})},
     monitors |-> {Monitor("serve", "recurrence", <<i>>, {Ref("r", i), Ref("g", i)}, FALSE, <<>>) :
                       i \in 0..(n - 1)}
                  \cup {Monitor("exclude", "safety", p, {Ref("g", p[1]), Ref("g", p[2])}, FALSE, <<>>) :
                          p \in pairs}
                  \cup {Monitor("bus", "safety", <<>>, {Ref("g", i) : i \in 0..(n - 1)}, TRUE, sig)},
     encoding |-> "binary",
     params |-> {"m", "n"}]

Stations(n) == (0..(n - 1)) \X (0..(n - 1))
Both(n) == {p \in Stations(n) : p[1] # p[2]}
Upper(n) == {p \in Stations(n) : p[1] < p[2]}

\* At most one grant; not all grants.
Few == [d \in {"g"} |-> {0, 1}]
NotAll(n) == [d \in {"g"} |-> 0..(n - 1)]

Full(n) == Bus(n, Both(n), <<Few>>)
Half(n) == Bus(n, Upper(n), <<NotAll(n)>>)
Bare(n) == Bus(n, Both(n), <<>>)
Untyped(n) ==
    [Full(n) EXCEPT !.decls = {[r EXCEPT !.complete = r.role # "element"] : r \in Full(n).decls}]
Unnamed(n) == [Full(n) EXCEPT !.params = {"m"}]
Foreign(n) == [Full(n) EXCEPT !.decls = {[r EXCEPT !.by = {"m"}] : r \in Full(n).decls}]

Axis(v, Of(_)) == [name |-> "n", value |-> v, probes |-> [k \in 1..(v - 1) |-> Of(k)]]
Family(v, Of(_)) == [target |-> Of(v), axes |-> <<Axis(v, Of)>>]

\* One size fails to reduce.
Broken(v, at, f) ==
    [target |-> Full(v),
     axes |-> <<[name |-> "n", value |-> v, probes |-> [k \in 1..(v - 1) |-> IF k = at THEN f ELSE Full(k)]]>>]

\* The first parameter changes no signal.
Second(v) ==
    [target |-> Full(v), axes |-> <<[Axis(2, LAMBDA k : Full(v)) EXCEPT !.name = "m"], Axis(v, Full)>>]

Plain == [target |-> Full(2), axes |-> <<>>]

Opts == [sizes |-> 5, arity |-> 2, probes |-> 8, confirm |-> TRUE, noReal |-> FALSE, noEnv |-> FALSE]

FamiliesValue ==
    <<Family(6, Full), Family(4, Full), Family(6, Half), Family(6, Untyped), Family(4, Bare),
      Second(4), Broken(4, 3, Decline("error", "reduce_error")),
      Broken(6, 4, Decline("applicability", "reduce")), Broken(4, 2, Limit("reduce")),
      Broken(6, 4, Decline("error", "reduce_error")), Plain,
      Family(6, Unnamed), Family(6, Foreign)>>

Job(call, fam) ==
    [call |-> call, order |-> "region", exact |-> FALSE, deadline |-> TRUE, noReal |-> FALSE,
     noEnv |-> FALSE, stats |-> FALSE, calls |-> 1, side |-> "system", fam |-> fam, opts |-> Opts]

JobsValue ==
    {Job("both", f) : f \in {1, 2}}
    \cup {[Job("both", f) EXCEPT !.deadline = FALSE, !.side = "environment"] :
            f \in (3..9) \cup {12}}
    \cup {[Job("both", 1) EXCEPT !.noReal = TRUE, !.side = "environment"],
          [Job("both", 2) EXCEPT !.noReal = TRUE, !.noEnv = TRUE],
          [Job("both", 11) EXCEPT !.exact = TRUE],
          [Job("both", 2) EXCEPT !.stats = TRUE, !.calls = 2, !.deadline = FALSE]}
    \cup {[Job("lift", 2) EXCEPT !.order = o, !.calls = 2] : o \in {"region", "policy"}}
    \cup {[Job("lift", f) EXCEPT !.deadline = FALSE] : f \in {5, 6, 7, 11}}
    \cup {[Job("lift", 6) EXCEPT !.opts.probes = 1, !.deadline = FALSE]}
    \cup {[Job("env", f) EXCEPT !.deadline = f = 1, !.side = "environment"] : f \in {1, 2, 4, 10, 12, 13}}
    \cup {[Job("env", 3) EXCEPT !.deadline = FALSE]}

=============================================================================
