------------------------------ MODULE TlsfNorm ------------------------------
(***************************************************************************)
(* tools/tlsfnorm: one run of the normalisation tool over a specification. *)
(* Schedules are parsed, the specification is validated, the soundness     *)
(* gate decides, the pre-expansion passes run on the high-level formulas,  *)
(* the specification is expanded, and the other passes run on plain LTL.   *)
(* The six sections are treated alike; formulas is one of them.            *)
(***************************************************************************)
EXTENDS Normalize, Expand

CONSTANTS Jobs,         \* the calls: spec, written (it is written for finite
                        \* words), finite (after --overwrite-semantics),
                        \* soundness, pre, post, normalize, opts
          WordsOf(_)    \* the words of a semantics: finite or infinite

VARIABLES job,          \* the command line and the specification read
          formulas,     \* the section
          pre, post,    \* the schedules, as far as they are not yet applied
          pc,
          meant         \* the words the section accepted when it was read

vars == <<job, formulas, pre, post, pc, meant>>

Env0 == [x \in {job.spec.params[k].name : k \in DOMAIN job.spec.params} |->
           (CHOOSE p \in Range(job.spec.params) : p.name = x).value]

Expanded(fs) == [k \in DOMAIN fs |-> NodeOf(job.spec, fs[k], Env0, 0)]

Language(fs) == {w \in WordsOf(job.finite) : Accepts(fs, w)}

NormCalled(j) ==
    /\ job = j
    /\ formulas = job.spec.formulas
    /\ pre = <<>> /\ post = <<>>
    /\ pc = "schedules"
    /\ meant = {}

Init == \E j \in Jobs : NormCalled(j)

\* tlsf_norm_parse_schedule for --pre-passes, --passes and --normalize; split
\* is the default, and --normalize is appended to the other passes.
Tokens == IF job.pre = <<>> /\ job.post = <<>> /\ job.normalize = <<>>
          THEN <<[name |-> "split", iter |-> 0]>>
          ELSE job.post \o job.normalize

ParseSchedules ==
    /\ pc = "schedules"
    /\ IF \A t \in Range(job.pre \o Tokens) : KnownToken(t.name)
       THEN /\ pre' = ParseSchedule(job.pre)
            /\ post' = ParseSchedule(Tokens)
            /\ pc' = "parse"
       ELSE pc' = "exit1" /\ UNCHANGED <<pre, post>>
    /\ UNCHANGED <<job, formulas, meant>>

\* The parser refuses strong operators in a specification written for infinite
\* words; the semantics can be overwritten afterwards.
RECURSIVE Strong(_)
Strong(n) == \/ Kind(n) = "X!"
             \/ Kind(n) \in {"next", "Grange", "Frange"} /\ n[2]
             \/ \E k \in ChildrenAt(n) : Strong(n[k])

Parse ==
    /\ pc = "parse"
    /\ pc' = IF ~job.written /\ \E k \in DOMAIN formulas : Strong(formulas[k])
             THEN "exit1" ELSE "validate"
    /\ UNCHANGED <<job, formulas, pre, post, meant>>

\* node_has_strong_next.
RECURSIVE HasStrongNext(_)
HasStrongNext(n) ==
    \/ Kind(n) = "X!"
    \/ Kind(n) \in {"Grange", "Frange"} /\ n[2]
    \/ \E k \in ChildrenAt(n) : HasStrongNext(n[k])

\* spec_validate_semantics.
Validate ==
    /\ pc = "validate"
    /\ pc' = IF \/ job.finite
                \/ /\ \A k \in DOMAIN job.spec.defs : ~HasStrongNext(job.spec.defs[k].body)
                   /\ \A k \in DOMAIN formulas : ~HasStrongNext(formulas[k])
             THEN "gate" ELSE "exit1"
    /\ UNCHANGED <<job, formulas, pre, post, meant>>

\* The soundness gate; --norm-soundness off skips it.
Gate ==
    /\ pc = "gate"
    /\ pc' = IF job.soundness = "off" \/
                (ScheduleCheck(pre, job.finite, "pre_expand") /\
                 ScheduleCheck(post, job.finite, "visible"))
             THEN "pre" ELSE "exit1"
    /\ meant' = IF Fail \in Range(Expanded(formulas)) THEN {} ELSE Language(Expanded(formulas))
    /\ UNCHANGED <<job, formulas, pre, post>>

Normalized(fs, item) ==
    [k \in DOMAIN fs |-> NormalizeFormula(fs[k], item,
                           [job.opts EXCEPT !.finite = job.finite])]

\* One pass of --pre-passes over the section.
PrePass ==
    /\ pc = "pre" /\ pre # <<>>
    /\ formulas' = IF pre[1].pass = "pre-spine-split"
                   THEN FlattenSeq([k \in DOMAIN formulas |-> PreSpine(formulas[k])])
                   ELSE Normalized(formulas, pre[1])
    /\ pre' = Tail(pre)
    /\ UNCHANGED <<job, post, pc, meant>>

\* expand(), modelled in ExpandRun.
ExpandSpec ==
    /\ pc = "pre" /\ pre = <<>>
    /\ LET fs == Expanded(formulas)
       IN  IF Fail \in Range(fs) THEN pc' = "exit1" /\ UNCHANGED formulas
           ELSE pc' = "post" /\ formulas' = fs
    /\ UNCHANGED <<job, pre, post, meant>>

\* apply_post: one pass over the section.
ApplyPost ==
    /\ pc = "post" /\ post # <<>>
    /\ formulas' = IF post[1].pass = "split"
                   THEN FlattenSeq([k \in DOMAIN formulas |-> Decompose(formulas[k])])
                   ELSE Normalized(formulas, post[1])
    /\ post' = Tail(post)
    /\ UNCHANGED <<job, pre, pc, meant>>

\* print_tlsf.
Emit ==
    /\ pc = "post" /\ post = <<>>
    /\ pc' = "exit0"
    /\ UNCHANGED <<job, formulas, pre, post, meant>>

Next == ParseSchedules \/ Parse \/ Validate \/ Gate \/ PrePass \/ ExpandSpec \/ ApplyPost \/ Emit

Spec == Init /\ [][Next]_vars

-----------------------------------------------------------------------------
\* Whatever passes were asked for and in whatever order, as long as the gate is
\* on, a specification the tool prints accepts the words it accepted when it
\* was read (and could have been expanded then): finite words for a
\* finite-word specification, infinite ones otherwise.  The caps, the early
\* stops and the list-level splits in between change nothing about that.
SectionEquivalent ==
    /\ pc = "exit0" /\ job.soundness # "off"
    /\ Fail \notin Range(Expanded(job.spec.formulas))
    => Language(formulas) = meant
=============================================================================
