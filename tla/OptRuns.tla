------------------------------ MODULE OptRuns ------------------------------
(***************************************************************************)
(* What the module of an opt pipeline does when it is run, before and      *)
(* after the passes of Opt.                                                *)
(***************************************************************************)
EXTENDS Values

CONSTANT Inputs       \* the arguments of main that results are compared for

(* The calls of external functions and how often each function is entered.  *)

\* A world: the events so far, the counters, and how often f was entered.
RECURSIVE Call(_, _, _, _)
Call(prog, f, args, world) ==
  LET value(run, v) == CASE v[1] = "arg" -> args[v[2]]
                         [] v[1] \in {"const", "name"} -> v[2]
                         [] OTHER -> run.env[v]
      bind(run, inst, v) == [run EXCEPT !.env = (inst.id :> v) @@ @]
      step(run, inst) ==
        LET v == [k \in DOMAIN inst.args |-> value(run, inst.args[k])]
        IN CASE inst.op = "call" /\ inst.sym \in DOMAIN prog ->
                  LET r == CHOOSE x \in {Call(prog, inst.sym, v, run.world)} : TRUE
                  IN bind([run EXCEPT !.world = r.world], inst, r.value)
             [] inst.op = "call" /\ inst.sym \notin DOMAIN prog ->
                  [run EXCEPT !.world.out = Append(@, <<inst.sym, v>>)]
             [] inst.op = "load" -> bind(run, inst, run.world.mem[inst.sym])
             [] inst.op = "store" -> [run EXCEPT !.world.mem[inst.sym] = v[1]]
             [] inst.op = "ret" -> [run EXCEPT !.value = IF v = <<>> THEN 0 ELSE v[1]]
             [] OTHER -> bind(run, inst, Compute(inst, v))
      last == FoldLeft(step, [env |-> <<>>, value |-> 0,
                              world |-> [world EXCEPT !.entered[f] = @ + 1]],
                       prog[f][1])
  IN [world |-> last.world, value |-> last.value]

Execution(prog, destructors, input) ==
  LET names0 == DOMAIN prog \cup {""}
      start == [out |-> <<>>, mem |-> [f \in names0 |-> 0],
                entered |-> [f \in DOMAIN prog |-> 0]]
  IN FoldLeft(LAMBDA w, k : Call(prog, Wrapper, <<>>, w).world,
              Call(prog, "main", input, start).world, [k \in 1 .. destructors |-> k])

Then(input) == Execution([f \in DOMAIN Source |-> Source[f].blocks], 0, input)
Now(input) == Execution(code, dtors, input)
\* Which functions are entered does not depend on the input: no branches.
AnyInput == CHOOSE input \in Inputs : TRUE
Events(world, what) == SelectSeq(world.out, LAMBDA e : e[1] = what)
Times(p) == Len(SelectSeq(passes, LAMBDA q : q = p))
HowOften(s, e) == Len(SelectSeq(s, LAMBDA x : x = e))

-----------------------------------------------------------------------------
(* Properties.                                                             *)

\* Whatever passes ran in whatever order, instrumentation between them
\* included, the integers that the program computes are the source's.
ResultsKept ==
  broken \/ \A input \in Inputs :
    Events(Now(input), "observe") = Events(Then(input), "observe")

\* Equality comparisons keep their outcome for operands that are equal or at
\* least epsilon apart, NaN included; only oeq and une of equal infinities do
\* not, whose difference is NaN.  oeq stays the negation of une and ueq of one.
ComparisonsKept ==
  broken \/ \A input \in Inputs :
    \E now \in {Events(Now(input), "compare")[1][2]} :
    \E was \in {Events(Then(input), "compare")[1][2]} :
      LET x == now[1] y == now[2]
          far == FarApart(x, y)
      IN /\ now[3] = 1 - now[6] /\ now[4] = 1 - now[5]
         /\ x = y \/ far => now[4] = was[4] /\ now[5] = was[5] /\ now[7] = was[7]
         /\ ~(IsInf(x) /\ x = y) /\ (x = y \/ far) => now[3] = was[3] /\ now[6] = was[6]

\* A pipeline with one dynamic-call-counter and no injectfunccall is not
\* stopped, and prints for every function how often it was entered.
CountsRight ==
  Times("dynamic-call-counter") = 1 /\ Times("injectfunccall") = 0
    => /\ ~broken
       /\ \E input \in {AnyInput} : \E now \in {Now(input)} :
            /\ Len(Events(now, "printf")) = Len(Order)
            /\ \A f \in DOMAIN Source :
                 HowOften(now.out, <<"printf", <<f, Then(input).entered[f]>>>>) = 1

\* Without dynamic-call-counter, every entry of a function says hello with
\* the number of its arguments, once for each injectfunccall.
HellosRight ==
  Times("dynamic-call-counter") = 0
    => /\ ~broken
       /\ \E input \in {AnyInput} : \E now \in {Now(input)} : \A f \in DOMAIN Source :
            HowOften(now.out, <<"printf", <<f, Source[f].args>>>>)
              = Times("injectfunccall") * Then(input).entered[f]

\* Instrumentation prints what happens, as long as the passes do not spoil
\* each other's format.
InstrumentationRight == CountsRight /\ HellosRight
=============================================================================
