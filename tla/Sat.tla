-------------------------------- MODULE Sat --------------------------------
(***************************************************************************)
(* The CDCL solver of libs/symbolic/src/sat/mod.rs: clauses are added,     *)
(* then solve propagates over two watched literals a clause, learns from   *)
(* each conflict a clause with one literal of the current level, jumps     *)
(* back to where that clause is unit, restarts and answers.                *)
(*                                                                         *)
(* A literal is a variable or its negation, as the number negated.  The    *)
(* value of a variable and the level it was assigned at are read off the   *)
(* trail, which every write of `assign` and `level` keeps in step.  The    *)
(* activities only order the heap, so any queued variable may be on top.   *)
(***************************************************************************)
EXTENDS Integers, Sequences, SequencesExt, FiniteSetsExt

CONSTANTS
  Vars,            \* 1..n, the variables that may be made
  Pool,            \* the clauses a caller may add, in this order
  MaxAdded,        \* bound: how many of them it adds
  RestartUnit,     \* conflicts per unit of the Luby sequence, 100 in the code
  Budgets          \* conflict budgets a caller may give; 0 is none

VARIABLES
  solver,          \* the fields of Solver: see New
  pc,              \* "idle", "propagate", or "conflict" at clause `confl`
  confl,
  answer,          \* of the last solve: "none", "sat", "unsat" or "unknown"
  conflicts, restarts, limit, budget,
  offered, added   \* how far the caller is in the pool, and what it added

vars == <<solver, pc, confl, answer, conflicts, restarts, limit, budget, offered, added>>

Lits == Vars \cup {-v : v \in Vars}
Var(lit) == IF lit < 0 THEN -lit ELSE lit

Swapped(seq, i, j) == [seq EXCEPT ![i] = seq[j], ![j] = seq[i]]

\* A solver without variables: `made` is how many it has, `order` those it has queued,
\* `reason` the clause that forced a variable, or 0, `phase` its last polarity.
New ==
  [made |-> 0, order |-> {}, clauses |-> <<>>, watches |-> [lit \in Lits |-> <<>>],
   reason |-> [v \in Vars |-> 0], phase |-> [v \in Vars |-> FALSE],
   trail |-> <<>>, qhead |-> 0, trailLim |-> <<>>, unsat |-> FALSE]

DecisionLevel == Len(solver.trailLim)

\* What value_lit says of a literal in solver `s`.
IsTrue(s, lit) == Contains(s.trail, lit)
IsFalse(s, lit) == Contains(s.trail, -lit)

\* Where on the trail a variable was assigned, and at which level.
PlaceOf(v) == CHOOSE i \in DOMAIN solver.trail : Var(solver.trail[i]) = v
LevelOf(v) == Cardinality({d \in DOMAIN solver.trailLim : solver.trailLim[d] < PlaceOf(v)})

\* enqueue of a literal whose variable is unassigned.
Enqueue(s, lit, cref) == [s EXCEPT !.trail = Append(@, lit), !.reason[Var(lit)] = cref]

\* add_watched_clause
Watch(s, lits) ==
  LET cref == Len(s.clauses) + 1
  IN  [s EXCEPT !.clauses = Append(@, lits),
                !.watches = [@ EXCEPT ![lits[1]] = Append(@, cref), ![lits[2]] = Append(@, cref)]]

\* Mutant: a variable unassigned by a backjump is not queued again.
CancelUntilUnqueued(s, level) ==
  LET kept == SubSeq(s.trail, 1, s.trailLim[level + 1])
      popped == {s.trail[i] : i \in (Len(kept) + 1)..Len(s.trail)}
      Gone(v) == {v, -v} \cap popped # {}
  IN  IF Len(s.trailLim) <= level THEN s
      ELSE [s EXCEPT !.trail = kept, !.qhead = Len(kept), !.trailLim = SubSeq(@, 1, level),
                     !.phase = [v \in Vars |-> IF Gone(v) THEN v \in popped ELSE @[v]],
                     !.reason = [v \in Vars |-> IF Gone(v) THEN 0 ELSE @[v]]]

\* cancel_until
CancelUntil(s, level) ==
  LET kept == SubSeq(s.trail, 1, s.trailLim[level + 1])
      popped == {s.trail[i] : i \in (Len(kept) + 1)..Len(s.trail)}
      Gone(v) == {v, -v} \cap popped # {}
  IN  IF Len(s.trailLim) <= level THEN s
      ELSE [s EXCEPT !.trail = kept, !.qhead = Len(kept), !.trailLim = SubSeq(@, 1, level),
                     !.phase = [v \in Vars |-> IF Gone(v) THEN v \in popped ELSE @[v]],
                     !.reason = [v \in Vars |-> IF Gone(v) THEN 0 ELSE @[v]],
                     !.order = @ \cup {Var(lit) : lit \in popped}]

Init ==
  /\ solver = New
  /\ pc = "idle" /\ confl = 0
  /\ answer = "none"
  /\ conflicts = 0 /\ restarts = 0 /\ limit = 0 /\ budget = 0
  /\ offered = 0 /\ added = {}

------------------------------------------------------------------------------
\* Building

NewVar ==
  LET v == solver.made + 1
  IN  /\ pc = "idle" /\ answer = "none"
      /\ v \in Vars
      /\ solver' = [solver EXCEPT !.made = v, !.order = @ \cup {v}]
      /\ UNCHANGED <<pc, confl, answer, conflicts, restarts, limit, budget, offered, added>>

\* The solver after add_clause.
AddClause(s, lits) ==
  LET cl == FoldLeft(LAMBDA c, lit : IF Contains(c, lit) THEN c ELSE Append(c, lit), <<>>, lits)
      tautology == \E lit \in Range(cl) : -lit \in Range(cl)
  IN  IF s.unsat \/ tautology THEN s
      ELSE IF Len(cl) = 0 \/ (Len(cl) = 1 /\ IsFalse(s, cl[1])) THEN [s EXCEPT !.unsat = TRUE]
      ELSE IF Len(cl) = 1 THEN (IF IsTrue(s, cl[1]) THEN s ELSE Enqueue(s, cl[1], 0))
      ELSE Watch(s, cl)

\* A caller that adds a clause of the pool, over variables it made, or passes it over.
Offer ==
  LET given == Pool[offered + 1]
  IN  /\ pc = "idle" /\ answer = "none"
      /\ offered < Len(Pool)
      /\ offered' = offered + 1
      /\ \/ /\ Cardinality(added) < MaxAdded
            /\ \A lit \in Range(given) : Var(lit) <= solver.made
            /\ solver' = AddClause(solver, given)
            /\ added' = added \cup {Range(given)}
         \/ UNCHANGED <<solver, added>>
      /\ UNCHANGED <<pc, confl, answer, conflicts, restarts, limit, budget>>

------------------------------------------------------------------------------
\* Solving

\* luby, from term 0: the term that ends a block of 2^n - 1 is 2^(n - 1), and the others
\* repeat the block before.
Luby[x \in Nat] ==
  LET n == CHOOSE k \in 1..(x + 1) : 2 ^ k > x + 1 /\ 2 ^ (k - 1) <= x + 1
  IN  IF 2 ^ n = x + 2 THEN 2 ^ (n - 1) ELSE Luby[x - (2 ^ (n - 1) - 1)]

\* solve_with_budget, up to its loop.
Solve(max) ==
  /\ pc = "idle" /\ answer \in {"none", "unknown"}
  /\ pc' = IF solver.unsat THEN "idle" ELSE "propagate"
  /\ answer' = IF solver.unsat THEN "unsat" ELSE "none"
  /\ conflicts' = 0 /\ restarts' = 0
  /\ limit' = Luby[0] * RestartUnit
  /\ budget' = max
  /\ UNCHANGED <<solver, confl, offered, added>>

\* Mutant: after a conflict the rest of the clauses is forgotten.
VisitDropsRest(step, falsified, cref) ==
  LET s == step.solver
      lits == IF s.clauses[cref][1] = falsified
              THEN Swapped(s.clauses[cref], 1, 2) ELSE s.clauses[cref]
      other == lits[1]
      free == {k \in 3..Len(lits) : ~IsFalse(s, lits[k])}
      kept == [step EXCEPT !.solver.clauses[cref] = lits, !.kept = Append(@, cref)]
  IN  IF step.conflict # 0 THEN step
      ELSE IF IsTrue(s, other) THEN kept
      ELSE IF free # {}
      THEN [step EXCEPT !.solver.clauses[cref] = Swapped(lits, 2, Min(free)),
                        !.solver.watches[lits[Min(free)]] = Append(@, cref)]
      ELSE IF IsFalse(s, other) THEN [kept EXCEPT !.conflict = cref]
      ELSE [kept EXCEPT !.solver = Enqueue(@, other, cref)]

\* Mutant: a clause found unit is left as it was, the falsified literal first or second.
VisitUnswapped(step, falsified, cref) ==
  LET s == step.solver
      lits == IF s.clauses[cref][1] = falsified
              THEN Swapped(s.clauses[cref], 1, 2) ELSE s.clauses[cref]
      other == lits[1]
      free == {k \in 3..Len(lits) : ~IsFalse(s, lits[k])}
      kept == [step EXCEPT !.kept = Append(@, cref)]
  IN  IF step.conflict # 0 THEN kept
      ELSE IF IsTrue(s, other) THEN kept
      ELSE IF free # {}
      THEN [step EXCEPT !.solver.clauses[cref] = Swapped(lits, 2, Min(free)),
                        !.solver.watches[lits[Min(free)]] = Append(@, cref)]
      ELSE IF IsFalse(s, other) THEN [kept EXCEPT !.conflict = cref]
      ELSE [kept EXCEPT !.solver = Enqueue(@, other, cref)]

\* What propagate does with one clause that watches a literal now false.  `step` is the
\* solver, the clauses that go on watching the literal, and the one in conflict, or 0.
Visit(step, falsified, cref) ==
  LET s == step.solver
      lits == IF s.clauses[cref][1] = falsified
              THEN Swapped(s.clauses[cref], 1, 2) ELSE s.clauses[cref]
      other == lits[1]
      free == {k \in 3..Len(lits) : ~IsFalse(s, lits[k])}
      kept == [step EXCEPT !.solver.clauses[cref] = lits, !.kept = Append(@, cref)]
  IN  IF step.conflict # 0 THEN [step EXCEPT !.kept = Append(@, cref)]
      ELSE IF IsTrue(s, other) THEN kept
      ELSE IF free # {}
      THEN [step EXCEPT !.solver.clauses[cref] = Swapped(lits, 2, Min(free)),
                        !.solver.watches[lits[Min(free)]] = Append(@, cref)]
      ELSE IF IsFalse(s, other) THEN [kept EXCEPT !.conflict = cref]
      ELSE [kept EXCEPT !.solver = Enqueue(@, other, cref)]

\* One turn of propagate's outer loop.
Propagate ==
  LET falsified == -solver.trail[solver.qhead + 1]
      done == FoldLeft(LAMBDA step, cref : Visit(step, falsified, cref),
                       [solver |-> [solver EXCEPT !.watches[falsified] = <<>>],
                        kept |-> <<>>, conflict |-> 0],
                       solver.watches[falsified])
  IN  /\ pc = "propagate"
      /\ solver.qhead < Len(solver.trail)
      /\ solver' = [done.solver EXCEPT
                      !.watches[falsified] = done.kept,
                      !.qhead = IF done.conflict = 0 THEN @ + 1 ELSE Len(done.solver.trail)]
      /\ confl' = done.conflict
      /\ pc' = IF done.conflict = 0 THEN "propagate" ELSE "conflict"
      /\ UNCHANGED <<answer, conflicts, restarts, limit, budget, offered, added>>

Unassigned == {v \in solver.order : ~IsTrue(solver, v) /\ ~IsFalse(solver, v)}

\* pick_branch finds a variable: those ahead of it on the heap are assigned, and go.
Decide ==
  /\ pc = "propagate"
  /\ solver.qhead = Len(solver.trail)
  /\ \E v \in Unassigned, ahead \in SUBSET (solver.order \ Unassigned) :
       solver' = [Enqueue(solver, IF solver.phase[v] THEN v ELSE -v, 0) EXCEPT
                    !.order = @ \ ({v} \cup ahead),
                    !.trailLim = Append(@, Len(solver.trail))]
  /\ UNCHANGED <<pc, confl, answer, conflicts, restarts, limit, budget, offered, added>>

\* pick_branch finds none.
AnswerSat ==
  /\ pc = "propagate"
  /\ solver.qhead = Len(solver.trail)
  /\ Unassigned = {}
  /\ solver' = [solver EXCEPT !.order = {}]
  /\ answer' = "sat"
  /\ pc' = "idle"
  /\ UNCHANGED <<confl, conflicts, restarts, limit, budget, offered, added>>

\* What analyze does with a clause it resolves on: a literal of the current level is one
\* more path to resolve, one of a lower level is learnt.
Mark(work, lits) ==
  FoldLeft(LAMBDA w, q :
             IF Var(q) \in w.seen \/ LevelOf(Var(q)) = 0 THEN w
             ELSE IF LevelOf(Var(q)) = DecisionLevel
             THEN [w EXCEPT !.seen = @ \cup {Var(q)}, !.paths = @ + 1]
             ELSE [w EXCEPT !.seen = @ \cup {Var(q)}, !.learnt = Append(@, q)],
           work, lits)

\* One literal of the trail, from its end: resolved on if it was seen and other paths
\* are left, else the asserting literal.
Resolve(work, lit) ==
  LET left == [work EXCEPT !.seen = @ \ {Var(lit)}, !.paths = @ - 1]
  IN  IF work.uip # 0 \/ Var(lit) \notin work.seen THEN work
      ELSE IF left.paths = 0 THEN [left EXCEPT !.uip = lit]
      ELSE Mark(left, Tail(solver.clauses[solver.reason[Var(lit)]]))

\* analyze: the learnt clause, with a literal of the highest level second.
Analyze ==
  LET found == FoldLeft(Resolve,
                        Mark([seen |-> {}, paths |-> 0, learnt |-> <<>>, uip |-> 0],
                             solver.clauses[confl]),
                        Reverse(solver.trail))
      learnt == <<-found.uip>> \o found.learnt
      highest == {i \in 2..Len(learnt) :
                    \A j \in 2..Len(learnt) : LevelOf(Var(learnt[j])) <= LevelOf(Var(learnt[i]))}
  IN  IF Len(learnt) = 1 THEN learnt ELSE Swapped(learnt, 2, Min(highest))

BacktrackLevel(learnt) == IF Len(learnt) = 1 THEN 0 ELSE LevelOf(Var(learnt[2]))

\* Mutant: what was learnt is not asserted.
LearntOnly(s, learnt) ==
  IF Len(learnt) = 1 THEN Enqueue(s, learnt[1], 0) ELSE Watch(s, learnt)

\* learn
Learnt(s, learnt) ==
  IF Len(learnt) = 1 THEN Enqueue(s, learnt[1], 0)
  ELSE Enqueue(Watch(s, learnt), learnt[1], Len(s.clauses) + 1)

\* A conflict at the top level.
AnswerUnsat ==
  /\ pc = "conflict"
  /\ DecisionLevel = 0
  /\ solver' = [solver EXCEPT !.unsat = TRUE]
  /\ answer' = "unsat"
  /\ pc' = "idle"
  /\ conflicts' = conflicts + 1
  /\ UNCHANGED <<confl, restarts, limit, budget, offered, added>>

\* A conflict above it: analyze, jump back and learn, then give up or restart.
Learn ==
  LET learnt == Analyze
      after == Learnt(CancelUntil(solver, BacktrackLevel(learnt)), learnt)
      spent == budget # 0 /\ conflicts + 1 >= budget
      restart == ~spent /\ conflicts + 1 >= limit
  IN  /\ pc = "conflict"
      /\ DecisionLevel > 0
      /\ solver' = IF restart THEN CancelUntil(after, 0) ELSE after
      /\ conflicts' = conflicts + 1
      /\ restarts' = IF restart THEN restarts + 1 ELSE restarts
      /\ limit' = IF restart THEN conflicts + 1 + Luby[restarts + 1] * RestartUnit ELSE limit
      /\ answer' = IF spent THEN "unknown" ELSE answer
      /\ pc' = IF spent THEN "idle" ELSE "propagate"
      /\ UNCHANGED <<confl, budget, offered, added>>

Next ==
  \/ NewVar \/ Offer
  \/ \E max \in Budgets : Solve(max)
  \/ Propagate \/ Decide \/ AnswerSat \/ AnswerUnsat \/ Learn

Spec == Init /\ [][Next]_vars

------------------------------------------------------------------------------

\* The assignments as sets of variables that are true.
Satisfies(assignment, clause) ==
  \E lit \in clause : IF lit > 0 THEN lit \in assignment ELSE -lit \notin assignment

Model == {v \in Vars : IsTrue(solver, v)}

\* solve answers Sat with a model of every clause that was added, and Unsat only when
\* there is none.
AnswersRight ==
  /\ answer = "sat" => \A clause \in added : Satisfies(Model, clause)
  /\ answer = "unsat" => \A assignment \in SUBSET Vars :
                           \E clause \in added : ~Satisfies(assignment, clause)

\* "`watches[l]`: clauses watching literal `l`, processed when `l` becomes false": a clause
\* is on the lists of its first two literals and no other, and when one of them is false
\* and processed the other is true, and stays true at least as long.
Watched ==
  /\ \A lit \in Lits : IsInjective(solver.watches[lit])
  /\ \A cref \in DOMAIN solver.clauses :
       LET lits == solver.clauses[cref]
       IN  /\ {lit \in Lits : Contains(solver.watches[lit], cref)} = {lits[1], lits[2]}
           /\ pc # "conflict" /\ ~solver.unsat => \A w \in {1, 2} :
                IsFalse(solver, lits[w]) /\ PlaceOf(Var(lits[w])) <= solver.qhead =>
                  /\ IsTrue(solver, lits[3 - w])
                  /\ LevelOf(Var(lits[3 - w])) <= LevelOf(Var(lits[w]))

\* analyze relies on it: the clause that forced a literal has it first and the others
\* false before it, and a literal of a level above 0 that was not forced began the level.
Reasoned ==
  \A i \in DOMAIN solver.trail :
    LET cref == solver.reason[Var(solver.trail[i])]
    IN  IF cref = 0
        THEN LevelOf(Var(solver.trail[i])) > 0 => i - 1 \in Range(solver.trailLim)
        ELSE /\ solver.clauses[cref][1] = solver.trail[i]
             /\ \A lit \in Range(Tail(solver.clauses[cref])) :
                  \E j \in 1..(i - 1) : solver.trail[j] = -lit

\* Every conflict teaches the solver something, so that it answers after finitely many:
\* the clause learnt follows from those added and is not one it had, nor weaker than one.
LearnsAnew ==
  [][Learn => LET learnt == Range(Analyze)
              IN  /\ \A assignment \in SUBSET Vars :
                       (\A clause \in added : Satisfies(assignment, clause))
                         => Satisfies(assignment, learnt)
                  /\ \A cref \in DOMAIN solver.clauses :
                       ~(Range(solver.clauses[cref]) \subseteq learnt)]_vars
=============================================================================
