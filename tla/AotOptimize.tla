----------------------------- MODULE AotOptimize -----------------------------
(***************************************************************************)
(* The HIR optimizer (hir/optimizer.py), run on every function between the *)
(* builder and the generator: up to three rounds of constant folding and   *)
(* branch simplification, then one removal of dead blocks and one of dead  *)
(* instructions.  The builder never emits the copies that its copy         *)
(* propagation looks for.                                                  *)
(***************************************************************************)
EXTENDS AotLower

\* ---- operators on what a literal can hold
AsNumber(c) == IF c.t = BOOL THEN IF c.v THEN 1 ELSE 0 ELSE c.v
\* The sign of a remainder is the dividend's.
Rem(a, b) == LET m == (IF a < 0 THEN -a ELSE a) % (IF b < 0 THEN -b ELSE b)
             IN IF a < 0 THEN -m ELSE m
Arithmetic(op, a, b) ==
  CASE op = "+" -> a + b [] op = "-" -> a - b [] op = "*" -> a * b [] op = "%" -> Rem(a, b)
Compared(op, a, b) ==
  CASE op = "===" -> a = b [] op = "!==" -> a # b
    [] op = "<" -> a < b [] op = ">" -> a > b [] op = "<=" -> a <= b [] op = ">=" -> a >= b

\* ---- folding: the constant an instruction becomes, or the instruction
Const(r, t, v) == Instr("const", "", r, t, <<>>) @@ [v |-> v]
Numeric(c) == c.t \in {NUMBER, BOOL}

FoldBinary(x, l, r) ==
  CASE x.x = "+" /\ l.t = STR /\ r.t = STR -> Const(x.r, STR, l.v \o r.v)
    [] Numeric(l) /\ Numeric(r) /\ x.x \in {"+", "-", "*", "%"} /\ (x.x = "%" => AsNumber(r) # 0) ->
         Const(x.r, NUMBER, Arithmetic(x.x, AsNumber(l), AsNumber(r)))
    [] OTHER -> x

FoldUnary(x, c) ==
  CASE x.x = "-" /\ Numeric(c) -> Const(x.r, NUMBER, -AsNumber(c))
    [] x.x = "!" /\ Numeric(c) -> Const(x.r, BOOL, AsNumber(c) = 0)
    [] OTHER -> x

FoldCompare(x, l, r) ==
  CASE l.t = STR /\ r.t = STR /\ x.x \in {"===", "!=="} -> Const(x.r, BOOL, Compared(x.x, l.v, r.v))
    [] Numeric(l) /\ Numeric(r) -> Const(x.r, BOOL, Compared(x.x, AsNumber(l), AsNumber(r)))
    [] OTHER -> x

Fold(x, consts) ==
  IF x.k \notin {"bin", "un", "cmp"} \/ ~(ToSet(x.args) \subseteq DOMAIN consts) THEN x
  ELSE CASE x.k = "bin" -> FoldBinary(x, consts[x.args[1]], consts[x.args[2]])
         [] x.k = "un" -> FoldUnary(x, consts[x.args[1]])
         [] x.k = "cmp" -> FoldCompare(x, consts[x.args[1]], consts[x.args[2]])

Constants(f) ==
  LET cs == {x \in UNION {ToSet(f.blocks[l].ins) : l \in ToSet(f.order)} : x.k = "const"}
  IN [r \in {c.r : c \in cs} |-> CHOOSE c \in cs : c.r = r]

\* In the order of the blocks, each folded constant at once known to the rest.
ConstantFolding(f) ==
  LET Step(a, l, x) ==
        LET y == Fold(x, a.consts)
        IN [f |-> [a.f EXCEPT !.blocks[l].ins = Append(@, y)],
            consts |-> IF y.k = "const" THEN y.r :> y @@ a.consts ELSE a.consts]
      Block(a, l) == FoldLeft(LAMBDA c, x : Step(c, l, x), [a EXCEPT !.f.blocks[l].ins = <<>>],
                              f.blocks[l].ins)
  IN FoldLeft(Block, [f |-> f, consts |-> Constants(f)], f.order)

\* ---- control flow
\* Phis forget the edges from the blocks in gone, and go with their last edge.
DropEdges(ins, gone) ==
  LET Kept(x) == SelectSeq([j \in DOMAIN x.args |-> j], LAMBDA j : x.from[j] \notin gone)
      Cut(x) == [x EXCEPT !.args = [j \in DOMAIN Kept(x) |-> x.args[Kept(x)[j]]],
                          !.from = [j \in DOMAIN Kept(x) |-> x.from[Kept(x)[j]]]]
  IN [j \in DOMAIN SelectSeq(ins, LAMBDA x : x.k # "phi" \/ Kept(x) # <<>>) |->
        LET x == SelectSeq(ins, LAMBDA y : y.k # "phi" \/ Kept(y) # <<>>)[j]
        IN IF x.k = "phi" THEN Cut(x) ELSE x]

\* As if the phis of the block no longer reached kept the edge.
KeepEdges(f, consts) ==
  LET Known(l) == LET t == f.blocks[l].term
                  IN t[1] = "branch" /\ t[2] \in DOMAIN consts /\ consts[t[2]].t = BOOL
      Taken(l) == LET t == f.blocks[l].term IN IF consts[t[2]].v THEN t[3] ELSE t[4]
  IN [f EXCEPT !.blocks = [l \in DOMAIN @ |->
        [@[l] EXCEPT !.term = IF l \in ToSet(f.order) /\ Known(l) THEN Jump(Taken(l)) ELSE @]]]

\* A branch on a boolean constant becomes a jump; the block it no longer
\* reaches forgets the edge.
BranchSimplification(f, consts) ==
  LET Known(l) == LET t == f.blocks[l].term
                  IN t[1] = "branch" /\ t[2] \in DOMAIN consts /\ consts[t[2]].t = BOOL
      Taken(l) == LET t == f.blocks[l].term IN IF consts[t[2]].v THEN t[3] ELSE t[4]
      Lost(l) == LET t == f.blocks[l].term IN IF consts[t[2]].v THEN t[4] ELSE t[3]
      known == {l \in ToSet(f.order) : Known(l)}
      Orphans(l) == {s \in known : Lost(s) = l}
  IN [f EXCEPT !.blocks = [l \in DOMAIN @ |->
        [ins |-> IF Orphans(l) = {} THEN @[l].ins
                 ELSE DropEdges(@[l].ins, Orphans(l)),
         term |-> IF l \in known THEN Jump(Taken(l)) ELSE @[l].term]]]

\* Where a block leads: its terminator's targets, and all of a try's blocks.
Successors(f, l) ==
  LET t == f.blocks[l].term
      tries == {x \in ToSet(f.blocks[l].ins) : x.k = "try"}
  IN (CASE t[1] = "jump" -> {t[2]} [] t[1] = "branch" -> {t[3], t[4]} [] OTHER -> {})
       \cup UNION {{x.try, x.catch, x.final, x.merge} \ {0} : x \in tries}

RECURSIVE Reach(_, _)
Reach(f, seen) ==
  LET more == UNION {Successors(f, l) : l \in seen} \ seen
  IN IF more = {} THEN seen ELSE Reach(f, seen \cup more)

DeadBlockElimination(f) ==
  LET live == Reach(f, {Head(f.order)})
  IN [f EXCEPT !.order = SelectSeq(@, LAMBDA l : l \in live),
               !.blocks = [l \in DOMAIN @ |->
                             [@[l] EXCEPT !.ins = DropEdges(@, DOMAIN f.blocks \ live)]]]

\* ---- dead instructions.  What an await waits for is not counted as used.
UsedVars(x) == IF x.k = "await" THEN {} ELSE ToSet(x.args)
SideEffectFree(x) == x.k \in {"const", "bin", "un", "cmp", "phi"}

DeadInstructionElimination(f) ==
  LET Blocks == {f.blocks[l] : l \in ToSet(f.order)}
      TermUses(t) == IF t[1] \in {"branch", "return"} THEN {t[2]} ELSE {}
      used == UNION {UNION {UsedVars(x) : x \in ToSet(b.ins)} \cup TermUses(b.term) : b \in Blocks}
  IN [f EXCEPT !.blocks = [l \in DOMAIN @ |->
        [@[l] EXCEPT !.ins = SelectSeq(@, LAMBDA x : x.r \in used \/ ~SideEffectFree(x))]]]

\* ---- the passes
RECURSIVE Rounds(_, _)
Rounds(f, n) ==
  LET folded == ConstantFolding(f)
      next == BranchSimplification(folded.f, folded.consts)
  IN IF n = 1 \/ next = f THEN next ELSE Rounds(next, n - 1)

OptimizeFunction(f) == DeadInstructionElimination(DeadBlockElimination(Rounds(f, 3)))
OptimizeModule(m) == [m EXCEPT !.funcs = [j \in DOMAIN @ |-> OptimizeFunction(@[j])]]
=============================================================================
