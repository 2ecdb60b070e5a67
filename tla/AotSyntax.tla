------------------------------ MODULE AotSyntax ------------------------------
(***************************************************************************)
(* The part of the compiler's syntax tree the AOT modules work on          *)
(* (parser/ast_nodes.py), its types (type_checker/types.py) and the        *)
(* programs that are compiled.                                             *)
(*                                                                         *)
(* A node is a record whose field k names its class.  A string is a        *)
(* sequence of letters, a block a sequence of statements, an arrow's        *)
(* expression body the block that returns it.  An arrow carries the name   *)
(* it is lifted to, which also stands for its identity.  Nodes are         *)
(* compared as values where the compiler compares them by id(): two equal  *)
(* expressions of one function have one type.                              *)
(***************************************************************************)
EXTENDS Integers, Sequences, FiniteSets, TLC

\* ---- expressions
NumE(v) == [k |-> "num", num |-> v]
BoolE(v) == [k |-> "bool", tf |-> v]
StrE(v) == [k |-> "str", s |-> v]
Id(n) == [k |-> "id", n |-> n]
Bin(op, l, r) == [k |-> "bin", op |-> op, l |-> l, r |-> r]
Cmp(op, l, r) == [k |-> "cmp", op |-> op, l |-> l, r |-> r]
Log(op, l, r) == [k |-> "log", op |-> op, l |-> l, r |-> r]
Un(op, e) == [k |-> "un", op |-> op, e |-> e]
Upd(op, n, prefix) == [k |-> "upd", op |-> op, n |-> n, tf |-> prefix]
Tern(c, y, n) == [k |-> "tern", c |-> c, yes |-> y, no |-> n]
Asg(op, l, r) == [k |-> "asg", op |-> op, l |-> l, r |-> r]
Call(f, args) == [k |-> "call", f |-> f, args |-> args]
Arrow(n, params, body) == [k |-> "arrow", n |-> n, params |-> params, body |-> body]
Arr(es) == [k |-> "arr", es |-> es]
Idx(o, i) == [k |-> "idx", o |-> o, i |-> i]
Length(o) == [k |-> "len", o |-> o]
Method(m, o, args) == [k |-> "method", n |-> m, o |-> o, args |-> args]
\* A function or a constant of one of JavaScript's own objects: Math.min(a, b).
Static(o, m, args) == [k |-> "static", ns |-> o, n |-> m, args |-> args]
Member(o, m) == [k |-> "member", ns |-> o, n |-> m]
Await(e) == [k |-> "await", e |-> e]
Nothing == [k |-> "none"]

\* ---- statements
Var(n, e) == [k |-> "var", n |-> n, e |-> e]
Ret(e) == [k |-> "ret", e |-> e]
If(c, t, a) == [k |-> "if", c |-> c, then |-> t, else |-> a]
While(c, b) == [k |-> "while", c |-> c, body |-> b]
DoWhile(b, c) == [k |-> "do", body |-> b, c |-> c]
For(i, c, u, b) == [k |-> "for", i |-> i, c |-> c, u |-> u, body |-> b]
ForOf(n, e, b) == [k |-> "forof", n |-> n, e |-> e, body |-> b]
Switch(d, cases) == [k |-> "switch", d |-> d, cases |-> cases]
Case(t, b) == [k |-> "case", d |-> t, body |-> b]
Break(l) == [k |-> "break", n |-> l]
Continue(l) == [k |-> "continue", n |-> l]
Labeled(l, s) == [k |-> "label", n |-> l, st |-> s]
Ex(e) == [k |-> "expr", e |-> e]
Throw(e) == [k |-> "throw", e |-> e]
Try(b, p, h, f) == [k |-> "try", body |-> b, n |-> p, handler |-> h, final |-> f]

\* ---- modules: functions, global variables (Var statements) and the calls
\* the top level makes, in order
Func(n, params, body) == [n |-> n, params |-> params, body |-> body, async |-> FALSE]
AsyncFunc(n, params, body) == [Func(n, params, body) EXCEPT !.async = TRUE]
Program(funcs, globals, entry) == [funcs |-> funcs, globals |-> globals, entry |-> entry]

\* The nodes directly below a node.
Kids(x) ==
  CASE x.k \in {"num", "bool", "str", "id", "none", "break", "continue", "upd", "member"} -> <<>>
    [] x.k \in {"bin", "cmp", "log", "asg"} -> <<x.l, x.r>>
    [] x.k \in {"un", "await", "var", "ret", "expr", "throw"} -> <<x.e>>
    [] x.k = "tern" -> <<x.c, x.yes, x.no>>
    [] x.k \in {"call", "static"} -> x.args
    [] x.k = "arrow" -> x.body
    [] x.k = "arr" -> x.es
    [] x.k = "idx" -> <<x.o, x.i>>
    [] x.k = "len" -> <<x.o>>
    [] x.k = "method" -> <<x.o>> \o x.args
    [] x.k = "if" -> <<x.c>> \o x.then \o x.else
    [] x.k \in {"while", "do"} -> <<x.c>> \o x.body
    [] x.k = "for" -> <<x.i, x.c, x.u>> \o x.body
    [] x.k = "forof" -> <<x.e>> \o x.body
    [] x.k = "switch" -> <<x.d>> \o x.cases
    [] x.k = "case" -> <<x.d>> \o x.body
    [] x.k = "label" -> <<x.st>>
    [] x.k = "try" -> x.body \o x.handler \o x.final

\* Every node of a block that is not inside an arrow of it, arrows included.
RECURSIVE Nodes(_)
Nodes(b) ==
  UNION {{b[j]} \cup (IF b[j].k = "arrow" THEN {} ELSE Nodes(Kids(b[j]))) : j \in DOMAIN b}

\* ---- types: tagged tuples
NUMBER == <<"number">>
BOOL == <<"boolean">>
STR == <<"string">>
VOID == <<"void">>
ArrayOf(t) == <<"array", t>>
FnType(params, ret) == <<"fn", params, ret>>
OBJECT == <<"object">>
PromiseOf(t) == <<"promise", t>>
TV(j) == <<"var", j>>
IsTV(t) == t[1] = "var"

\* The element of a sequence of named records with a given name.
Named(s, n) == s[CHOOSE j \in DOMAIN s : s[j].n = n]
=============================================================================
