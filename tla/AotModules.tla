------------------------------ MODULE AotModules ------------------------------
(***************************************************************************)
(* Programs of several files (parser/module_resolver.py,                   *)
(* parser/module_merger.py): the files an entry file imports are found,    *)
(* put in order, and merged into one program by prefixing the names other  *)
(* files declare.                                                          *)
(*                                                                         *)
(* A path is [dir, stem, ext], an import's source a path relative to the   *)
(* directory of its file, a file the sequence of its top-level statements, *)
(* one a line.  A project is [entry, files, hash]: hash is the order       *)
(* Python's sets have its paths in, which changes from run to run.         *)
(* Annotations and JSX are gone from the files: stripping them is not      *)
(* modelled.                                                               *)
(***************************************************************************)
EXTENDS AotSyntax, SequencesExt

Path(dir, stem, ext) == [dir |-> dir, stem |-> stem, ext |-> ext]
\* ---- statements only a module has.  A specifier is <<name, local name>>, or
\* <<local name, exported name>> of an export.
Import(source, specs, namespace) == [k |-> "import", source |-> source, specs |-> specs, n |-> namespace]
Export(decl, default) == [k |-> "export", decl |-> decl, specs |-> <<>>, default |-> default]
ExportNames(specs) == [k |-> "export", decl |-> Nothing, specs |-> specs, default |-> FALSE]
Fn(n, params, body) == [k |-> "func"] @@ Func(n, params, body)
Project(entry, files, hash) == [entry |-> entry, files |-> files, hash |-> hash]

\* ---- paths
NotFound == Path(<<>>, "", "")
Walk(dir, steps) ==
  FoldLeft(LAMBDA d, name : IF name = ".." THEN Front(d) ELSE Append(d, name), dir, steps)
resolve_path(files, source, from) ==
  LET target == [source EXCEPT !.dir = Walk(from.dir, source.dir)]
      With(ext) == [target EXCEPT !.ext = ext]
      index == Path(Append(target.dir, target.stem), "index", ".js")
      found == SelectSeq(<<target, With(".js"), With(".ts"), With(".jsx"), With(".tsx"), index>>,
                         LAMBDA p : p \in DOMAIN files)
  IN IF found = <<>> THEN NotFound ELSE Head(found)

ImportsOf(module) == SelectSeq(module, LAMBDA st : st.k = "import")
collect_imports(module) == LET is == ImportsOf(module) IN [j \in DOMAIN is |-> is[j].source]

\* ---- the files in order.  Breadth first from the entry; an import that
\* resolves to no file is passed over, one made twice counts twice.
DependenciesOf(files, path) ==
  LET sources == collect_imports(files[path])
      found == [j \in DOMAIN sources |-> resolve_path(files, sources[j], path)]
  IN SelectSeq(found, LAMBDA p : p # NotFound)
RECURSIVE Visited(_, _, _), Kahn(_, _, _, _)
Visited(files, queue, seen) ==
  IF queue = <<>> THEN seen
  ELSE IF Head(queue) \in ToSet(seen) THEN Visited(files, Tail(queue), seen)
  ELSE Visited(files, Tail(queue) \o DependenciesOf(files, Head(queue)), Append(seen, Head(queue)))

\* A file follows when as many of its imports are out as it makes; one file
\* that is out counts once.
Kahn(deps, queue, degree, result) ==
  IF queue = <<>> THEN result
  ELSE LET node == Head(queue)
           order == deps.order
           after == [p \in DOMAIN degree |-> IF node \in ToSet(deps.of[p]) THEN degree[p] - 1 ELSE degree[p]]
           free == SelectSeq(order, LAMBDA p : after[p] = 0 /\ degree[p] # 0)
       IN Kahn(deps, Tail(queue) \o free, after, Append(result, node))
topological_sort(deps, hash) ==
  LET all == SelectSeq(hash, LAMBDA p : p \in DOMAIN deps.of)
      degree == [p \in DOMAIN deps.of |-> Len(deps.of[p])]
      sorted == Kahn(deps, SelectSeq(all, LAMBDA p : degree[p] = 0), degree, <<>>)
  IN sorted \o SelectSeq(all, LAMBDA p : p \notin ToSet(sorted))
build_dependency_graph(project) ==
  LET order == Visited(project.files, <<project.entry>>, <<>>)
  IN topological_sort([order |-> order, of |-> [p \in ToSet(order) |-> DependenciesOf(project.files, p)]],
                      project.hash)

\* ---- names.  The prefix comes from the file's name, not from its directory.
module_prefix(path) == "__mod_" \o path.stem \o "__"
PrefixIn(project, path) == IF path = project.entry THEN "" ELSE module_prefix(path)

\* The local name of each name a file exports.
collect_exports(module) ==
  LET Names(st) ==
        IF st.decl.k # "none" THEN (IF st.default THEN "default" ELSE st.decl.n) :> st.decl.n
        ELSE [n \in {st.specs[j][2] : j \in DOMAIN st.specs} |->
                (CHOOSE sp \in ToSet(st.specs) : sp[2] = n)[1]]
  IN FoldLeft(LAMBDA exports, st : IF st.k = "export" THEN Names(st) @@ exports ELSE exports, <<>>, module)

\* Where the names a file imports come from; a name its file does not export is
\* taken for one it declares, and a namespace has no names.
import_map(project, path) ==
  LET Of(import) ==
        LET source == resolve_path(project.files, import.source, path)
            exports == collect_exports(project.files[source])
            Local(n) == IF n \in DOMAIN exports THEN exports[n] ELSE n
        IN IF source = NotFound THEN <<>>
           ELSE FoldLeft(LAMBDA names, sp : sp[2] :> <<source, Local(sp[1])>> @@ names, <<>>, import.specs)
  IN FoldLeft(LAMBDA names, import : Of(import) @@ names, <<>>, ImportsOf(project.files[path]))
\* What the names the entry imports become.
build_rewrite_map(project) ==
  LET imports == import_map(project, project.entry)
  IN [n \in DOMAIN imports |-> module_prefix(imports[n][1]) \o imports[n][2]]

\* ---- rewriting: not below a return, an operator or a condition, and whatever
\* the name is there.
RECURSIVE rewrite_expr(_, _), rewrite_block(_, _)
Renamed(names, n) == IF n \in DOMAIN names THEN names[n] ELSE n
rewrite_expr(e, names) ==
  LET Each(es) == [j \in DOMAIN es |-> rewrite_expr(es[j], names)]
  IN CASE e.k = "id" -> Id(Renamed(names, e.n))
       [] e.k = "call" -> Call(Renamed(names, e.f), Each(e.args))
       [] e.k = "method" -> Method(e.n, rewrite_expr(e.o, names), Each(e.args))
       [] e.k = "static" -> Static(Renamed(names, e.ns), e.n, Each(e.args))
       [] e.k = "idx" -> Idx(rewrite_expr(e.o, names), rewrite_expr(e.i, names))
       [] e.k = "len" -> Length(rewrite_expr(e.o, names))
       [] OTHER -> e
rewrite_stmt(st, names) ==
  CASE st.k \in {"expr", "var"} -> [st EXCEPT !.e = rewrite_expr(@, names)]
    [] st.k = "func" -> [st EXCEPT !.body = rewrite_block(@, names)]
    [] OTHER -> st
rewrite_block(block, names) == [j \in DOMAIN block |-> rewrite_stmt(block[j], names)]

\* ---- merging.  Only the name a declaration makes gets the prefix.
prefix_declaration(st, prefix) ==
  IF st.k \in {"func", "var"} THEN [st EXCEPT !.n = prefix \o @] ELSE st
\* The declarations of a file and the lines they are on; of exports what they
\* declare.
Declared(module) ==
  LET Inner(st) == IF st.k = "export" THEN st.decl ELSE st
      all == [j \in DOMAIN module |-> [line |-> j, st |-> Inner(module[j])]]
  IN SelectSeq(all, LAMBDA d : d.st.k \notin {"import", "none"})

\* The merged program.  Its functions and variables carry their prefixes; what
\* runs at the top level is cut out of the entry file by the line it had in its
\* own.
merge_modules(project) ==
  LET names == build_rewrite_map(project)
      entry == project.files[project.entry]
      Of(path) ==
        LET ds == Declared(project.files[path])
        IN [j \in DOMAIN ds |->
              [ds[j] EXCEPT !.st = rewrite_stmt(prefix_declaration(@, PrefixIn(project, path)), names)]]
      files == build_dependency_graph(project)
      all == FlattenSeq([j \in DOMAIN files |-> Of(files[j])])
      Only(k) == LET ds == SelectSeq(all, LAMBDA d : d.st.k = k) IN [j \in DOMAIN ds |-> ds[j].st]
      lines == SelectSeq(all, LAMBDA d : d.st.k = "expr" /\ d.line <= Len(entry))
  IN [funcs |-> Only("func"), globals |-> Only("var"),
      entry |-> LET calls == Only("expr") IN [j \in DOMAIN calls |-> calls[j].e],
      texts |-> [j \in DOMAIN lines |-> entry[lines[j].line]],
      aliases |-> names]

\* A quick check of the text: an import without a name has no "from".
has_imports(project) ==
  \E j \in DOMAIN project.files[project.entry] :
    LET st == project.files[project.entry][j] IN st.k = "import" /\ (st.specs # <<>> \/ st.n # "")
===============================================================================
