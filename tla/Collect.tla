------------------------------- MODULE Collect -------------------------------
(***************************************************************************)
(* The objects of a package and of its files (types/resolver.go): imports, *)
(* declarations, methods and the types they belong to, and imports that    *)
(* nothing uses.                                                           *)
(*                                                                         *)
(* A program says what the importer gives for each path, and which files   *)
(* each call of Checker.Files gets. A file has a package name and          *)
(* declarations; names are those that declarations tell apart. Where       *)
(* something stands is <<call, file, declaration, name>>.                  *)
(***************************************************************************)
EXTENDS Integers, Sequences, FiniteSets, SequencesExt

Universe == {"int"}
\* An imported package.
Package(path, name, exports, hidden, fake) ==
    [path |-> path, name |-> name, exports |-> exports, hidden |-> hidden, fake |-> fake]
NoPackage == Package("", "", {}, {}, FALSE)
Fake(path) == Package(path, path, {}, {}, TRUE)     \* the last element of a path is the path here
\* What the importer returns: a package or an error, or a package that is not complete.
Imported(result, pkg) == [result |-> result, pkg |-> pkg]

(* A declaration. Type: names[1] is an alias if flag, of the type of, or is  *)
(* defined as of; mods are the stars and parentheses before the name of a    *)
(* type; a type without a name has fields. Func: flag if it has parameters   *)
(* or results; Method: of is the receiver's type. Value: the names are       *)
(* constants if flag. What a body uses is a name, or a name and a selector.  *)
TypeExpr(mods, name, fields) == [mods |-> mods, name |-> name, fields |-> fields]
NoType == TypeExpr(<<>>, "", {})
Decl(k, names, flag, path, of, uses) ==
    [k |-> k, names |-> names, flag |-> flag, path |-> path, of |-> of, uses |-> uses]
Import(name, path) == Decl("Import", <<name>>, FALSE, path, NoType, <<>>)    \* "": its own name
Value(names, const) == Decl("Value", names, const, "", NoType, <<>>)
Type(name, alias, of) == Decl("Type", <<name>>, alias, "", of, <<>>)
Func(name, flag, uses) == Decl("Func", <<name>>, flag, "", NoType, uses)
Method(recv, name) == Decl("Method", <<name>>, FALSE, "", recv, <<>>)
Use(x, sel) == [x |-> x, sel |-> sel]
File(name, decls) == [name |-> name, decls |-> decls]

Obj(k, name, at, pkg, decl) == [k |-> k, name |-> name, at |-> at, pkg |-> pkg, decl |-> decl]
NoObj == Obj("", "", <<>>, NoPackage, Value(<<>>, FALSE))

\* The checker of a package: scope and files are scopes.
NewChecker ==
    [name |-> "", call |-> 0, scope |-> <<>>, files |-> <<>>, fileScopes |-> <<>>, imports |-> <<>>, dotImports |-> <<>>,
     used |-> {}, impMap |-> <<>>, pkgImports |-> <<>>, asked |-> <<>>, objMap |-> <<>>,
     methods |-> <<>>, bound |-> <<>>, errors |-> {}]
Report(c, code, at) == [c EXCEPT !.errors = @ \cup {<<code, at>>}]

Lookup(scope, name) == IF name \in DOMAIN scope THEN scope[name] ELSE NoObj
Inserted(scope, name, obj) == (name :> obj) @@ scope
\* The scope in which a name is found, from that of a file on; "file", "package", "universe" or "".
Where(c, f, name) ==
    CASE name \in DOMAIN c.fileScopes[f] -> "file" [] name \in DOMAIN c.scope -> "package"
      [] name \in Universe -> "universe" [] OTHER -> ""
Found(c, f, name) == CASE Where(c, f, name) = "file" -> c.fileScopes[f][name]
                       [] Where(c, f, name) = "package" -> c.scope[name] [] OTHER -> NoObj

-----------------------------------------------------------------------------
(* Imports.                                                                  *)

\* Leaves the package in c.got, NoPackage if it is not complete.
importPackage(c, program, path, at) ==
    LET from == program.importer[path]
        asked == [c EXCEPT !.asked = Append(@, path)]
        Keep(d, pkg) == [d EXCEPT !.impMap = (path :> pkg) @@ @, !.got = pkg]
    IN IF path \in DOMAIN c.impMap THEN [c EXCEPT !.got = c.impMap[path]]
       ELSE CASE path = "C" /\ program.fakeC -> Keep(c, Fake("C"))
              [] from.result = "complete" -> Keep(asked, from.pkg)
              [] from.result = "error" -> Keep(Report(asked, "BrokenImport", at),
                                               IF from.pkg = NoPackage THEN Fake(path) ELSE [from.pkg EXCEPT !.fake = TRUE])
              [] OTHER -> [asked EXCEPT !.got = NoPackage]

\* Declares an object in a scope of a file; a name that is there stays what it was.
declareInFile(c, f, obj) ==
    CASE obj.name = "_" -> c
      [] Lookup(c.fileScopes[f], obj.name) # NoObj -> Report(c, "DuplicateDecl", obj.at)
      [] OTHER -> [c EXCEPT !.fileScopes[f] = Inserted(@, obj.name, obj)]
dotImport(c, f, pkgName) ==
    FoldLeft(LAMBDA acc, name :
                 IF Lookup(acc.fileScopes[f], name) # NoObj THEN Report(acc, "DuplicateDecl", pkgName.at)
                 ELSE [acc EXCEPT !.fileScopes[f] = Inserted(@, name, Obj("Imported", name, pkgName.at, pkgName.pkg, NoObj.decl)),
                                  !.dotImports = (<<f, name>> :> pkgName) @@ @],
             c, SetToSeq(pkgName.pkg.exports))

importDecl(c0, program, f, d, at) ==
    LET c == importPackage([got |-> NoPackage] @@ c0, program, d.path, at)
        name == IF d.names[1] = "" THEN c.got.name ELSE d.names[1]
        pkgName == Obj("PkgName", name, at, c.got, d)
        listed == [c EXCEPT !.pkgImports = IF Contains(@, c.got) THEN @ ELSE Append(@, c.got),
                            !.used = IF c.got.fake THEN @ \cup {at} ELSE @,
                            !.imports = Append(@, pkgName)]
    IN CASE d.path = "" -> c0
         [] c.got = NoPackage -> c
         [] d.path = "C" /\ d.names[1] # "" -> Report(c, "ImportCRenamed", at)
         [] name = "init" -> Report(c, "InvalidInitDecl", at)
         [] name = "." -> dotImport(listed, f, pkgName)
         [] OTHER -> declareInFile(listed, f, pkgName)

-----------------------------------------------------------------------------
(* Declarations of the package.                                              *)

InObjMap(c, obj) == [c EXCEPT !.objMap = Append(@, obj)]
declare(c, obj) ==
    CASE obj.name = "_" -> c
      [] Lookup(c.scope, obj.name) # NoObj -> Report(c, "DuplicateDecl", obj.at)
      [] OTHER -> [c EXCEPT !.scope = Inserted(@, obj.name, obj)]
declarePkgObj(c, obj) ==
    CASE obj.name = "init" -> Report(c, "InvalidInitDecl", obj.at)
      [] obj.name = "main" /\ c.name = "main" -> Report(c, "InvalidMainDecl", obj.at)
      [] OTHER -> InObjMap(declare(c, obj), obj)

funcDecl(c, d, at) ==
    LET name == d.names[1]
        obj == Obj("Func", name, at, NoPackage, d)
        special == name = "init" \/ (name = "main" /\ c.name = "main")
        checked == IF special /\ d.flag THEN Report(c, IF name = "main" THEN "InvalidMainDecl" ELSE "InvalidInitDecl", at) ELSE c
    IN InObjMap(IF name = "init" THEN checked ELSE declare(checked, obj), obj)

Unparen(mods) == LET starts == {k \in DOMAIN mods : mods[k] # "("}
                 IN IF starts = {} THEN <<>> ELSE SubSeq(mods, CHOOSE k \in starts : starts \subseteq k .. Len(mods), Len(mods))
\* Whether a receiver's type has a pointer.
unpackRecv(of) == "*" \in ToSet(of.mods)

\* Mutant: a second pointer is one with the first.
resolveThroughAny(c, seenPtr, of, seen) ==
    LET resolve[ptr \in BOOLEAN, t \in {o.decl.of : o \in ToSet(c.objMap)} \cup {of}, been \in SUBSET DOMAIN c.scope] ==
            LET obj == Lookup(c.scope, t.name)
            IN CASE obj.k # "Type" \/ t.name \in been -> NoObj
                 [] ~obj.decl.flag -> obj
                 [] OTHER -> resolve[TRUE, obj.decl.of, been \cup {t.name}]
    IN resolve[seenPtr, of, seen]
\* The type, not an alias, that a type with at most one pointer names in the package; NoObj if none.
resolveBaseTypeName(c, seenPtr, of, seen) ==
    LET resolve[ptr \in BOOLEAN, t \in {o.decl.of : o \in ToSet(c.objMap)} \cup {of}, been \in SUBSET DOMAIN c.scope] ==
            LET mods == Unparen(t.mods)
                star == mods # <<>>
                rest == IF star THEN Unparen(Tail(mods)) ELSE <<>>
                obj == Lookup(c.scope, t.name)
            IN CASE (star /\ ptr) \/ rest # <<>> \/ t.name = "" \/ obj.k # "Type" \/ t.name \in been -> NoObj
                 [] ~obj.decl.flag -> obj
                 [] OTHER -> resolve[ptr \/ star, obj.decl.of, been \cup {t.name}]
    IN resolve[seenPtr, of, seen]

Collected(c, program, f, d, at) ==
    CASE d.k = "Import" -> importDecl(c, program, f, d, at)
      [] d.k \in {"Value", "Type"} ->
             FoldLeftDomain(LAMBDA acc, i : declarePkgObj(acc, Obj(d.k, d.names[i], [at EXCEPT ![4] = i], NoPackage, d)), c, d.names)
      [] d.k = "Func" -> funcDecl(c, d, at)
      [] d.k = "Method" ->
             LET obj == Obj("Func", d.names[1], at, NoPackage, d)
             IN InObjMap(IF d.of.name # "" /\ obj.name # "_" THEN [c EXCEPT !.methods = Append(@, obj)] ELSE c, obj)

\* "verify that objects in package and file scopes have different names"
Conflicts(c) ==
    FoldLeft(LAMBDA acc, f : FoldLeft(LAMBDA err, name : Report(err, "FileConflict", c.scope[name].at), acc,
                                      SetToSeq(DOMAIN c.fileScopes[f] \cap DOMAIN c.scope)), c, [k \in DOMAIN c.files |-> k])

collectObjects(c, program) ==
    LET Walk(acc, f) == FoldLeftDomain(LAMBDA e, k : Collected(e, program, f, c.files[f].decls[k], <<c.call, c.files[f].no, k, 1>>),
                                       acc, c.files[f].decls)
    IN Conflicts(FoldLeftDomain(Walk, [c EXCEPT !.fileScopes = [f \in DOMAIN c.files |-> <<>>]], c.files))

\* The methods of a type, in order: those it has from earlier calls stay.
collectMethods(c, base) ==
    LET Base(m) == resolveBaseTypeName(c, unpackRecv(m.decl.of), TypeExpr(<<>>, m.decl.of.name, {}), {})
        Add(acc, m) == IF \E n \in DOMAIN acc.bound[base.name] : acc.bound[base.name][n].name = m.name
                       THEN Report(acc, "DuplicateMethod", m.at)
                       ELSE [acc EXCEPT !.bound[base.name] = Append(@, m)]
    IN FoldLeft(Add, IF base.name \in DOMAIN c.bound THEN c ELSE [c EXCEPT !.bound = (base.name :> <<>>) @@ @],
                SelectSeq(c.methods, LAMBDA m : Base(m) = base))
\* The fields of the struct that a type is defined as, directly or over others.
Fields(c, t, seen) ==
    LET fields[of \in {o.decl.of : o \in ToSet(c.objMap)}, been \in SUBSET DOMAIN c.scope] ==
            IF of.mods # <<>> \/ of.name \in been THEN {}
            ELSE IF of.name = "" THEN of.fields
            ELSE IF Lookup(c.scope, of.name).k # "Type" THEN {}
            ELSE fields[c.scope[of.name].decl.of, been \cup {of.name}]
    IN fields[t.decl.of, seen]
checkFieldUniqueness(c, base) ==
    FoldLeft(LAMBDA acc, m : IF m.name \in Fields(c, base, {}) THEN Report(acc, "DuplicateFieldAndMethod", m.at) ELSE acc,
             c, c.bound[base.name])
packageObjects(c) ==
    LET types == SelectSeq(c.objMap, LAMBDA o : o.k = "Type" /\ ~o.decl.flag /\ Lookup(c.scope, o.name) = o)
    IN FoldLeft(LAMBDA acc, t : checkFieldUniqueness(collectMethods(acc, t), t), c, types)

-----------------------------------------------------------------------------
(* Uses, and imports without.                                                *)

MarkUsed(c, pkgName) == [c EXCEPT !.used = @ \cup {pkgName.at}]
ident(c, f, name, at) ==
    LET where == Where(c, f, name)
        obj == Found(c, f, name)
        marked == IF where = "file" /\ <<f, name>> \in DOMAIN c.dotImports THEN MarkUsed(c, c.dotImports[<<f, name>>]) ELSE c
    IN CASE where = "" -> Report(c, IF name = "_" THEN "InvalidBlank" ELSE "UndeclaredName", at)
         [] obj.k = "PkgName" -> Report(marked, "InvalidPkgUse", at)
         [] OTHER -> marked
selector(c, f, use, at) ==
    LET obj == Found(c, f, use.x)
        marked == MarkUsed(c, obj)
    IN CASE obj.k # "PkgName" -> ident(c, f, use.x, at)
         [] use.sel \in obj.pkg.exports \/ (obj.pkg.fake /\ use.sel \notin obj.pkg.hidden) -> marked
         [] use.sel \in obj.pkg.hidden -> Report(marked, "UnexportedName", at)
         [] OTHER -> Report(marked, "UndeclaredImportedName", at)
Bodies(c) ==
    LET Body(acc, f, k) == FoldLeftDomain(LAMBDA e, i :
                LET u == c.files[f].decls[k].uses[i]
                    at == <<c.call, c.files[f].no, k, i>>
                IN IF u.sel = "" THEN ident(e, f, u.x, at) ELSE selector(e, f, u, at), acc, c.files[f].decls[k].uses)
    IN FoldLeftDomain(LAMBDA acc, f : FoldLeftDomain(LAMBDA e, k : Body(e, f, k), acc, c.files[f].decls), c, c.files)
unusedImports(c) ==
    FoldLeft(LAMBDA acc, obj : IF obj.at \notin c.used /\ obj.name # "_" THEN Report(acc, "UnusedImport", obj.at) ELSE acc,
             c, c.imports)

\* The files of the package, with their numbers; the first gives the package its name.
initFiles(c, files) ==
    LET clean == [c EXCEPT !.call = @ + 1, !.files = <<>>, !.imports = <<>>, !.dotImports = <<>>, !.methods = <<>>]
        Take(acc, f) ==
            LET name == files[f].name
                taken == [acc EXCEPT !.files = Append(@, [no |-> f, decls |-> files[f].decls])]
            IN CASE acc.name = "" /\ name = "_" -> Report(taken, "BlankPkgName", <<clean.call, f, 0, 0>>)
                 [] acc.name = "" -> [taken EXCEPT !.name = name]
                 [] acc.name = name -> taken
                 [] OTHER -> Report(acc, "MismatchedPkgName", <<clean.call, f, 0, 0>>)
    IN FoldLeftDomain(Take, clean, files)
Files(c, program, files) == unusedImports(Bodies(packageObjects(collectObjects(initFiles(c, files), program))))
Checked(program) == FoldLeft(LAMBDA c, files : Files(c, program, files), NewChecker, program.calls)

-----------------------------------------------------------------------------
(***************************************************************************)
(* What the language says of the declarations of a package and of the      *)
(* imports of its files, and that exactly what it forbids is reported.     *)
(***************************************************************************)

\* The files, in order, and those of the package: the first that has one gives it its name.
Order(program) == FlattenSeq([c \in DOMAIN program.calls |-> [f \in DOMAIN program.calls[c] |-> <<c, f>>]])
NameAt(program, p) == program.calls[p[1]][p[2]].name
Naming(program) == SelectInSeq(Order(program), LAMBDA p : NameAt(program, p) # "_")
Names(program) == IF Naming(program) = 0 THEN "" ELSE NameAt(program, Order(program)[Naming(program)])
IsOf(program, n) == \/ NameAt(program, Order(program)[n]) = Names(program)
                    \/ NameAt(program, Order(program)[n]) = "_" /\ (Naming(program) = 0 \/ n < Naming(program))
FileErrors(program) ==
    {<<IF NameAt(program, Order(program)[n]) = "_" /\ IsOf(program, n) THEN "BlankPkgName" ELSE "MismatchedPkgName",
       Order(program)[n] \o <<0, 0>>>> :
        n \in {m \in DOMAIN Order(program) : NameAt(program, Order(program)[m]) = "_" \/ ~IsOf(program, m)}}
\* The program without the other files.
OwnFiles(program) ==
    LET Decls(c, f) == LET n == SelectInSeq(Order(program), LAMBDA p : p = <<c, f>>)
                       IN IF IsOf(program, n) THEN program.calls[c][f].decls ELSE <<>>
    IN [program EXCEPT !.calls = [c \in DOMAIN @ |-> [f \in DOMAIN @[c] |-> [@[c][f] EXCEPT !.decls = Decls(c, f)]]]]

\* The declarations of a program in order.
Places(program) ==
    LET Of(p) == [k \in DOMAIN program.calls[p[1]][p[2]].decls |-> p \o <<k>>]
    IN FlattenSeq([n \in DOMAIN Order(program) |-> Of(Order(program)[n])])
DeclAt(program, p) == program.calls[p[1]][p[2]].decls[p[3]]
Entry(name, at, kind, pkg) == [name |-> name, at |-> at, kind |-> kind, pkg |-> pkg]
Declared(program, p) ==
    LET d == DeclAt(program, p)
    IN CASE d.k \in {"Value", "Type"} -> [i \in DOMAIN d.names |-> Entry(d.names[i], p \o <<i>>, d.k, NoPackage)]
         [] d.k = "Func" -> <<Entry(d.names[1], p \o <<1>>, "Func", NoPackage)>>
         [] OTHER -> <<>>
Special(program, name) == name = "init" \/ (name = "main" /\ Names(program) = "main")
\* What the package block has, in order; later ones of a name are errors.
PackageEntries(program) ==
    SelectSeq(FlattenSeq([n \in DOMAIN Places(program) |-> Declared(program, Places(program)[n])]),
              LAMBDA e : e.name # "_" /\ (Special(program, e.name) => e.kind = "Func" /\ e.name = "main"))
\* The package that an import is of.
PackageOf(program, path) ==
    LET from == program.importer[path]
    IN CASE path = "" -> NoPackage
         [] path = "C" /\ program.fakeC -> Fake("C")
         [] from.result = "complete" -> from.pkg
         [] from.result = "error" -> IF from.pkg = NoPackage THEN Fake(path) ELSE [from.pkg EXCEPT !.fake = TRUE]
         [] OTHER -> NoPackage
LocalName(program, d) == IF d.names[1] = "" THEN PackageOf(program, d.path).name ELSE d.names[1]
IsImported(program, d) ==
    /\ d.k = "Import" /\ PackageOf(program, d.path) # NoPackage /\ LocalName(program, d) # "init"
    /\ ~(d.path = "C" /\ d.names[1] # "")
\* What the block of file f of a call has.
FileEntries(program, c, f) ==
    LET decls == program.calls[c][f].decls
        Of(k) == LET d == decls[k]
                     pkg == PackageOf(program, d.path)
                 IN CASE ~IsImported(program, d) -> <<>>
                      [] LocalName(program, d) = "." -> SetToSeq({Entry(n, <<c, f, k, 1>>, "Dot", pkg) : n \in pkg.exports})
                      [] LocalName(program, d) = "_" -> <<>>
                      [] OTHER -> <<Entry(LocalName(program, d), <<c, f, k, 1>>, "PkgName", pkg)>>
    IN FlattenSeq([k \in DOMAIN decls |-> Of(k)])
FirstOf(entries, name) == SelectInSeq(entries, LAMBDA e : e.name = name)
Doubles(entries) == {entries[i].at : i \in {j \in DOMAIN entries : FirstOf(entries, entries[j].name) < j}}

\* Names that are declared once the files up to call c are: of the package, of a file.
Until(entries, c) == SelectSeq(entries, LAMBDA e : e.at[1] <= c)
FilesOf(program) == {<<c, f>> : c \in DOMAIN program.calls, f \in 1 .. 3}
AllFiles(program) == {p \in FilesOf(program) : p[2] \in DOMAIN program.calls[p[1]]}
\* What a name in a body of file f of a call c denotes.
Denoted(program, c, f, name) ==
    LET file == FileEntries(program, c, f)
        package == Until(PackageEntries(program), c)
    IN CASE FirstOf(file, name) # 0 -> file[FirstOf(file, name)]
         [] FirstOf(package, name) # 0 -> package[FirstOf(package, name)]
         [] name \in Universe -> Entry(name, <<>>, "Universe", NoPackage)
         [] OTHER -> Entry("", <<>>, "", NoPackage)

ImportErrors(program) ==
    LET places == Places(program)
        Of(n) == DeclAt(program, places[n])
        At(n) == places[n] \o <<1>>
        imports == {n \in DOMAIN places : Of(n).k = "Import" /\ Of(n).path # ""}
        first == {n \in imports : ~\E m \in imports : m < n /\ Of(m).path = Of(n).path}
    IN {<<"BrokenImport", At(n)>> : n \in {m \in first : /\ program.importer[Of(m).path].result = "error"
                                                          /\ ~(Of(m).path = "C" /\ program.fakeC)}}
       \cup {<<"ImportCRenamed", At(n)>> : n \in {m \in imports : /\ Of(m).path = "C" /\ Of(m).names[1] # ""
                                                                 /\ PackageOf(program, "C") # NoPackage}}
       \cup {<<"InvalidInitDecl", At(n)>> : n \in {m \in imports : /\ PackageOf(program, Of(m).path) # NoPackage
                                                                  /\ LocalName(program, Of(m)) = "init"
                                                                  /\ ~(Of(m).path = "C" /\ Of(m).names[1] # "")}}
DeclErrors(program) ==
    LET places == Places(program)
        all == FlattenSeq([n \in DOMAIN places |-> Declared(program, places[n])])
        wrong == {i \in DOMAIN all : /\ Special(program, all[i].name)
                                     /\ all[i].kind = "Func" => DeclAt(program, SubSeq(all[i].at, 1, 3)).flag}
        package == PackageEntries(program)
        Conflict(p) == LET file == FileEntries(program, p[1], p[2])
                           known == Until(package, p[1])
                       IN {<<"FileConflict", known[i].at>> : i \in {j \in DOMAIN known : /\ FirstOf(known, known[j].name) = j
                                                                                     /\ FirstOf(file, known[j].name) # 0}}
    IN {<<IF all[i].name = "main" THEN "InvalidMainDecl" ELSE "InvalidInitDecl", all[i].at>> : i \in wrong}
       \cup {<<"DuplicateDecl", at>> : at \in Doubles(package) \cup UNION {Doubles(FileEntries(program, p[1], p[2])) : p \in AllFiles(program)}}
       \cup UNION {Conflict(p) : p \in AllFiles(program)}

\* The type that a method is of: over aliases, with one pointer at most.
Chains(program, c) ==
    LET package == Until(PackageEntries(program), c)
        first == {i \in DOMAIN package : FirstOf(package, package[i].name) = i}
    IN [n \in {package[i].name : i \in first} |->
           LET e == package[FirstOf(package, n)] IN IF e.kind = "Type" THEN DeclAt(program, SubSeq(e.at, 1, 3)) ELSE Value(<<>>, FALSE)]
Stars(mods) == Cardinality({i \in DOMAIN mods : mods[i] = "*"})
BaseOf(program, c, recv) ==
    LET decl == Chains(program, c)
        ways == {w \in UNION {[1 .. n -> {x \in DOMAIN decl : decl[x].k = "Type"}] : n \in 1 .. 3} :
                    /\ w[1] = recv.name /\ ~decl[w[Len(w)]].flag
                    /\ \A i \in 1 .. Len(w) - 1 : decl[w[i]].flag /\ decl[w[i]].of.name = w[i + 1]}
        Pointers(w) == (IF Stars(recv.mods) > 0 THEN 1 ELSE 0)
                       + FoldLeft(LAMBDA n, i : n + Stars(decl[w[i]].of.mods), 0, [i \in 1 .. Len(w) - 1 |-> i])
        ok == {w \in ways : Pointers(w) <= 1}
    IN IF ok = {} THEN "" ELSE LET w == CHOOSE w \in ok : TRUE IN w[Len(w)]
StructFields(program, name) ==
    LET decl == Chains(program, Len(program.calls))
        ways == {w \in UNION {[1 .. n -> {x \in DOMAIN decl : decl[x].k = "Type"}] : n \in 1 .. 3} :
                    /\ w[1] = name /\ decl[w[Len(w)]].of.name = "" /\ decl[w[Len(w)]].of.mods = <<>>
                    /\ \A i \in 1 .. Len(w) - 1 : decl[w[i]].of.name = w[i + 1] /\ decl[w[i]].of.mods = <<>>}
    IN IF ways = {} THEN {} ELSE LET w == CHOOSE w \in ways : TRUE IN decl[w[Len(w)]].of.fields
\* The methods of a type, in order, those that are there again included.
MethodsOf(program, base) ==
    SelectSeq([n \in DOMAIN Places(program) |-> Places(program)[n]],
              LAMBDA p : LET d == DeclAt(program, p)
                         IN d.k = "Method" /\ d.names[1] # "_" /\ BaseOf(program, p[1], d.of) = base)
MethodErrors(program) ==
    LET decl == Chains(program, Len(program.calls))
        Of(base) == LET ms == MethodsOf(program, base)
                        Name(i) == DeclAt(program, ms[i]).names[1]
                        first == {i \in DOMAIN ms : ~\E j \in 1 .. i - 1 : Name(j) = Name(i)}
                    IN {<<"DuplicateMethod", ms[i] \o <<1>>>> : i \in DOMAIN ms \ first}
                       \cup {<<"DuplicateFieldAndMethod", ms[i] \o <<1>>>> : i \in {j \in first : Name(j) \in StructFields(program, base)}}
    IN UNION {Of(base) : base \in {x \in DOMAIN decl : decl[x].k = "Type"}}

\* What bodies use, and imports that none does.
UseErrors(program) ==
    LET places == Places(program)
        uses == {<<n, i>> : n \in DOMAIN places, i \in 1 .. 2}
        real == {u \in uses : u[2] \in DOMAIN DeclAt(program, places[u[1]]).uses}
        UseAt(u) == DeclAt(program, places[u[1]]).uses[u[2]]
        Means(u) == Denoted(program, places[u[1]][1], places[u[1]][2], UseAt(u).x)
        Qualified(u) == UseAt(u).sel # "" /\ Means(u).kind = "PkgName"
        Code(u) == LET e == Means(u)
                   IN CASE Qualified(u) -> IF UseAt(u).sel \in e.pkg.hidden THEN "UnexportedName"
                                           ELSE IF UseAt(u).sel \in e.pkg.exports \/ e.pkg.fake THEN "" ELSE "UndeclaredImportedName"
                        [] e.kind = "PkgName" -> "InvalidPkgUse"
                        [] e.kind = "" -> IF UseAt(u).x = "_" THEN "InvalidBlank" ELSE "UndeclaredName"
                        [] OTHER -> ""
        used == {Means(u).at : u \in {v \in real : Qualified(v) \/ Means(v).kind = "Dot"}}
        Unused(n) == LET d == DeclAt(program, places[n])
                     IN /\ IsImported(program, d) /\ LocalName(program, d) # "_"
                        /\ ~PackageOf(program, d.path).fake /\ places[n] \o <<1>> \notin used
    IN {<<Code(u), places[u[1]] \o <<u[2]>>>> : u \in {v \in real : Code(v) # ""}}
       \cup {<<"UnusedImport", places[n] \o <<1>>>> : n \in {m \in DOMAIN places : Unused(m)}}

\* A name is declared once in the package, over all files and calls, once in a file, and
\* not in both; a method belongs to the type that its receiver names over aliases with one
\* pointer at most, is declared once and is not a field; a used name is what the file, the
\* package or the universe declares; an import is used, by its name or, with a dot, by what
\* it brings in (resolver.go:221-503, decl.go:768). These are the errors, whatever order
\* the files have, a path is imported once, and methods are those that were declared first.
ObjectsAreCollected(files) ==
    LET program == OwnFiles(files)
        c == Checked(files)
        Reversed(calls) == [files EXCEPT !.calls = <<Reverse(calls[1])>>]
        decl == Chains(program, Len(program.calls))
    IN /\ c.errors = FileErrors(files) \cup ImportErrors(program) \cup DeclErrors(program) \cup MethodErrors(program) \cup UseErrors(program)
       /\ Len(program.calls) = 1 => (c.errors = {} <=> Checked(Reversed(files.calls)).errors = {})
       /\ \A n, m \in DOMAIN c.asked : c.asked[n] = c.asked[m] /\ n < m => program.importer[c.asked[n]].result = "incomplete"
       /\ Cardinality(ToSet(c.pkgImports)) = Len(c.pkgImports)
       /\ \A base \in {x \in DOMAIN decl : decl[x].k = "Type" /\ ~decl[x].flag} :
             LET of == MethodsOf(program, base)
                 first == SelectSeq([i \in DOMAIN of |-> i],
                                    LAMBDA i : ~\E j \in 1 .. i - 1 : DeclAt(program, of[j]).names[1] = DeclAt(program, of[i]).names[1])
             IN [i \in DOMAIN c.bound[base] |-> SubSeq(c.bound[base][i].at, 1, 3)] = [i \in DOMAIN first |-> of[first[i]]]
==============================================================================
