---------------------------- MODULE DelegenProofs ----------------------------
(***************************************************************************)
(* For every header, symbols file and library, and however often runs are  *)
(* killed: delegen.py finds the types that the API leads to and no others, *)
(* its Makefile lies beside whole files of the same run, a library that is *)
(* guarded with the callbacks file of its delegate has every call of the   *)
(* API's types guarded and finds a thunk for every guard, and what either  *)
(* side passes arrives at the other.                                       *)
(***************************************************************************)
EXTENDS GuardThunks, TLAPS

allVars == <<vars, outVars, guardVars>>

-----------------------------------------------------------------------------
(* Sequences as sets.                                                      *)

LEMMA RangeOfEmpty == Range(<< >>) = {}
BY DEF Range

LEMMA RangeIn ==
  ASSUME NEW S, NEW s \in Seq(S)
  PROVE  Range(s) \subseteq S
BY DEF Range

LEMMA RangeOfAppend ==
  ASSUME NEW S, NEW s \in Seq(S), NEW e \in S
  PROVE  Append(s, e) \in Seq(S) /\ Range(Append(s, e)) = Range(s) \cup {e}
<1> DEFINE r == Append(s, e)
<1>1. r \in Seq(S) /\ DOMAIN r = 1 .. Len(s) + 1 /\ r[Len(s) + 1] = e /\ \A n \in 1 .. Len(s) : r[n] = s[n]
  OBVIOUS
<1>2. Range(r) \subseteq Range(s) \cup {e}
  BY <1>1 DEF Range
<1>3. Range(s) \cup {e} \subseteq Range(r)
  BY <1>1 DEF Range
<1> QED
  BY <1>1, <1>2, <1>3

LEMMA RangeOfConcat ==
  ASSUME NEW S, NEW s \in Seq(S), NEW t \in Seq(S)
  PROVE  s \o t \in Seq(S) /\ Range(s \o t) = Range(s) \cup Range(t)
<1> DEFINE r == s \o t
<1>1. /\ r \in Seq(S) /\ DOMAIN r = 1 .. Len(s) + Len(t)
      /\ \A n \in 1 .. Len(s) : r[n] = s[n]
      /\ \A n \in 1 .. Len(t) : r[Len(s) + n] = t[n]
  OBVIOUS
<1>2. Range(r) \subseteq Range(s) \cup Range(t)
  <2> SUFFICES ASSUME NEW n \in 1 .. Len(s) + Len(t) PROVE r[n] \in Range(s) \cup Range(t)
    BY <1>1 DEF Range
  <2>1. CASE n \in 1 .. Len(s)
    BY <1>1, <2>1 DEF Range
  <2>2. CASE n \notin 1 .. Len(s)
    <3>1. n - Len(s) \in 1 .. Len(t) /\ Len(s) + (n - Len(s)) = n
      BY <2>2
    <3> QED
      BY <1>1, <3>1 DEF Range
  <2> QED
    BY <2>1, <2>2
<1>3. Range(s) \cup Range(t) \subseteq Range(r)
  <2>1. ASSUME NEW n \in 1 .. Len(s) PROVE s[n] \in Range(r)
    <3>1. n \in 1 .. Len(s) + Len(t)
      OBVIOUS
    <3> QED
      BY <1>1, <3>1 DEF Range
  <2>2. ASSUME NEW n \in 1 .. Len(t) PROVE t[n] \in Range(r)
    <3>1. Len(s) + n \in 1 .. Len(s) + Len(t)
      OBVIOUS
    <3> QED
      BY <1>1, <3>1 DEF Range
  <2>3. DOMAIN s = 1 .. Len(s) /\ DOMAIN t = 1 .. Len(t)
    OBVIOUS
  <2>4. Range(s) \subseteq Range(r)
    BY <2>1, <2>3 DEF Range
  <2>5. Range(t) \subseteq Range(r)
    BY <2>2, <2>3 DEF Range
  <2> QED
    BY <2>4, <2>5
<1> QED
  BY <1>1, <1>2, <1>3

LEMMA TailIs ==
  ASSUME NEW S, NEW s \in Seq(S), s # << >>
  PROVE  /\ Head(s) = s[1] /\ Head(s) \in S /\ Len(s) \in Nat \ {0}
         /\ Tail(s) \in Seq(S) /\ Len(Tail(s)) = Len(s) - 1
         /\ \A j \in 1 .. Len(Tail(s)) : Tail(s)[j] = s[j + 1]
OBVIOUS

LEMMA RangeOfTail ==
  ASSUME NEW S, NEW s \in Seq(S), s # << >>
  PROVE  /\ Head(s) \in S /\ Tail(s) \in Seq(S)
         /\ Range(s) = {Head(s)} \cup Range(Tail(s))
<1>1. /\ Head(s) = s[1] /\ Tail(s) \in Seq(S) /\ Len(s) \in Nat \ {0}
      /\ DOMAIN s = 1 .. Len(s) /\ DOMAIN Tail(s) = 1 .. Len(s) - 1
      /\ \A n \in 1 .. Len(s) - 1 : Tail(s)[n] = s[n + 1]
  OBVIOUS
<1>2. Range(s) \subseteq {Head(s)} \cup Range(Tail(s))
  <2> SUFFICES ASSUME NEW n \in 1 .. Len(s), n # 1 PROVE s[n] \in Range(Tail(s))
    BY <1>1 DEF Range
  <2>1. n - 1 \in 1 .. Len(s) - 1 /\ (n - 1) + 1 = n
    BY <1>1
  <2> QED
    BY <1>1, <2>1 DEF Range
<1>3. Range(Tail(s)) \subseteq Range(s)
  <2> SUFFICES ASSUME NEW n \in 1 .. Len(s) - 1 PROVE s[n + 1] \in Range(s)
    BY <1>1 DEF Range
  <2>1. n + 1 \in 1 .. Len(s)
    BY <1>1
  <2> QED
    BY <1>1, <2>1 DEF Range
<1>4. 1 \in 1 .. Len(s)
  BY <1>1
<1>5. Head(s) \in S /\ Head(s) \in Range(s)
  BY <1>1, <1>4 DEF Range
<1> QED
  BY <1>1, <1>2, <1>3, <1>5

-----------------------------------------------------------------------------
(* The scan.                                                               *)

\* The n-th declaration is the first of a wanted name.
IsTaken(w, n) == w.decls[n].name \in w.symbols /\ \A k \in 1 .. n - 1 : w.decls[k].name # w.decls[n].name

\* What is wanted of the first n declarations.
WantedOf(w, n) == UNION {Range(w.decls[m].types) : m \in {m \in DOMAIN w.decls : m <= n /\ IsTaken(w, m)}}

Looked == Len(world.decls) - Len(todo)

\* The declarations still to come are the last ones, and the symbols that
\* remain those no earlier declaration has.
DeclsInv ==
  /\ world \in World
  /\ todo \in Seq([name : STRING, types : Seq(Types)])
  /\ Len(todo) <= Len(world.decls)
  /\ \A j \in 1 .. Len(todo) : todo[j] = world.decls[Looked + j]
  /\ remaining = {s \in world.symbols : \A k \in 1 .. Looked : world.decls[k].name # s}

\* Every type that is wanted, or that a visited one leads to, was visited or is
\* on the stack; and nothing is there that is not led to.
GraphInv ==
  /\ stack \in Seq(Types) /\ all \in Seq(Types)
  /\ Wanted \subseteq Visited \cup Range(stack)
  /\ \A t \in Visited : Range(world.kids[t]) \subseteq Visited \cup Range(stack)
  /\ \A S \in SUBSET Types :
       Wanted \subseteq S /\ ClosedUnder(S) => Visited \cup Range(stack) \subseteq S

ScanInv == DeclsInv /\ GraphInv

LEMMA WantedIs ==
  ASSUME DeclsInv
  PROVE  Wanted = WantedOf(world, Looked) /\ Looked \in 0 .. Len(world.decls)
BY DEF DeclsInv, Wanted, WantedOf, IsTaken, Looked, World

LEMMA FreshScan ==
  ASSUME world \in World, todo = world.decls, remaining = world.symbols,
         stack = << >>, all = << >>
  PROVE  ScanInv
<1>1. world.decls \in Seq([name : STRING, types : Seq(Types)])
  BY DEF World
<1>2. Looked = 0 /\ Len(world.decls) - Len(todo) = 0
  BY <1>1 DEF Looked
<1>3. DeclsInv
  BY <1>1, <1>2 DEF DeclsInv
<1>4. Wanted = {}
  BY <1>1, <1>2 DEF Wanted
<1>5. Visited = {} /\ Range(stack) = {}
  BY RangeOfEmpty DEF Visited
<1> QED
  BY <1>3, <1>4, <1>5 DEF ScanInv, GraphInv

\* The same of a next state.
LEMMA FreshScanNext ==
  ASSUME world' \in World, todo' = world'.decls, remaining' = world'.symbols,
         stack' = << >>, all' = << >>
  PROVE  ScanInv'
<1>1. world'.decls \in Seq([name : STRING, types : Seq(Types)])
  BY DEF World
<1>2. Looked' = 0 /\ Len(world'.decls) - Len(todo') = 0
  BY <1>1 DEF Looked
<1>3. DeclsInv'
  BY <1>1, <1>2 DEF DeclsInv
<1>4. Wanted' = {}
  BY <1>1, <1>2 DEF Wanted
<1>5. Visited' = {} /\ Range(stack') = {}
  BY RangeOfEmpty DEF Visited
<1> QED
  BY <1>3, <1>4, <1>5 DEF ScanInv, GraphInv

\* One more declaration is looked at: what it wants is new.
LEMMA WantedNext ==
  ASSUME NEW w \in World, NEW n \in Nat, n + 1 \in DOMAIN w.decls
  PROVE  WantedOf(w, n + 1) =
           WantedOf(w, n) \cup (IF IsTaken(w, n + 1) THEN Range(w.decls[n + 1].types) ELSE {})
<1>1. \A m \in DOMAIN w.decls : m <= n + 1 <=> m <= n \/ m = n + 1
  BY DEF World
<1> QED
  BY <1>1 DEF WantedOf

\* The declaration that is next, and whether it is taken.
LEMMA NextDecl ==
  ASSUME DeclsInv, todo # << >>
  PROVE  /\ Looked \in Nat /\ Looked + 1 \in DOMAIN world.decls /\ Head(todo) = world.decls[Looked + 1]
         /\ Head(todo).name \in remaining <=> IsTaken(world, Looked + 1)
<1> DEFINE n    == Looked
           decl == Head(todo)
           D    == [name : STRING, types : Seq(Types)]
<1>1. todo \in Seq(D) /\ world.decls \in Seq(D) /\ Len(todo) <= Len(world.decls)
  BY DEF DeclsInv, World
<1>2. decl = todo[1] /\ Len(todo) \in Nat \ {0} /\ Len(world.decls) \in Nat
  <2> HIDE DEF D
  <2> QED
    BY <1>1, TailIs
<1>3. n \in Nat /\ n + 1 \in DOMAIN world.decls /\ decl = world.decls[n + 1]
  BY <1>1, <1>2 DEF Looked, DeclsInv
<1>4. remaining = {s \in world.symbols : \A k \in 1 .. n : world.decls[k].name # s}
  BY DEF DeclsInv
<1>5. (n + 1) - 1 = n
  BY <1>3
<1>6. IsTaken(world, n + 1) <=>
        decl.name \in world.symbols /\ \A k \in 1 .. n : world.decls[k].name # decl.name
  BY <1>3, <1>5 DEF IsTaken
<1>7. decl.name \in remaining <=> IsTaken(world, n + 1)
  <2> HIDE DEF n, decl
  <2> QED
    BY <1>4, <1>6
<1> QED
  BY <1>3, <1>7

LEMMA TakeDeclStep ==
  ASSUME ScanInv, TakeDecl
  PROVE  ScanInv'
<1> DEFINE n    == Looked
           decl == Head(todo)
<1>1. /\ todo # << >> /\ todo' = Tail(todo) /\ stack = << >>
      /\ world' = world /\ all' = all /\ world \in World
      /\ todo \in Seq([name : STRING, types : Seq(Types)])
  BY DEF TakeDecl, ScanInv, DeclsInv
<1>2. /\ todo' \in Seq([name : STRING, types : Seq(Types)])
      /\ decl \in [name : STRING, types : Seq(Types)]
      /\ Len(todo) \in Nat \ {0} /\ Len(todo') = Len(todo) - 1
      /\ decl = todo[1] /\ \A j \in 1 .. Len(todo') : todo'[j] = todo[j + 1]
  <2> DEFINE D == [name : STRING, types : Seq(Types)]
  <2>1. todo \in Seq(D) /\ todo # << >> /\ todo' = Tail(todo)
    BY <1>1
  <2> HIDE DEF D
  <2>2. /\ todo' \in Seq(D) /\ decl \in D
        /\ Len(todo) \in Nat \ {0} /\ Len(todo') = Len(todo) - 1
        /\ decl = todo[1] /\ \A j \in 1 .. Len(todo') : todo'[j] = todo[j + 1]
    BY <2>1, TailIs
  <2> QED
    BY <2>2 DEF D
<1>3. world.decls \in Seq([name : STRING, types : Seq(Types)]) /\ Len(world.decls) \in Nat
  BY <1>1 DEF World
<1>4. n \in Nat /\ Looked' = n + 1 /\ n + 1 \in DOMAIN world.decls /\ decl = world.decls[n + 1]
  BY <1>1, <1>2, <1>3 DEF Looked, ScanInv, DeclsInv
<1>5. decl.name \in remaining <=> IsTaken(world, n + 1)
  BY <1>1, NextDecl DEF ScanInv
<1>6. Len(todo') <= Len(world'.decls) /\ \A j \in 1 .. Len(todo') : todo'[j] = world'.decls[Looked' + j]
  <2>1. Len(todo') <= Len(world.decls)
    BY <1>2, <1>3 DEF ScanInv, DeclsInv
  <2>2. ASSUME NEW j \in 1 .. Len(todo') PROVE todo'[j] = world.decls[n + 1 + j]
    <3>1. todo'[j] = todo[j + 1] /\ j + 1 \in 1 .. Len(todo)
      BY <1>2
    <3>2. todo[j + 1] = world.decls[n + (j + 1)]
      BY <3>1 DEF ScanInv, DeclsInv
    <3> QED
      BY <1>4, <3>1, <3>2
  <2> QED
    BY <1>1, <1>4, <2>1, <2>2
<1>7. remaining' = {s \in world.symbols : \A k \in 1 .. n + 1 : world.decls[k].name # s}
  <2>1. remaining' = remaining \ {decl.name}
    BY DEF TakeDecl
  <2>2. remaining = {s \in world.symbols : \A k \in 1 .. n : world.decls[k].name # s}
    BY DEF ScanInv, DeclsInv
  <2>3. 1 .. n + 1 = (1 .. n) \cup {n + 1}
    BY <1>4
  <2> QED
    BY <1>4, <2>1, <2>2, <2>3
<1>8. DeclsInv'
  BY <1>1, <1>2, <1>4, <1>6, <1>7 DEF DeclsInv
<1>9. stack' \in Seq(Types) /\ all' \in Seq(Types)
      /\ Range(stack') = IF IsTaken(world, n + 1) THEN Range(decl.types) ELSE {}
  BY <1>1, <1>2, <1>5, RangeOfEmpty DEF TakeDecl, Roots, ScanInv, GraphInv
<1>10. Wanted' = Wanted \cup Range(stack')
  <2>1. Wanted = WantedOf(world, n)
    BY WantedIs DEF ScanInv
  <2>2. Len(world.decls) - Len(todo') = n + 1
    BY <1>1, <1>4 DEF Looked
  <2>3. Wanted' = WantedOf(world, n + 1)
    BY <1>1, <2>2 DEF Wanted, WantedOf, IsTaken
  <2>4. WantedOf(world, n + 1) = WantedOf(world, n) \cup Range(stack')
    <3> HIDE DEF n
    <3>1. WantedOf(world, n + 1) = WantedOf(world, n) \cup (IF IsTaken(world, n + 1) THEN Range(world.decls[n + 1].types) ELSE {})
      BY <1>1, <1>4, WantedNext
    <3> QED
      BY <1>4, <1>9, <3>1
  <2> QED
    BY <2>1, <2>3, <2>4
<1>11. Visited' = Visited /\ Range(stack) = {}
  BY <1>1, RangeOfEmpty DEF Visited
<1>12. GraphInv'
  BY <1>1, <1>9, <1>10, <1>11 DEF ScanInv, GraphInv, ClosedUnder
<1> QED
  BY <1>8, <1>12 DEF ScanInv

LEMMA ScanStepped ==
  ASSUME ScanInv, Scan
  PROVE  ScanInv'
<1> DEFINE t == Head(stack)
<1>1. /\ world' = world /\ todo' = todo /\ remaining' = remaining /\ world \in World
      /\ stack \in Seq(Types) /\ all \in Seq(Types) /\ stack # << >>
  BY DEF Scan, ScanInv, DeclsInv, GraphInv
<1>2. t \in Types /\ Tail(stack) \in Seq(Types) /\ Range(stack) = {t} \cup Range(Tail(stack))
  BY <1>1, RangeOfTail
<1>3. DeclsInv' /\ Wanted' = Wanted
  BY <1>1 DEF ScanInv, DeclsInv, Looked, Wanted
<1>4. CASE t \in Visited
  <2>1. stack' = Tail(stack) /\ all' = all /\ Visited' = Visited
    BY <1>4 DEF Scan, Visited
  <2>2. Visited' \cup Range(stack') = Visited \cup Range(stack)
    BY <1>2, <1>4, <2>1
  <2> QED
    BY <1>1, <1>2, <1>3, <2>1, <2>2 DEF ScanInv, GraphInv, ClosedUnder
<1>5. CASE t \notin Visited
  <2>1. all' = Append(all, t) /\ stack' = world.kids[t] \o Tail(stack) /\ world.kids[t] \in Seq(Types)
    BY <1>1, <1>2, <1>5 DEF Scan, Visited, Kids, World
  <2>2. all' \in Seq(Types) /\ Visited' = Visited \cup {t}
    BY <1>1, <1>2, <2>1, RangeOfAppend DEF Visited
  <2>3. stack' \in Seq(Types) /\ Range(stack') = Range(world.kids[t]) \cup Range(Tail(stack))
    <3> DEFINE kids == world.kids[t]
               rest == Tail(stack)
    <3>1. kids \in Seq(Types) /\ rest \in Seq(Types) /\ stack' = kids \o rest
      BY <1>2, <2>1
    <3> HIDE DEF kids, rest
    <3>2. stack' \in Seq(Types) /\ Range(stack') = Range(kids) \cup Range(rest)
      BY <3>1, RangeOfConcat
    <3> QED
      BY <3>2 DEF kids, rest
  <2>4. Visited' \cup Range(stack') = Visited \cup Range(stack) \cup Range(world.kids[t])
    BY <1>2, <2>2, <2>3
  <2>5. \A u \in Visited' : Range(world.kids[u]) \subseteq Visited' \cup Range(stack')
    BY <2>2, <2>4 DEF ScanInv, GraphInv
  <2>6. ASSUME NEW S \in SUBSET Types, Wanted \subseteq S, ClosedUnder(S)
        PROVE  Visited' \cup Range(stack') \subseteq S
    <3>1. Visited \cup Range(stack) \subseteq S
      BY <2>6 DEF ScanInv, GraphInv
    <3>2. Range(world.kids[t]) \subseteq S
      BY <1>2, <2>6, <3>1 DEF ClosedUnder
    <3> QED
      BY <2>4, <3>1, <3>2
  <2>7. Wanted' \subseteq Visited' \cup Range(stack')
    BY <1>3, <2>4 DEF ScanInv, GraphInv
  <2> QED
    BY <1>1, <1>3, <2>2, <2>3, <2>5, <2>6, <2>7 DEF ScanInv, GraphInv, ClosedUnder
<1> QED
  BY <1>4, <1>5

LEMMA ScanUntouched ==
  ASSUME ScanInv, UNCHANGED <<world, todo, remaining, stack, all>>
  PROVE  ScanInv'
<1>1. Looked' = Looked /\ Wanted' = Wanted /\ Visited' = Visited
  BY DEF Looked, Wanted, Visited
<1>2. DeclsInv'
  BY <1>1 DEF ScanInv, DeclsInv
<1>3. \A S : ClosedUnder(S)' <=> ClosedUnder(S)
  BY DEF ClosedUnder
<1>4. GraphInv'
  BY <1>1, <1>3 DEF ScanInv, GraphInv
<1> QED
  BY <1>2, <1>4 DEF ScanInv

-----------------------------------------------------------------------------
(* The files.                                                              *)

GeneratedFiles == {"declarations", "guest", "host", "callbacks"}

\* Files that were closed hold what this run has written; only the Makefile is
\* opened again, behind all others, and only then it becomes new.
FilesInv ==
  /\ dir \in [Outputs -> Contents]
  /\ opened \in Outputs \cup {"none"} /\ written \subseteq Outputs
  /\ \A f \in written \ {opened} : (f \in GeneratedFiles => dir[f] = "new") /\ (f = "sources" => dir[f] = "copied")
  /\ opened # "none" => dir[opened] = "torn"
  /\ opened \in written => opened = "Makefile" /\ Outputs \subseteq written
  /\ dir["Makefile"] = "new" => Outputs \subseteq written /\ opened = "none"

LEMMA OutputsAre ==
  /\ Range(Generated) = GeneratedFiles
  /\ Outputs = GeneratedFiles \cup {"sources", "Makefile"}
  /\ "none" \notin Outputs
BY DEF Range, Generated, Outputs, Templates, GeneratedFiles

LEMMA DueIs ==
  ASSUME NEW f \in Outputs, Due(f)
  PROVE  \/ f \in Outputs \ written
         \/ f = "Makefile" /\ Outputs \subseteq written /\ dir[f] = "copied"
BY OutputsAre DEF Due, Outputs, Templates

LEMMA OpenFileStep ==
  ASSUME FilesInv, OpenFile
  PROVE  FilesInv'
<1>1. PICK f \in Outputs : Due(f) /\ opened' = f /\ dir' = [dir EXCEPT ![f] = "torn"]
  BY DEF OpenFile
<1>2. opened = "none" /\ written' = written
  BY DEF OpenFile
<1>3. dir["Makefile"] # "new"
  BY <1>1, DueIs DEF FilesInv
<1>4. f \in written => f = "Makefile" /\ Outputs \subseteq written
  BY <1>1, DueIs
<1>5. dir' \in [Outputs -> Contents] /\ dir'[f] = "torn" /\ \A g \in Outputs \ {f} : dir'[g] = dir[g]
  BY <1>1 DEF FilesInv, Contents
<1>6. "Makefile" \in Outputs /\ "none" \notin Outputs
  BY OutputsAre
<1> QED
  BY <1>1, <1>2, <1>3, <1>4, <1>5, <1>6 DEF FilesInv

LEMMA CloseFileStep ==
  ASSUME FilesInv, CloseFile
  PROVE  FilesInv'
<1> DEFINE f == opened
<1>1. /\ f \in Outputs /\ opened' = "none" /\ written' = written \cup {f}
      /\ dir' = [dir EXCEPT ![f] = IF f \in Templates \ written THEN "copied" ELSE "new"]
  BY DEF CloseFile, FilesInv
<1>2. /\ dir' \in [Outputs -> Contents]
      /\ dir'[f] = IF f \in Templates \ written THEN "copied" ELSE "new"
      /\ \A g \in Outputs \ {f} : dir'[g] = dir[g]
  BY <1>1 DEF FilesInv, Contents
<1>3. f \in written => f = "Makefile" /\ Outputs \subseteq written
  BY DEF FilesInv
<1>4. ("Makefile" \in Templates /\ "sources" \in Templates) /\ GeneratedFiles \cap Templates = {}
      /\ "Makefile" \in Outputs /\ "none" \notin Outputs
  BY OutputsAre DEF GeneratedFiles, Templates
<1>5. \A g \in written' : (g \in GeneratedFiles => dir'[g] = "new") /\ (g = "sources" => dir'[g] = "copied")
  <2> SUFFICES ASSUME NEW g \in written'
               PROVE  (g \in GeneratedFiles => dir'[g] = "new") /\ (g = "sources" => dir'[g] = "copied")
    OBVIOUS
  <2>1. CASE g = f
    BY <1>2, <1>3, <1>4, <2>1
  <2>2. CASE g # f
    <3>1. g \in written /\ g \in Outputs \ {f}
      BY <1>1, <2>2 DEF FilesInv
    <3> QED
      BY <1>2, <3>1 DEF FilesInv
  <2> QED
    BY <2>1, <2>2
<1>6. dir'["Makefile"] = "new" => Outputs \subseteq written'
  BY <1>1, <1>2, <1>3, <1>4 DEF FilesInv
<1> QED
  BY <1>1, <1>2, <1>4, <1>5, <1>6 DEF FilesInv

-----------------------------------------------------------------------------
(* The guards.                                                             *)

\* Guards are begun only behind the scan; with a callbacks file, each is for a
\* signature in it.
GuardsInv ==
  /\ outcome # "none" \/ written # {} \/ opened # "none" => over
  /\ outcome = "none" => guards = << >> /\ callbacks_set = {}
  /\ callbacks_set # {} =>
       /\ callbacks_set = CallbacksFile
       /\ \A n \in DOMAIN guards : guards[n].sign \in callbacks_set
       /\ outcome # "aborted"

Inv == ScanInv /\ FilesInv /\ GuardsInv

LEMMA ThunkOfListed ==
  ASSUME NEW sign \in CallbacksFile
  PROVE  Thunks(sign) # {}
BY DEF CallbacksFile, Thunks, CallbackForeach

LEMMA GuardSteps ==
  ASSUME GuardsInv, GuardStep
  PROVE  GuardsInv'
<1>0. UNCHANGED <<vars, outVars>>
  BY DEF GuardStep, StartGuarding, GuardCall, LoadLibrary
<1>1. /\ over' = over /\ stack' = stack /\ todo' = todo /\ written' = written /\ opened' = opened
      /\ CallbacksFile' = CallbacksFile
  BY <1>0 DEF vars, outVars, over, CallbacksFile, Signature, ReducedType, Ellipsis
<1>2. CASE StartGuarding
  <2>1. over
    BY <1>2, OutputsAre DEF StartGuarding, Written, GuardsInv, GeneratedFiles
  <2>2. guards' = << >> /\ outcome' = "guarding" /\ callbacks_set' \in {CallbacksFile, {}}
    BY <1>2 DEF StartGuarding, GuardsInv
  <2> QED
    BY <1>1, <2>1, <2>2 DEF GuardsInv
<1>3. CASE GuardCall
  BY <1>1, <1>3 DEF GuardCall, GuardsInv, Listed
<1>4. CASE LoadLibrary
  BY <1>1, <1>4, ThunkOfListed DEF LoadLibrary, GuardsInv
<1> QED
  BY <1>2, <1>3, <1>4 DEF GuardStep

LEMMA DelegenSteps ==
  ASSUME Inv, DelegenStep, UNCHANGED guardVars
  PROVE  Inv'
<1>1. CASE ScanStep /\ UNCHANGED outVars
  <2>1. ScanInv'
    <3>1. CASE Collect
      BY <1>1, <3>1, ScanUntouched DEF Collect, Inv
    <3> QED
      BY <1>1, <3>1, TakeDeclStep, ScanStepped DEF ScanStep, Inv
  <2>2. FilesInv'
    BY <1>1 DEF Inv, FilesInv, outVars, Outputs
  <2>3. ~ over /\ outcome = "none" /\ written = {} /\ opened = "none"
    <3>1. all \in Seq(Types) /\ Len(all) \in Nat
      BY DEF Inv, ScanInv, GraphInv
    <3>2. ~ over
      <4>1. CASE Collect
        <5>1. looked < Len(all)
          BY <4>1 DEF Collect
        <5>2. looked # Len(all)
          BY <3>1, <5>1
        <5> QED
          BY <5>2 DEF over
      <4>2. CASE TakeDecl \/ Scan
        BY <4>2 DEF TakeDecl, Scan, over
      <4> QED
        BY <1>1, <4>1, <4>2 DEF ScanStep
    <3> QED
      BY <3>2 DEF Inv, GuardsInv
  <2>4. GuardsInv'
    <3>1. /\ UNCHANGED <<written, opened, outcome, guards, callbacks_set>>
          /\ guards = << >> /\ callbacks_set = {}
      BY <1>1, <2>3 DEF outVars, guardVars, Inv, GuardsInv
    <3> QED
      BY <2>3, <3>1 DEF GuardsInv
  <2> QED
    BY <2>1, <2>2, <2>4 DEF Inv
<1>2. CASE OpenFile \/ CloseFile
  <2>1. UNCHANGED vars /\ over
    BY <1>2 DEF OpenFile, CloseFile, Inv, GuardsInv
  <2>2. ScanInv'
    BY <2>1, ScanUntouched DEF Inv, vars
  <2>3. FilesInv'
    BY <1>2, OpenFileStep, CloseFileStep DEF Inv
  <2>4. CallbacksFile' = CallbacksFile
    BY <2>1 DEF vars, CallbacksFile, Signature, ReducedType, Ellipsis
  <2>5. GuardsInv'
    BY <2>1, <2>4 DEF vars, over, guardVars, Inv, GuardsInv
  <2> QED
    BY <2>2, <2>3, <2>5 DEF Inv
<1> QED
  BY <1>1, <1>2 DEF DelegenStep

LEMMA RepeatStep ==
  ASSUME Inv, Repeat
  PROVE  Inv'
<1>1. /\ RunAgain /\ outcome = "none" /\ UNCHANGED guardVars
  BY DEF Repeat
<1>2. /\ world' \in World /\ todo' = world'.decls /\ remaining' = world'.symbols
      /\ stack' = << >> /\ all' = << >>
  BY <1>1 DEF RunAgain, Inv, ScanInv, DeclsInv
<1>3. ScanInv'
  BY <1>2, FreshScanNext
<1>4. FilesInv'
  BY <1>1, OutputsAre DEF RunAgain, Inv, FilesInv, Contents
<1>5. GuardsInv'
  BY <1>1, <1>2 DEF RunAgain, guardVars, Inv, GuardsInv
<1> QED
  BY <1>3, <1>4, <1>5 DEF Inv

LEMMA InvStart == GuardInit => Inv
<1> SUFFICES ASSUME GuardInit PROVE Inv
  OBVIOUS
<1>1. ScanInv
  BY WorldsAssumption, FreshScan DEF GuardInit, DelegenInit, Init
<1>2. FilesInv
  BY OutputsAre DEF GuardInit, DelegenInit, FilesInv, Contents
<1>3. GuardsInv
  BY DEF GuardInit, DelegenInit, Init, GuardsInv
<1> QED
  BY <1>1, <1>2, <1>3 DEF Inv

LEMMA InvNext == Inv /\ [ToolsNext]_allVars => Inv'
<1> SUFFICES ASSUME Inv, [ToolsNext]_allVars PROVE Inv'
  OBVIOUS
<1>1. CASE DelegenStep /\ UNCHANGED guardVars
  BY <1>1, DelegenSteps
<1>2. CASE GuardStep
  <2>1. UNCHANGED <<vars, outVars>>
    BY <1>2 DEF GuardStep, StartGuarding, GuardCall, LoadLibrary
  <2>2. ScanInv'
    BY <2>1, ScanUntouched DEF vars, Inv
  <2>3. FilesInv'
    BY <2>1 DEF outVars, Inv, FilesInv, Outputs
  <2> QED
    BY <1>2, <2>2, <2>3, GuardSteps DEF Inv
<1>3. CASE Repeat
  BY <1>3, RepeatStep
<1>4. CASE UNCHANGED allVars
  <2>1. UNCHANGED <<vars, outVars, guardVars>>
    BY <1>4 DEF allVars
  <2>2. ScanInv'
    BY <2>1, ScanUntouched DEF vars, Inv
  <2>3. FilesInv'
    BY <2>1 DEF outVars, Inv, FilesInv, Outputs
  <2>4. CallbacksFile' = CallbacksFile
    BY <2>1 DEF vars, CallbacksFile, Signature, ReducedType, Ellipsis
  <2>5. GuardsInv'
    BY <2>1, <2>4 DEF vars, outVars, over, guardVars, Inv, GuardsInv
  <2> QED
    BY <2>2, <2>3, <2>5 DEF Inv
<1> QED
  BY <1>1, <1>2, <1>3, <1>4 DEF ToolsNext, Work, Stop, allVars

LEMMA Always == ToolsSpec => []Inv
BY InvStart, InvNext, PTL DEF ToolsSpec, allVars

-----------------------------------------------------------------------------
(* The theorems.                                                           *)

\* Whatever graph the types of a header are, scan_types finds those that the
\* wanted functions lead to, and no others.
THEOREM ScanFindsClosure == ToolsSpec => []ScanIsClosure
<1>1. Inv => ScanIsClosure
  <2> SUFFICES ASSUME Inv, stack = << >>
               PROVE  /\ Wanted \subseteq Visited /\ ClosedUnder(Visited)
                      /\ \A S \in SUBSET Visited : Wanted \subseteq S /\ ClosedUnder(S) => S = Visited
    BY DEF ScanIsClosure
  <2>1. Visited \cup Range(stack) = Visited
    BY RangeOfEmpty
  <2>2. Visited \subseteq Types
    BY RangeIn DEF Inv, ScanInv, GraphInv, Visited
  <2>3. Wanted \subseteq Visited /\ ClosedUnder(Visited)
    BY <2>1 DEF Inv, ScanInv, GraphInv, ClosedUnder
  <2>4. ASSUME NEW S \in SUBSET Visited, Wanted \subseteq S, ClosedUnder(S) PROVE S = Visited
    BY <2>1, <2>2, <2>4 DEF Inv, ScanInv, GraphInv
  <2> QED
    BY <2>3, <2>4
<1> QED
  BY <1>1, Always, PTL

\* However often delegen.py is killed and run again, a new Makefile lies beside
\* whole files of its own run.
THEOREM MakefileIsLast == ToolsSpec => []MakefileLast
<1>1. Inv => MakefileLast
  BY OutputsAre DEF Inv, FilesInv, MakefileLast, GeneratedFiles, Generated
<1> QED
  BY <1>1, Always, PTL

\* cfiadd.py with the callbacks file of the delegate: __X64NC_Initialize never
\* aborts the process that loads the library.
THEOREM GuardsFindThunks == ToolsSpec => [](callbacks_set # {} => outcome # "aborted")
<1>1. Inv => (callbacks_set # {} => outcome # "aborted")
  BY DEF Inv, GuardsInv
<1> QED
  BY <1>1, Always, PTL

-----------------------------------------------------------------------------
(* The callbacks and the functions of a delegate.                          *)

\* Every function among the types that were looked at has a callback of its
\* signature, and only one.
CallbacksInv ==
  /\ looked \in 0 .. Len(all) /\ (looked > 0 => stack = << >> /\ todo = << >>)
  /\ callbacks \in Seq(Types)
  /\ \A n \in DOMAIN callbacks : IsFunction(callbacks[n])
  /\ \A m, n \in DOMAIN callbacks : Signature(callbacks[m]) = Signature(callbacks[n]) => m = n
  /\ \A k \in 1 .. looked : IsFunction(all[k]) =>
       \E n \in DOMAIN callbacks : Signature(callbacks[n]) = Signature(all[k])

\* A function has the name of the declaration it was taken from.
FunctionsInv ==
  /\ functions \in Seq(STRING)
  /\ \A n \in DOMAIN functions : \E k \in DOMAIN world.decls :
       functions[n] = world.decls[k].name /\ IsTaken(world, k)

CollectedInv == world \in Worlds /\ CallbacksInv /\ FunctionsInv

LEMMA SameWorld ==
  ASSUME world' = world
  PROVE  /\ \A t : Signature(t)' = Signature(t) /\ (IsFunction(t)' <=> IsFunction(t))
         /\ \A t : ReducedType(t)' = ReducedType(t) /\ Ellipsis(t)' = Ellipsis(t)
BY DEF Signature, IsFunction, ReducedType, Ellipsis

LEMMA AppendIs ==
  ASSUME NEW S, NEW s \in Seq(S), NEW e \in S
  PROVE  /\ Append(s, e) \in Seq(S) /\ DOMAIN s = 1 .. Len(s) /\ Len(s) \in Nat
         /\ DOMAIN Append(s, e) = DOMAIN s \cup {Len(s) + 1} /\ Len(s) + 1 \notin DOMAIN s
         /\ Append(s, e)[Len(s) + 1] = e /\ \A n \in DOMAIN s : Append(s, e)[n] = s[n]
OBVIOUS

LEMMA CollectStep ==
  ASSUME Inv, CollectedInv, Collect
  PROVE  CollectedInv'
<1> DEFINE t     == all[looked + 1]
           found == callbacks
<1>1. /\ UNCHANGED <<world, todo, stack, all, functions>> /\ stack = << >> /\ todo = << >>
      /\ looked' = looked + 1 /\ looked < Len(all) /\ callbacks' = AddCallback(callbacks, t)
  BY DEF Collect
<1>2. /\ all \in Seq(Types) /\ Len(all) \in Nat /\ looked \in 0 .. Len(all)
      /\ callbacks \in Seq(Types) /\ world \in Worlds
  BY DEF Inv, ScanInv, GraphInv, CollectedInv, CallbacksInv
<1>3. /\ looked + 1 \in 1 .. Len(all) /\ looked' \in 0 .. Len(all)
      /\ 1 .. looked' = (1 .. looked) \cup {looked + 1}
  BY <1>1, <1>2
<1>4. t \in Types
  BY <1>2, <1>3
<1>5. \A u : Signature(u)' = Signature(u) /\ (IsFunction(u)' <=> IsFunction(u))
  BY <1>1, SameWorld
<1> HIDE DEF t
<1>6. /\ callbacks' \in Seq(Types)
      /\ \A n \in DOMAIN callbacks' : IsFunction(callbacks'[n])
      /\ \A m, n \in DOMAIN callbacks' : Signature(callbacks'[m]) = Signature(callbacks'[n]) => m = n
      /\ IsFunction(t) => \E n \in DOMAIN callbacks' : Signature(callbacks'[n]) = Signature(t)
      /\ \A n \in DOMAIN callbacks : n \in DOMAIN callbacks' /\ callbacks'[n] = callbacks[n]
  <2>1. CASE IsFunction(t) /\ \A n \in DOMAIN callbacks : Signature(callbacks[n]) # Signature(t)
    <3>1. callbacks' = Append(callbacks, t)
      BY <1>1, <2>1 DEF AddCallback
    <3>2. /\ callbacks' \in Seq(Types)
          /\ DOMAIN callbacks' = DOMAIN callbacks \cup {Len(callbacks) + 1} /\ Len(callbacks) + 1 \notin DOMAIN callbacks
          /\ callbacks'[Len(callbacks) + 1] = t /\ \A n \in DOMAIN callbacks : callbacks'[n] = callbacks[n]
      BY <1>2, <1>4, <3>1, AppendIs
    <3> QED
      BY <2>1, <3>2 DEF CollectedInv, CallbacksInv
  <2>2. CASE ~ (IsFunction(t) /\ \A n \in DOMAIN callbacks : Signature(callbacks[n]) # Signature(t))
    <3>1. callbacks' = callbacks
      BY <1>1, <2>2 DEF AddCallback
    <3> QED
      BY <1>2, <2>2, <3>1 DEF CollectedInv, CallbacksInv
  <2> QED
    BY <2>1, <2>2
<1>7. \A k \in 1 .. looked' : IsFunction(all[k]) =>
        \E n \in DOMAIN callbacks' : Signature(callbacks'[n]) = Signature(all[k])
  <2> SUFFICES ASSUME NEW k \in 1 .. looked', IsFunction(all[k])
               PROVE  \E n \in DOMAIN callbacks' : Signature(callbacks'[n]) = Signature(all[k])
    OBVIOUS
  <2>1. CASE k \in 1 .. looked
    BY <1>6, <2>1 DEF CollectedInv, CallbacksInv
  <2>2. CASE k = looked + 1
    BY <1>6, <2>2 DEF t
  <2> QED
    BY <1>3, <2>1, <2>2
<1>8. CallbacksInv'
  BY <1>1, <1>3, <1>5, <1>6, <1>7 DEF CallbacksInv
<1> QED
  BY <1>1, <1>8 DEF CollectedInv, FunctionsInv, IsTaken

LEMMA TakeDeclCollects ==
  ASSUME Inv, CollectedInv, TakeDecl
  PROVE  CollectedInv'
<1> DEFINE decl == Head(todo)
           n    == Looked + 1
<1>1. /\ UNCHANGED <<world, all, looked, callbacks>> /\ todo # << >> /\ looked = 0
      /\ world \in Worlds /\ functions \in Seq(STRING)
  BY DEF TakeDecl, CollectedInv, CallbacksInv, FunctionsInv
<1>2. /\ n \in DOMAIN world.decls /\ decl = world.decls[n]
      /\ decl.name \in remaining <=> IsTaken(world, n)
  BY <1>1, NextDecl DEF Inv, ScanInv
<1>3. decl.name \in STRING
  <2> DEFINE D == [name : STRING, types : Seq(Types)]
  <2>1. world.decls \in Seq(D)
    BY <1>1, WorldsAssumption DEF World
  <2>2. world.decls[n] \in D
    <3> HIDE DEF D, n
    <3> QED
      BY <1>2, <2>1
  <2> QED
    BY <1>2, <2>2
<1>4. FunctionsInv'
  <2> HIDE DEF decl, n
  <2>1. CASE IsTaken(world, n)
    <3>1. functions' = Append(functions, decl.name)
      BY <1>2, <2>1 DEF TakeDecl, decl
    <3>2. /\ functions' \in Seq(STRING)
          /\ DOMAIN functions' = DOMAIN functions \cup {Len(functions) + 1}
          /\ functions'[Len(functions) + 1] = decl.name
          /\ \A m \in DOMAIN functions : functions'[m] = functions[m]
      BY <1>1, <1>3, <3>1, AppendIs
    <3> QED
      BY <1>1, <1>2, <2>1, <3>2 DEF CollectedInv, FunctionsInv, IsTaken
  <2>2. CASE ~ IsTaken(world, n)
    <3>1. functions' = functions
      BY <1>2, <2>2 DEF TakeDecl, decl
    <3> QED
      BY <1>1, <3>1 DEF CollectedInv, FunctionsInv, IsTaken
  <2> QED
    BY <2>1, <2>2
<1>5. CallbacksInv'
  BY <1>1, SameWorld DEF CollectedInv, CallbacksInv
<1> QED
  BY <1>1, <1>4, <1>5 DEF CollectedInv

LEMMA ScanCollects ==
  ASSUME Inv, CollectedInv, Scan
  PROVE  CollectedInv'
<1>1. /\ UNCHANGED <<world, todo, functions, looked, callbacks>> /\ looked = 0
      /\ world \in Worlds
  BY DEF Scan, CollectedInv, CallbacksInv
<1>2. all' \in Seq(Types)
  <2>1. ScanInv'
    BY ScanStepped DEF Inv
  <2> QED
    BY <2>1 DEF ScanInv, GraphInv
<1>3. CallbacksInv'
  BY <1>1, <1>2, SameWorld DEF CollectedInv, CallbacksInv
<1> QED
  BY <1>1, <1>3 DEF CollectedInv, FunctionsInv, IsTaken

LEMMA CollectedUntouched ==
  ASSUME CollectedInv, UNCHANGED vars
  PROVE  CollectedInv'
<1>1. UNCHANGED <<world, todo, stack, all, functions, looked, callbacks>>
  BY DEF vars
<1>2. CallbacksInv'
  BY <1>1, SameWorld DEF CollectedInv, CallbacksInv
<1> QED
  BY <1>1, <1>2 DEF CollectedInv, FunctionsInv, IsTaken

LEMMA RunAgainCollects ==
  ASSUME CollectedInv, RunAgain
  PROVE  CollectedInv'
<1>1. /\ world' = world /\ all' = << >> /\ functions' = << >> /\ looked' = 0
      /\ callbacks' = << >> /\ world \in Worlds
  BY DEF RunAgain, CollectedInv
<1>2. CallbacksInv'
  BY <1>1 DEF CallbacksInv
<1> QED
  BY <1>1, <1>2 DEF CollectedInv, FunctionsInv

LEMMA CollectedStart == GuardInit => CollectedInv
BY DEF GuardInit, DelegenInit, Init, CollectedInv, CallbacksInv, FunctionsInv

LEMMA CollectedNext == Inv /\ CollectedInv /\ [ToolsNext]_allVars => CollectedInv'
<1> SUFFICES ASSUME Inv, CollectedInv, [ToolsNext]_allVars PROVE CollectedInv'
  OBVIOUS
<1>1. CASE ScanStep
  BY <1>1, CollectStep, TakeDeclCollects, ScanCollects DEF ScanStep
<1>2. CASE OpenFile \/ CloseFile \/ GuardStep \/ Stop \/ UNCHANGED allVars
  <2>1. UNCHANGED vars
    BY <1>2 DEF OpenFile, CloseFile, GuardStep, StartGuarding, GuardCall, LoadLibrary, Stop, allVars
  <2> QED
    BY <2>1, CollectedUntouched
<1>3. CASE Repeat
  BY <1>3, RunAgainCollects DEF Repeat
<1> QED
  BY <1>1, <1>2, <1>3 DEF ToolsNext, Work, DelegenStep

LEMMA CollectedAlways == ToolsSpec => [](Inv /\ CollectedInv)
BY InvStart, InvNext, CollectedStart, CollectedNext, PTL DEF ToolsSpec, allVars

-----------------------------------------------------------------------------
(* The guards of calls.                                                    *)

GuardFor(call) == [canonical |-> Canonical(call), sign |-> Key(call),
                   result |-> Result(call), args |-> Parameters(call)]
GuardsOfCalls  == {GuardFor(Calls[n]) : n \in DOMAIN Calls}

\* Calls that were looked at and are listed have their guards, and guards are
\* those of calls.
SitesInv ==
  /\ guards \in Seq(GuardsOfCalls)
  /\ outcome \in {"none", "guarding", "loaded", "aborted"}
  /\ outcome # "none" => at \in 0 .. Len(Calls)
  /\ outcome \in {"loaded", "aborted"} => at = 0
  /\ outcome # "none" => \A n \in at + 1 .. Len(Calls) : Listed(Calls[n]) => Guarded(Calls[n])

LEMMA SameSites ==
  ASSUME world' = world
  PROVE  /\ Calls' = Calls /\ GuardsOfCalls' = GuardsOfCalls
         /\ \A n : /\ Canonical(Calls[n])' = Canonical(Calls[n]) /\ Key(Calls[n])' = Key(Calls[n])
                   /\ GuardFor(Calls[n])' = GuardFor(Calls[n])
<1>1. Calls' = Calls
  BY DEF Calls
<1>2. \A n : /\ Canonical(Calls[n])' = Canonical(Calls[n])
             /\ Result(Calls[n])' = Result(Calls[n]) /\ Parameters(Calls[n])' = Parameters(Calls[n])
  BY <1>1, SameWorld DEF Canonical, Result, Parameters, NoProtoWithArgs
<1>3. \A n : Key(Calls[n])' = Key(Calls[n])
  <2>1. \A n : Ellipsis(Calls[n].type)' = Ellipsis(Calls[n].type)
    BY <1>1 DEF Ellipsis
  <2> QED
    BY <1>1, <1>2, <2>1, SameWorld DEF Key
<1>4. \A n : GuardFor(Calls[n])' = GuardFor(Calls[n])
  BY <1>2, <1>3 DEF GuardFor
<1>5. DOMAIN Calls' = DOMAIN Calls
  BY <1>1
<1>6. GuardsOfCalls' = GuardsOfCalls
  BY <1>4, <1>5 DEF GuardsOfCalls
<1> QED
  BY <1>1, <1>2, <1>3, <1>4, <1>6

LEMMA CallsAre ==
  ASSUME CollectedInv
  PROVE  Calls \in Seq(Site) /\ Len(Calls) \in Nat /\ DOMAIN Calls = 1 .. Len(Calls)
BY WorldsAssumption DEF CollectedInv, World, Calls

LEMMA StartGuardingSites ==
  ASSUME Inv, CollectedInv, SitesInv, StartGuarding
  PROVE  SitesInv'
<1>1. world' = world /\ guards' = << >> /\ at' = Len(Calls) /\ outcome' = "guarding"
  BY DEF StartGuarding, vars, Inv, GuardsInv
<1>2. Calls' = Calls /\ Len(Calls) \in Nat
  BY <1>1, SameSites, CallsAre
<1>3. at' \in 0 .. Len(Calls) /\ at' + 1 .. Len(Calls) = {}
  BY <1>1, <1>2
<1> QED
  BY <1>1, <1>2, <1>3 DEF SitesInv

LEMMA GuardCallSites ==
  ASSUME CollectedInv, SitesInv, GuardCall
  PROVE  SitesInv'
<1> DEFINE call == Calls[at]
<1>1. /\ world' = world /\ callbacks_set' = callbacks_set /\ at' = at - 1 /\ at > 0
      /\ outcome = "guarding" /\ outcome' = outcome /\ guards \in Seq(GuardsOfCalls)
  BY DEF GuardCall, vars, SitesInv
<1>2. /\ at \in 1 .. Len(Calls) /\ at' \in 0 .. Len(Calls) /\ at \in DOMAIN Calls /\ Len(Calls) \in Nat
      /\ at' + 1 .. Len(Calls) = {at} \cup (at + 1 .. Len(Calls))
  <2>1. at \in 0 .. Len(Calls) /\ Len(Calls) \in Nat /\ DOMAIN Calls = 1 .. Len(Calls)
    BY <1>1, CallsAre DEF SitesInv
  <2> QED
    BY <1>1, <2>1
<1>3. /\ Calls' = Calls /\ GuardsOfCalls' = GuardsOfCalls
      /\ \A n : Canonical(Calls[n])' = Canonical(Calls[n]) /\ Key(Calls[n])' = Key(Calls[n])
  BY <1>1, SameSites
<1>4. /\ guards' \in Seq(GuardsOfCalls)
      /\ Listed(call) => \E n \in DOMAIN guards' : guards'[n].canonical = Canonical(call)
      /\ \A n \in DOMAIN guards : n \in DOMAIN guards' /\ guards'[n] = guards[n]
  <2>1. CASE Listed(call) /\ \A n \in DOMAIN guards : guards[n].canonical # Canonical(call)
    <3>1. guards' = Append(guards, GuardFor(call))
      BY <2>1 DEF GuardCall, GuardFor
    <3>2. GuardFor(call) \in GuardsOfCalls /\ GuardFor(call).canonical = Canonical(call)
      BY <1>2 DEF GuardsOfCalls, GuardFor
    <3> HIDE DEF call
    <3>3. /\ guards' \in Seq(GuardsOfCalls)
          /\ DOMAIN guards' = DOMAIN guards \cup {Len(guards) + 1}
          /\ guards'[Len(guards) + 1] = GuardFor(call)
          /\ \A n \in DOMAIN guards : guards'[n] = guards[n]
      BY <1>1, <3>1, <3>2, AppendIs
    <3> QED
      BY <3>2, <3>3
  <2>2. CASE ~ (Listed(call) /\ \A n \in DOMAIN guards : guards[n].canonical # Canonical(call))
    <3>1. guards' = guards
      BY <2>2 DEF GuardCall
    <3> QED
      BY <1>1, <2>2, <3>1
  <2> QED
    BY <2>1, <2>2
<1>5. ASSUME NEW n \in at' + 1 .. Len(Calls), Listed(Calls[n])
      PROVE  \E m \in DOMAIN guards' : guards'[m].canonical = Canonical(Calls[n])
  <2>1. CASE n = at
    BY <1>4, <1>5, <2>1
  <2>2. CASE n \in at + 1 .. Len(Calls)
    BY <1>1, <1>4, <1>5, <2>2 DEF SitesInv, Guarded
  <2> QED
    BY <1>2, <2>1, <2>2
<1>6. \A n : (Listed(Calls[n])' => Listed(Calls[n])) /\ Canonical(Calls[n])' = Canonical(Calls[n])
  BY <1>1, <1>3 DEF Listed
<1>7. \A n \in at' + 1 .. Len(Calls') : Listed(Calls[n])' => Guarded(Calls[n])'
  BY <1>3, <1>5, <1>6 DEF Guarded
<1> QED
  BY <1>1, <1>2, <1>3, <1>4, <1>7 DEF SitesInv

LEMMA SitesUntouched ==
  ASSUME SitesInv, world' = world, UNCHANGED guardVars
  PROVE  SitesInv'
<1>1. UNCHANGED <<callbacks_set, at, guards, outcome>>
  BY DEF guardVars
<1>2. /\ Calls' = Calls /\ GuardsOfCalls' = GuardsOfCalls
      /\ \A n : Canonical(Calls[n])' = Canonical(Calls[n]) /\ Key(Calls[n])' = Key(Calls[n])
  BY SameSites
<1>3. \A n : (Listed(Calls[n])' <=> Listed(Calls[n])) /\ (Guarded(Calls[n])' <=> Guarded(Calls[n]))
  BY <1>1, <1>2 DEF Listed, Guarded
<1> QED
  BY <1>1, <1>2, <1>3 DEF SitesInv

LEMMA LoadLibrarySites ==
  ASSUME SitesInv, LoadLibrary
  PROVE  SitesInv'
<1>1. /\ world' = world /\ UNCHANGED <<callbacks_set, at, guards>>
      /\ outcome = "guarding" /\ at = 0 /\ outcome' \in {"loaded", "aborted"}
  BY DEF LoadLibrary, vars
<1>2. /\ Calls' = Calls /\ GuardsOfCalls' = GuardsOfCalls
      /\ \A n : Canonical(Calls[n])' = Canonical(Calls[n]) /\ Key(Calls[n])' = Key(Calls[n])
  BY <1>1, SameSites
<1>3. \A n : (Listed(Calls[n])' <=> Listed(Calls[n])) /\ (Guarded(Calls[n])' <=> Guarded(Calls[n]))
  BY <1>1, <1>2 DEF Listed, Guarded
<1> QED
  BY <1>1, <1>2, <1>3 DEF SitesInv

LEMMA SitesStart == GuardInit => SitesInv
BY DEF GuardInit, SitesInv

LEMMA SitesNext == Inv /\ CollectedInv /\ SitesInv /\ [ToolsNext]_allVars => SitesInv'
<1> SUFFICES ASSUME Inv, CollectedInv, SitesInv, [ToolsNext]_allVars PROVE SitesInv'
  OBVIOUS
<1>1. CASE GuardStep
  BY <1>1, StartGuardingSites, GuardCallSites, LoadLibrarySites DEF GuardStep
<1>2. CASE (DelegenStep \/ RunAgain) /\ UNCHANGED guardVars
  <2>1. world' = world
    BY <1>2 DEF DelegenStep, ScanStep, TakeDecl, Scan, Collect, OpenFile, CloseFile, RunAgain, vars
  <2> QED
    BY <1>2, <2>1, SitesUntouched
<1>3. CASE Stop \/ UNCHANGED allVars
  <2>1. world' = world /\ UNCHANGED guardVars
    BY <1>3 DEF Stop, allVars, vars
  <2> QED
    BY <2>1, SitesUntouched
<1> QED
  BY <1>1, <1>2, <1>3 DEF ToolsNext, Work, Repeat

LEMMA SitesAlways == ToolsSpec => [](Inv /\ CollectedInv /\ SitesInv)
BY SitesStart, SitesNext, CollectedAlways, PTL DEF ToolsSpec, allVars

-----------------------------------------------------------------------------
(* Spellings of types.                                                     *)

Marks == {<< >>, <<"...">>}

LEMMA ConcatIs ==
  ASSUME NEW S, NEW E, NEW s \in Seq(S), NEW e \in Seq(E)
  PROVE  /\ Len(s) \in Nat /\ Len(e) \in Nat /\ Len(s \o e) = Len(s) + Len(e)
         /\ \A n \in 1 .. Len(s) : (s \o e)[n] = s[n]
         /\ \A n \in 1 .. Len(e) : (s \o e)[Len(s) + n] = e[n]
OBVIOUS

LEMMA MarkIs ==
  ASSUME NEW e \in Marks
  PROVE  /\ e \in Seq({"..."}) /\ Len(e) \in {0, 1}
         /\ Len(e) = 0 => e = << >>
         /\ Len(e) = 1 => e = <<"...">> /\ e[1] = "..."
<1>1. CASE e = << >>
  BY <1>1
<1>2. CASE e = <<"...">>
  BY <1>2
<1> QED
  BY <1>1, <1>2 DEF Marks

LEMMA MarkedIs ==
  ASSUME NEW S, NEW s \in Seq(S)
  PROVE  /\ (s \o <<"...">>)[Len(s) + 1] = "..." /\ Len(s \o <<"...">>) = Len(s) + 1
         /\ Len(s) \in Nat
OBVIOUS

\* No ellipsis where another spelling has a type.
LEMMA NoShift ==
  ASSUME NEW S, "..." \notin S, NEW s \in Seq(S), NEW t \in Seq(S),
         NEW e \in Marks, NEW f \in Marks, s \o e = t \o f, Len(e) = 1
  PROVE  Len(f) = 1
<1> SUFFICES ASSUME Len(f) = 0 PROVE FALSE
  BY MarkIs
<1>1. e = <<"...">> /\ f \in Seq({"..."})
  BY MarkIs
<1>2. Len(s) \in Nat /\ (s \o e)[Len(s) + 1] = "..." /\ Len(s \o e) = Len(s) + 1
  BY <1>1, MarkedIs
<1>3. Len(t) \in Nat /\ Len(t \o f) = Len(t) /\ \A n \in 1 .. Len(t) : (t \o f)[n] = t[n] /\ t[n] \in S
  BY <1>1, ConcatIs
<1>4. Len(s) + 1 \in 1 .. Len(t)
  BY <1>2, <1>3
<1> QED
  BY <1>2, <1>3, <1>4

\* The ellipsis is no type: a spelling tells the types from it.
LEMMA SpellingSplit ==
  ASSUME NEW S, "..." \notin S, NEW s \in Seq(S), NEW t \in Seq(S),
         NEW e \in Marks, NEW f \in Marks, s \o e = t \o f
  PROVE  s = t /\ e = f
<1>1. Len(e) = Len(f) /\ e = f
  <2>1. CASE Len(e) = 1
    <3>1. Len(f) = 1
      BY <2>1, NoShift
    <3> QED
      BY <2>1, <3>1, MarkIs
  <2>2. CASE Len(e) = 0
    <3>1. Len(f) # 1
      <4> SUFFICES ASSUME Len(f) = 1 PROVE FALSE
        OBVIOUS
      <4>1. t \o f = s \o e
        OBVIOUS
      <4>2. Len(e) = 1
        BY <4>1, NoShift
      <4> QED
        BY <2>2, <4>2
    <3> QED
      BY <2>2, <3>1, MarkIs
  <2> QED
    BY <2>1, <2>2, MarkIs
<1>2. e \in Seq({"..."})
  BY MarkIs
<1>3. /\ Len(s) \in Nat /\ Len(t) \in Nat /\ Len(e) \in Nat
      /\ Len(s) + Len(e) = Len(t) + Len(e)
      /\ \A n \in 1 .. Len(s) : (s \o e)[n] = s[n]
      /\ \A n \in 1 .. Len(t) : (s \o e)[n] = t[n]
  BY <1>1, <1>2, ConcatIs
<1>4. Len(s) = Len(t)
  <2> DEFINE k == Len(s)
             l == Len(t)
             m == Len(e)
  <2>1. k \in Nat /\ l \in Nat /\ m \in Nat /\ k + m = l + m
    BY <1>3
  <2> HIDE DEF k, l, m
  <2>2. k = l
    BY <2>1
  <2> QED
    BY <2>2 DEF k, l
<1> QED
  BY <1>1, <1>3, <1>4

ReducedNames == Types \cup {"void *", "char", "short", "int", "long"}

LEMMA ReducedIs ==
  ASSUME NEW t \in Types
  PROVE  ReducedType(t) \in ReducedNames
BY DEF ReducedType, IntegerOf, ReducedNames

LEMMA NoEllipsis == "..." \notin Types /\ "..." \notin ReducedNames
BY NamesAssumption DEF ReducedNames

LEMMA EllipsisIs ==
  ASSUME NEW t
  PROVE  Ellipsis(t) \in Marks
BY DEF Ellipsis, Marks

\* Types that are read alike are passed alike, unless they are functions.
LEMMA SameCell ==
  ASSUME CollectedInv, NEW t \in Types, NEW u \in Types, ~ IsFunction(t), ~ IsFunction(u),
         ReducedType(t) = ReducedType(u)
  PROVE  Cell(t) = Cell(u)
<1>1. /\ world.kind[t] \in Kinds /\ world.kind[u] \in Kinds
      /\ Width[t] \in WidthsOf(world.kind[t]) /\ Width[u] \in WidthsOf(world.kind[u])
  BY WorldsAssumption, TypingAssumption DEF CollectedInv, World
<1>2. world.kind[t] \in {"pointer", "record", "integer", "enum", "other"}
  BY <1>1 DEF Kinds, IsFunction
<1>3. world.kind[u] \in {"pointer", "record", "integer", "enum", "other"}
  BY <1>1 DEF Kinds, IsFunction
<1>4. \A v \in Types : v \notin {"void *", "char", "short", "int", "long"}
  BY NamesAssumption
<1>5. ASSUME NEW v \in Types, world.kind[v] \in {"pointer", "record", "integer", "enum", "other"},
             Width[v] \in WidthsOf(world.kind[v])
      PROVE  \/ world.kind[v] = "pointer" /\ ReducedType(v) = "void *" /\ Cell(v) = <<"integer", 8>>
             \/ world.kind[v] \in {"enum", "integer"} /\ ReducedType(v) = "int" /\ Cell(v) = <<"integer", 4>>
             \/ world.kind[v] = "integer" /\ ReducedType(v) = "char" /\ Cell(v) = <<"integer", 1>>
             \/ world.kind[v] = "integer" /\ ReducedType(v) = "short" /\ Cell(v) = <<"integer", 2>>
             \/ world.kind[v] = "integer" /\ ReducedType(v) = "long" /\ Cell(v) = <<"integer", 8>>
             \/ world.kind[v] \in {"record", "other"} /\ ReducedType(v) = v /\ Cell(v) = <<v, Width[v]>>
  <2>1. CASE world.kind[v] = "pointer"
    BY <1>5, <2>1 DEF ReducedType, Pointers, Cell, WidthsOf
  <2>2. CASE world.kind[v] = "enum"
    BY <1>5, <2>2 DEF ReducedType, Pointers, Cell, WidthsOf
  <2>3. CASE world.kind[v] = "integer"
    <3>1. Width[v] \in {1, 2, 4, 8}
      BY <1>5, <2>3 DEF WidthsOf
    <3>2. ReducedType(v) = IntegerOf(Width[v]) /\ Cell(v) = <<"integer", Width[v]>>
      BY <2>3 DEF ReducedType, Pointers, Cell
    <3> QED
      BY <2>3, <3>1, <3>2 DEF IntegerOf
  <2>4. CASE world.kind[v] \in {"record", "other"}
    BY <2>4 DEF ReducedType, Pointers, Cell
  <2> QED
    BY <1>5, <2>1, <2>2, <2>3, <2>4
<1> QED
  BY <1>1, <1>2, <1>3, <1>4, <1>5

\* What is known of a call.
LEMMA CallIs ==
  ASSUME CollectedInv, NEW n \in DOMAIN Calls
  PROVE  /\ Calls[n] \in Site /\ Calls[n].type \in Types /\ IsFunction(Calls[n].type)
         /\ Callable(world, Calls[n])
         /\ Parameters(Calls[n]) \in Seq(Types) /\ Result(Calls[n]) \in Types
         /\ ~ IsFunction(Result(Calls[n]))
         /\ \A k \in DOMAIN Parameters(Calls[n]) : ~ IsFunction(Parameters(Calls[n])[k])
<1> DEFINE call == Calls[n]
           t    == call.type
           kids == world.kids[t]
<1>1. call \in Site /\ Callable(world, call)
  <2>1. Calls \in Seq(Site)
    BY CallsAre
  <2>2. call \in Site
    <3> HIDE DEF Calls
    <3> QED
      BY <2>1
  <2> QED
    BY <2>2, TypingAssumption DEF CollectedInv, Calls
<1>2. t \in Types /\ call.args \in Seq(Types) /\ t \in FunctionTypes(world)
  BY <1>1 DEF Site, Callable
<1>3. kids \in Seq(Types) /\ kids # << >> /\ Passed(world, kids) /\ Passed(world, call.args)
  BY <1>1, <1>2, WorldsAssumption, TypingAssumption DEF CollectedInv, World, HasHead, Callable
<1>4. IsFunction(t) /\ \A u \in Types : u \in FunctionTypes(world) <=> IsFunction(u)
  BY <1>2 DEF FunctionTypes, IsFunction
<1>5. ASSUME NEW s \in Seq(Types), Passed(world, s), NEW k \in DOMAIN s
      PROVE  s[k] \in Types /\ ~ IsFunction(s[k])
  <2>1. s[k] \in Range(s) /\ s[k] \in Types
    BY DEF Range
  <2> QED
    BY <1>4, <1>5, <2>1 DEF Passed
<1>6. kids[1] \in Types /\ ~ IsFunction(kids[1])
  <2>1. 1 \in DOMAIN kids
    <3> HIDE DEF kids
    <3> QED
      BY <1>3, TailIs
  <2> QED
    BY <1>3, <1>5, <2>1
<1>7. Tail(kids) \in Seq(Types) /\ \A k \in DOMAIN Tail(kids) : ~ IsFunction(Tail(kids)[k])
  <2> HIDE DEF kids
  <2>1. /\ Tail(kids) \in Seq(Types) /\ DOMAIN Tail(kids) = 1 .. Len(kids) - 1 /\ DOMAIN kids = 1 .. Len(kids)
        /\ Len(kids) \in Nat /\ \A j \in 1 .. Len(kids) - 1 : Tail(kids)[j] = kids[j + 1]
    BY <1>3, TailIs
  <2>2. \A j \in 1 .. Len(kids) - 1 : j + 1 \in DOMAIN kids
    BY <2>1
  <2> QED
    BY <1>3, <1>5, <2>1, <2>2
<1>8. Parameters(call) \in {call.args, Tail(kids)} /\ Result(call) = kids[1]
  BY DEF Parameters, Result
<1> HIDE DEF kids
<1>9. \A k \in DOMAIN call.args : ~ IsFunction(call.args[k])
  BY <1>2, <1>3, <1>5
<1> QED
  BY <1>1, <1>2, <1>4, <1>6, <1>7, <1>8, <1>9

\* A function that is called with its own parameters is spelled as its type.
LEMMA KeyIsSignature ==
  ASSUME CollectedInv, NEW n \in DOMAIN Calls, ~ NoProtoWithArgs(Calls[n])
  PROVE  Key(Calls[n]) = Signature(Calls[n].type)
<1> DEFINE call == Calls[n]
           kids == world.kids[call.type]
<1>1. kids \in Seq(Types) /\ kids # << >>
  <2>1. call.type \in FunctionTypes(world) /\ call.type \in Types
    BY CallIs DEF Callable
  <2> QED
    BY <2>1, WorldsAssumption, TypingAssumption DEF CollectedInv, World, HasHead
<1>2. <<Result(call)>> \o Parameters(call) = <<kids[1]>> \o Tail(kids)
  BY DEF Result, Parameters
<1>3. <<kids[1]>> \o Tail(kids) = kids
  <2> HIDE DEF kids
  <2>1. /\ Tail(kids) \in Seq(Types) /\ Len(Tail(kids)) = Len(kids) - 1 /\ Len(kids) \in Nat \ {0}
        /\ \A j \in 1 .. Len(Tail(kids)) : Tail(kids)[j] = kids[j + 1]
        /\ kids[1] \in Types /\ DOMAIN kids = 1 .. Len(kids)
    BY <1>1, TailIs
  <2> DEFINE r == <<kids[1]>> \o Tail(kids)
  <2>2. /\ r \in Seq(Types) /\ Len(r) = Len(kids) /\ r[1] = kids[1]
        /\ \A j \in 2 .. Len(kids) : r[j] = Tail(kids)[j - 1]
    BY <2>1
  <2>3. ASSUME NEW j \in 2 .. Len(kids) PROVE r[j] = kids[j]
    <3>1. j - 1 \in 1 .. Len(Tail(kids)) /\ (j - 1) + 1 = j
      BY <2>1
    <3> QED
      BY <2>1, <2>2, <3>1
  <2> HIDE DEF r
  <2>4. \A j \in 1 .. Len(kids) : r[j] = kids[j]
    BY <2>2, <2>3
  <2>5. r = kids
    BY <1>1, <2>2, <2>4
  <2> QED
    BY <2>5 DEF r
<1> QED
  BY <1>2, <1>3 DEF Key, Signature

LEMMA FunctionIs ==
  ASSUME CollectedInv, NEW t \in Types, IsFunction(t)
  PROVE  /\ world.kids[t] \in Seq(Types) /\ world.kids[t] # << >>
         /\ \A k \in DOMAIN world.kids[t] : world.kids[t][k] \in Types /\ ~ IsFunction(world.kids[t][k])
<1>1. t \in FunctionTypes(world) /\ \A u \in Types : u \in FunctionTypes(world) <=> IsFunction(u)
  BY DEF FunctionTypes, IsFunction
<1>2. world.kids[t] \in Seq(Types) /\ world.kids[t] # << >> /\ Passed(world, world.kids[t])
  BY <1>1, WorldsAssumption, TypingAssumption DEF CollectedInv, World, HasHead
<1>3. ASSUME NEW k \in DOMAIN world.kids[t] PROVE world.kids[t][k] \in Range(world.kids[t]) /\ world.kids[t][k] \in Types
  BY <1>2 DEF Range
<1> QED
  BY <1>1, <1>2, <1>3 DEF Passed

LEMMA HeadSplit ==
  ASSUME NEW S, NEW x \in S, NEW y \in S, NEW s \in Seq(S), NEW t \in Seq(S), <<x>> \o s = <<y>> \o t
  PROVE  x = y /\ s = t
<1> DEFINE p == <<x>> \o s
           q == <<y>> \o t
<1>1. /\ p[1] = x /\ Len(p) = Len(s) + 1 /\ Len(s) \in Nat
      /\ \A k \in 1 .. Len(s) : p[k + 1] = s[k]
  OBVIOUS
<1>2. /\ q[1] = y /\ Len(q) = Len(t) + 1 /\ Len(t) \in Nat
      /\ \A k \in 1 .. Len(t) : q[k + 1] = t[k]
  OBVIOUS
<1>3. p = q
  OBVIOUS
<1> HIDE DEF p, q
<1>4. x = y /\ Len(s) = Len(t) /\ \A k \in 1 .. Len(s) : s[k] = t[k]
  BY <1>1, <1>2, <1>3
<1> QED
  BY <1>4

LEMMA HeadedIs ==
  ASSUME NEW S, NEW x \in S, NEW s \in Seq(S)
  PROVE  /\ <<x>> \o s \in Seq(S) /\ DOMAIN (<<x>> \o s) = 1 .. Len(s) + 1 /\ Len(s) \in Nat
         /\ (<<x>> \o s)[1] = x /\ \A k \in 1 .. Len(s) : (<<x>> \o s)[k + 1] = s[k]
OBVIOUS

\* The guard that stands for a call was made for one of the same types.
LEMMA GuardIs ==
  ASSUME CollectedInv, SitesInv, NEW n \in DOMAIN Calls, Guarded(Calls[n])
  PROVE  \E m \in DOMAIN Calls :
           /\ GuardOf(Calls[n]) = GuardFor(Calls[m])
           /\ Parameters(Calls[m]) = Parameters(Calls[n]) /\ Result(Calls[m]) = Result(Calls[n])
<1> DEFINE g == CHOOSE g \in DOMAIN guards : guards[g].canonical = Canonical(Calls[n])
<1>1. g \in DOMAIN guards /\ guards[g].canonical = Canonical(Calls[n]) /\ GuardOf(Calls[n]) = guards[g]
  BY DEF Guarded, GuardOf
<1> HIDE DEF g
<1>2. guards[g] \in GuardsOfCalls
  BY <1>1 DEF SitesInv
<1>3. PICK m \in DOMAIN Calls : guards[g] = GuardFor(Calls[m])
  BY <1>2 DEF GuardsOfCalls
<1>4. Canonical(Calls[m]) = Canonical(Calls[n])
  BY <1>1, <1>3 DEF GuardFor
<1>5. /\ Parameters(Calls[m]) \in Seq(Types) /\ Result(Calls[m]) \in Types
      /\ Parameters(Calls[n]) \in Seq(Types) /\ Result(Calls[n]) \in Types
  BY CallIs
<1> DEFINE s == <<Result(Calls[m])>> \o Parameters(Calls[m])
           t == <<Result(Calls[n])>> \o Parameters(Calls[n])
<1>6. s \in Seq(Types) /\ t \in Seq(Types) /\ s \o Ellipsis(Calls[m].type) = t \o Ellipsis(Calls[n].type)
  BY <1>4, <1>5, HeadedIs DEF Canonical
<1>7. s = t
  <2> DEFINE e == Ellipsis(Calls[m].type)
             f == Ellipsis(Calls[n].type)
  <2>1. e \in Marks /\ f \in Marks /\ "..." \notin Types
    BY NoEllipsis, EllipsisIs
  <2> HIDE DEF s, t, e, f
  <2>2. s \o e = t \o f
    BY <1>6 DEF e, f
  <2> QED
    BY <1>6, <2>1, <2>2, SpellingSplit
<1>8. Parameters(Calls[m]) = Parameters(Calls[n]) /\ Result(Calls[m]) = Result(Calls[n])
  BY <1>5, <1>7, HeadSplit
<1> QED
  BY <1>1, <1>3, <1>8

LEMMA ReducedSeq ==
  ASSUME NEW s \in Seq(Types)
  PROVE  [n \in DOMAIN s |-> ReducedType(s[n])] \in Seq(ReducedNames)
<1>1. \A n \in DOMAIN s : s[n] \in Types
  OBVIOUS
<1>2. \A n \in DOMAIN s : ReducedType(s[n]) \in ReducedNames
  BY <1>1, ReducedIs
<1>3. DOMAIN s = 1 .. Len(s) /\ Len(s) \in Nat
  OBVIOUS
<1> QED
  BY <1>2, <1>3

\* A thunk of the guard's signature reads each argument as it is passed.
LEMMA ThunkFits ==
  ASSUME CollectedInv, NEW m \in DOMAIN Calls, NEW c \in DOMAIN callbacks,
         Signature(callbacks[c]) = Key(Calls[m])
  PROVE  /\ ThunkArgs(c) \in Seq(Types) /\ Len(ThunkArgs(c)) = Len(Parameters(Calls[m]))
         /\ \A k \in 1 .. Len(ThunkArgs(c)) : Cell(ThunkArgs(c)[k]) = Cell(Parameters(Calls[m])[k])
         /\ Cell(world.kids[callbacks[c]][1]) = Cell(Result(Calls[m]))
<1> DEFINE R     == Result(Calls[m])
           P     == Parameters(Calls[m])
           types == <<R>> \o P
           kids  == world.kids[callbacks[c]]
<1>1. callbacks[c] \in Types /\ IsFunction(callbacks[c])
  BY DEF CollectedInv, CallbacksInv
<1>2. kids \in Seq(Types) /\ kids # << >> /\ \A k \in DOMAIN kids : kids[k] \in Types /\ ~ IsFunction(kids[k])
  BY <1>1, FunctionIs
<1>3. /\ P \in Seq(Types) /\ R \in Types /\ ~ IsFunction(R)
      /\ \A k \in DOMAIN P : P[k] \in Types /\ ~ IsFunction(P[k])
  <2>1. /\ P \in Seq(Types) /\ R \in Types /\ ~ IsFunction(R)
        /\ \A k \in DOMAIN P : ~ IsFunction(P[k])
    BY CallIs
  <2> HIDE DEF P, R
  <2> QED
    BY <2>1
<1>4. /\ types \in Seq(Types) /\ DOMAIN types = 1 .. Len(P) + 1 /\ Len(P) \in Nat
      /\ types[1] = R /\ \A k \in 1 .. Len(P) : types[k + 1] = P[k]
  <2> HIDE DEF P, R
  <2> QED
    BY <1>3, HeadedIs
<1> DEFINE a == [k \in DOMAIN kids |-> ReducedType(kids[k])]
           b == [k \in DOMAIN types |-> ReducedType(types[k])]
<1>5. a = b
  <2>1. a \in Seq(ReducedNames) /\ b \in Seq(ReducedNames)
    <3> HIDE DEF kids, types
    <3> QED
      BY <1>2, <1>4, ReducedSeq
  <2> DEFINE e == Ellipsis(callbacks[c])
             f == Ellipsis(Calls[m].type)
  <2>2. e \in Marks /\ f \in Marks /\ "..." \notin ReducedNames
    BY NoEllipsis, EllipsisIs
  <2>3. a \o e = b \o f
    BY DEF Signature, Key
  <2> HIDE DEF a, b, e, f
  <2> QED
    BY <2>1, <2>2, <2>3, SpellingSplit
<1>6. DOMAIN kids = DOMAIN types /\ \A k \in DOMAIN kids : ReducedType(kids[k]) = ReducedType(types[k])
  <2> HIDE DEF kids, types
  <2>1. DOMAIN kids = DOMAIN a /\ DOMAIN types = DOMAIN b
    OBVIOUS
  <2>2. \A k \in DOMAIN kids : a[k] = ReducedType(kids[k])
    OBVIOUS
  <2>3. \A k \in DOMAIN types : b[k] = ReducedType(types[k])
    OBVIOUS
  <2> HIDE DEF a, b
  <2> QED
    BY <1>5, <2>1, <2>2, <2>3
<1> HIDE DEF types, kids, P, R, a, b
<1>7. /\ Len(kids) = Len(P) + 1 /\ DOMAIN kids = 1 .. Len(P) + 1
      /\ Tail(kids) \in Seq(Types) /\ Len(Tail(kids)) = Len(P)
      /\ \A k \in 1 .. Len(P) : Tail(kids)[k] = kids[k + 1]
  <2>1. /\ DOMAIN kids = 1 .. Len(kids) /\ Len(kids) \in Nat \ {0}
        /\ Tail(kids) \in Seq(Types) /\ Len(Tail(kids)) = Len(kids) - 1
        /\ \A k \in 1 .. Len(Tail(kids)) : Tail(kids)[k] = kids[k + 1]
    BY <1>2, TailIs
  <2>2. Len(kids) = Len(P) + 1
    BY <1>4, <1>6, <2>1
  <2> QED
    BY <1>4, <2>1, <2>2
<1>8. Cell(kids[1]) = Cell(R)
  <2>1. 1 \in DOMAIN kids
    BY <1>4, <1>7
  <2> QED
    BY <1>2, <1>3, <1>4, <1>6, <2>1, SameCell
<1>9. ASSUME NEW k \in 1 .. Len(P) PROVE Cell(Tail(kids)[k]) = Cell(P[k])
  <2>1. k + 1 \in DOMAIN kids /\ k \in DOMAIN P
    BY <1>3, <1>4, <1>7
  <2>2. Tail(kids)[k] = kids[k + 1] /\ types[k + 1] = P[k]
    BY <1>4, <1>7
  <2> QED
    BY <1>2, <1>3, <1>6, <2>1, <2>2, SameCell
<1> QED
  BY <1>7, <1>8, <1>9 DEF ThunkArgs, kids, P, R

\* The arguments that are named in a call.
LEMMA NamedAre ==
  ASSUME CollectedInv, NEW n \in DOMAIN Calls
  PROVE  Len(Parameters(Calls[n])) = IF Calls[n].type \in world.variadic THEN Len(world.kids[Calls[n].type]) - 1
                                                                       ELSE Len(Calls[n].args)
<1> DEFINE call == Calls[n]
           kids == world.kids[call.type]
<1>1. /\ Callable(world, call) /\ call \in Site /\ call.type \in Types /\ IsFunction(call.type)
  BY CallIs
<1>2. kids \in Seq(Types) /\ kids # << >>
  BY <1>1, FunctionIs
<1>3. Len(kids) \in Nat \ {0} /\ Len(Tail(kids)) = Len(kids) - 1
  <2> HIDE DEF kids
  <2> QED
    BY <1>2, TailIs
<1>4. call.args \in Seq(Types) /\ Len(call.args) \in Nat /\ Len(<< >>) = 0
  BY <1>1 DEF Site
<1>5. CASE world.kind[call.type] = "noproto"
  <2>1. Len(kids) = 1 /\ call.type \notin world.variadic
    BY <1>1, <1>5, TypingAssumption DEF CollectedInv, FunctionTypes
  <2>2. Parameters(call) = IF call.args # << >> THEN call.args ELSE Tail(kids)
    BY <1>5 DEF Parameters, NoProtoWithArgs
  <2>3. Len(Parameters(call)) = Len(call.args)
    <3>1. CASE call.args = << >>
      <4>1. Parameters(call) = Tail(kids) /\ Len(call.args) = 0
        BY <1>4, <2>2, <3>1
      <4>2. Len(Tail(kids)) = 0
        BY <1>3, <2>1
      <4> QED
        BY <4>1, <4>2
    <3>2. CASE call.args # << >>
      BY <2>2, <3>2
    <3> QED
      BY <3>1, <3>2
  <2> QED
    BY <2>1, <2>3
<1>6. CASE world.kind[call.type] = "function"
  <2>1. Parameters(call) = Tail(kids)
    BY <1>6 DEF Parameters, NoProtoWithArgs
  <2>2. call.type \notin world.variadic => Len(call.args) + 1 = Len(kids)
    BY <1>1, <1>6 DEF Callable
  <2> QED
    BY <1>3, <1>4, <2>1, <2>2
<1> QED
  BY <1>1, <1>5, <1>6 DEF IsFunction

LEMMA ReadIs ==
  ASSUME NEW s \in Seq(Types), NEW t \in Seq(Types), Len(s) = Len(t),
         \A k \in 1 .. Len(s) : Cell(s[k]) = Cell(t[k])
  PROVE  ReadAs(s, ArrayOf(t)) = [k \in 1 .. Len(t) |-> k]
<1>1. DOMAIN s = 1 .. Len(t) /\ DOMAIN t = 1 .. Len(t)
  OBVIOUS
<1>2. \A k \in 1 .. Len(t) : ArrayOf(t)[k].val = k /\ ArrayOf(t)[k].as = t[k]
  BY <1>1 DEF ArrayOf
<1>3. DOMAIN ArrayOf(t) = 1 .. Len(t)
  BY <1>1 DEF ArrayOf
<1> QED
  BY <1>1, <1>2, <1>3 DEF ReadAs

-----------------------------------------------------------------------------
(* Guards and thunks together.                                             *)

\* Whatever types a library's API leads to and however often delegen.py is run
\* again: with the callbacks file of its delegate (unless that is empty) cfiadd.py
\* guards every call of a type that the API leads to, but those with arguments
\* of functions without prototype, and all guards find their thunks.
THEOREM GuardsAndThunksMatch == ToolsSpec => []GuardsMatchThunks
<1>1. Inv /\ CollectedInv /\ SitesInv => GuardsMatchThunks
  <2> SUFFICES ASSUME Inv, CollectedInv, SitesInv, callbacks_set # {}, outcome = "loaded",
                      NEW n \in DOMAIN Calls, OfApi(Calls[n]), ~ NoProtoWithArgs(Calls[n])
               PROVE  Guarded(Calls[n])
    BY DEF GuardsMatchThunks, Inv, GuardsInv
  <2> DEFINE t == Calls[n].type
  <2>1. callbacks_set = CallbacksFile /\ looked = Len(all)
    BY DEF Inv, GuardsInv, over
  <2>2. PICK k \in 1 .. looked : all[k] = t
    <3>1. all \in Seq(Types) /\ t \in Range(all)
      BY DEF Inv, ScanInv, GraphInv, OfApi, Visited
    <3> QED
      BY <2>1, <3>1 DEF Range
  <2>3. IsFunction(t)
    BY CallIs
  <2>4. PICK c \in DOMAIN callbacks : Signature(callbacks[c]) = Signature(t)
    BY <2>2, <2>3 DEF CollectedInv, CallbacksInv
  <2>5. Key(Calls[n]) = Signature(t)
    BY KeyIsSignature
  <2>6. Listed(Calls[n])
    BY <2>1, <2>4, <2>5 DEF Listed, CallbacksFile
  <2>7. n \in at + 1 .. Len(Calls)
    <3>1. at = 0 /\ DOMAIN Calls = 1 .. Len(Calls)
      BY CallsAre DEF SitesInv
    <3> QED
      BY <3>1
  <2> QED
    BY <2>6, <2>7 DEF SitesInv
<1> QED
  BY <1>1, SitesAlways, PTL

\* However spellings of types are merged into one signature: a thunk that a
\* guard has found is the only one, and the guest's callback reads the named
\* arguments as the library passes them and returns what the library reads.
LEMMA CallbacksAreCalled ==
  ASSUME CollectedInv, SitesInv
  PROVE  CallbackArrives
<1> SUFFICES ASSUME NEW n \in DOMAIN Calls, Guarded(Calls[n]), NEW c \in Thunks(GuardOf(Calls[n]).sign)
             PROVE  /\ Thunks(GuardOf(Calls[n]).sign) = {c}
                    /\ ReadAs(ThunkArgs(c), ArrayOf(GuardOf(Calls[n]).args)) =
                         [k \in 1 .. IF Calls[n].type \in world.variadic THEN Len(world.kids[Calls[n].type]) - 1
                                                                         ELSE Len(Calls[n].args) |-> k]
                    /\ Cell(world.kids[callbacks[c]][1]) = Cell(GuardOf(Calls[n]).result)
  BY DEF CallbackArrives
<1>1. PICK m \in DOMAIN Calls :
        /\ GuardOf(Calls[n]) = GuardFor(Calls[m])
        /\ Parameters(Calls[m]) = Parameters(Calls[n]) /\ Result(Calls[m]) = Result(Calls[n])
  BY GuardIs
<1> DEFINE sign == Key(Calls[m])
           P    == Parameters(Calls[m])
<1>2. GuardOf(Calls[n]).sign = sign /\ GuardOf(Calls[n]).args = P /\ GuardOf(Calls[n]).result = Result(Calls[m])
  BY <1>1 DEF GuardFor
<1>3. \A d : d \in Thunks(sign) <=> d \in DOMAIN callbacks /\ Signature(callbacks[d]) = sign
  BY DEF Thunks, CallbackForeach
<1>4. c \in DOMAIN callbacks /\ Signature(callbacks[c]) = sign
  BY <1>2, <1>3
<1>5. Thunks(sign) = {c}
  <2>1. \A d \in Thunks(sign) : d = c
    BY <1>3, <1>4 DEF CollectedInv, CallbacksInv
  <2> QED
    BY <1>3, <1>4, <2>1
<1>6. /\ ThunkArgs(c) \in Seq(Types) /\ Len(ThunkArgs(c)) = Len(P)
      /\ \A k \in 1 .. Len(ThunkArgs(c)) : Cell(ThunkArgs(c)[k]) = Cell(P[k])
      /\ Cell(world.kids[callbacks[c]][1]) = Cell(Result(Calls[m]))
  BY <1>4, ThunkFits
<1>7. P \in Seq(Types)
  BY CallIs
<1>8. ReadAs(ThunkArgs(c), ArrayOf(P)) = [k \in 1 .. Len(P) |-> k]
  <2> HIDE DEF P
  <2> QED
    BY <1>6, <1>7, ReadIs
<1>9. Len(P) = IF Calls[n].type \in world.variadic THEN Len(world.kids[Calls[n].type]) - 1 ELSE Len(Calls[n].args)
  BY <1>1, NamedAre
<1> HIDE DEF sign, P
<1> QED
  BY <1>2, <1>5, <1>6, <1>8, <1>9

\* Both delegates take the types of an API function from its first declaration.
LEMMA ApiIsCalled ==
  ASSUME CollectedInv
  PROVE  ApiCallArrives
<1> SUFFICES ASSUME NEW n \in DOMAIN functions
             PROVE  ReadAs(HostArgs(functions[n]), ArrayOf(GuestArgs(functions[n]))) =
                      [k \in 1 .. Len(DeclOfApi(functions[n]).types) - 1 |-> k]
  BY DEF ApiCallArrives, ApiForeach
<1> DEFINE name == functions[n]
           d    == CHOOSE d \in DOMAIN world.decls : world.decls[d].name = name /\
                     \A m \in 1 .. d - 1 : world.decls[m].name # name
           types == world.decls[d].types
<1>1. d \in DOMAIN world.decls /\ DeclOfApi(name) = world.decls[d]
  BY DEF CollectedInv, FunctionsInv, IsTaken, DeclOfApi
<1> HIDE DEF d
<1>2. types \in Seq(Types) /\ types # << >>
  <2> DEFINE D == [name : STRING, types : Seq(Types)]
  <2>1. world.decls \in Seq(D)
    BY WorldsAssumption DEF CollectedInv, World
  <2>2. world.decls[d] \in D
    <3> HIDE DEF D
    <3> QED
      BY <1>1, <2>1
  <2> QED
    BY <1>1, <2>2, TypingAssumption DEF CollectedInv
<1> HIDE DEF types
<1>3. Tail(types) \in Seq(Types) /\ Len(Tail(types)) = Len(types) - 1
  BY <1>2, TailIs
<1>4. ReadAs(Tail(types), ArrayOf(Tail(types))) = [k \in 1 .. Len(types) - 1 |-> k]
  BY <1>3, ReadIs
<1> QED
  BY <1>1, <1>4 DEF HostArgs, GuestArgs, types

\* What either side passes arrives at the other: the arguments of a callback and
\* its result by way of guard and thunk, those of an API function by way of the
\* two delegates.
THEOREM ArgumentsDoArrive == ToolsSpec => []ArgumentsArrive
<1>1. CollectedInv /\ SitesInv => ArgumentsArrive
  BY CallbacksAreCalled, ApiIsCalled DEF ArgumentsArrive
<1> QED
  BY <1>1, SitesAlways, PTL
=============================================================================
