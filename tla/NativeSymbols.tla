--------------------------- MODULE NativeSymbols ---------------------------
(***************************************************************************)
(* x64nc_GetProcAddress_N2G (src/guestrt/guestapi_extra.c): threads of the *)
(* guest look up the guest symbol that stands for one of a native library. *)
(* All share staticRealPath.  The mapping file has been read before        *)
(* (LibraryIndex); a text that names no library stands as NoPath.          *)
(***************************************************************************)
EXTENDS LibraryIndex

CONSTANTS Threads,
          Links,       \* Links[p]: the real path of a native library's path p
          Loadable,    \* guest library paths that dlopen can open
          Exporting,   \* those whose library defines the name looked up
          LookupDocs   \* bound: the mapping files that lookups are made with

ASSUME LinksAssumption == DOMAIN Links \subseteq Paths /\ \A p \in DOMAIN Links : Links[p] \in Paths

VARIABLES
  loadedG,    \* guest libraries that are loaded
  realPath,   \* staticRealPath
  lookups     \* per thread, its lookup
symVars == <<loadedG, realPath, lookups>>

\* A lookup: the native library asked about, where its thread is, what it has
\* found, and whether, from its realpath to its search, no other thread's
\* realpath wrote to the buffer.
Idle == [module |-> NoPath, pc |-> "idle", path |-> NoPath, result |-> NoPath, alone |-> TRUE]

\* What may stand in the buffer when two have written, or one broke off: the
\* bytes of several paths, which may be the path of any library or of none.
Texts == Paths \cup {NoPath}

SymInit == loadedG = {} /\ realPath = NoPath /\ lookups = [t \in Threads |-> Idle]

At(pcs) == {t \in Threads : lookups[t].pc \in pcs}

\* dlsym(RTLD_DEFAULT) knows the name: that symbol is the answer, whoever asks.
Known(t) ==
  /\ t \in At({"idle"})
  /\ lookups' = [lookups EXCEPT ![t].pc = "known"]
  /\ UNCHANGED <<loadedG, realPath>>

\* It does not, and x64nc_GetModulePath has a path ...
Begin(t, module) ==
  /\ t \in At({"idle"})
  /\ lookups' = [lookups EXCEPT ![t] = [Idle EXCEPT !.module = module, !.pc = "module"]]
  /\ UNCHANGED <<loadedG, realPath>>

\* ... or it has none: the address is in no library.
BeginNowhere(t) ==
  /\ t \in At({"idle"})
  /\ lookups' = [lookups EXCEPT ![t].pc = "answered"]
  /\ UNCHANGED <<loadedG, realPath>>

\* realpath, until it returns, writes its second argument.
RealPathStart(t) ==
  /\ t \in At({"module"})
  /\ lookups' = [u \in Threads |->
       CASE u = t -> [lookups[t] EXCEPT !.pc = "realpath", !.alone = At({"realpath"}) = {}]
         [] u # t /\ u \in At({"realpath", "search"}) -> [lookups[u] EXCEPT !.alone = FALSE]
         [] OTHER -> lookups[u]]
  /\ UNCHANGED <<loadedG, realPath>>

\* Mutant: the path is looked up as the link it is.
WritesLink(t) == lookups[t].module

\* What realpath writes for t, if it succeeds.
Writes(t) == Links[lookups[t].module]

RealPathEnd(t) ==
  /\ t \in At({"realpath"})
  /\ \E p \in IF lookups[t].alone THEN {Writes(t)} ELSE Texts : realPath' = p
  /\ lookups' = [lookups EXCEPT ![t].pc = "search"]
  /\ UNCHANGED loadedG

\* It may fail, for instance if the file is gone: the result is NULL.
RealPathFails(t) ==
  /\ t \in At({"realpath"})
  /\ \E p \in Texts : realPath' = p
  /\ lookups' = [lookups EXCEPT ![t].pc = "null"]
  /\ UNCHANGED loadedG

\* x64nc_SearchLibrary(staticRealPath, X64NC_SL_Mode_N2G), perhaps while others
\* write.
Search(t) ==
  /\ t \in At({"search"})
  /\ \E p \in IF At({"realpath"}) = {} THEN {realPath} ELSE Texts :
       LET g == IF p = NoPath THEN NoPath ELSE SearchLibrary(p, "N2G") IN
         lookups' = [lookups EXCEPT ![t].pc = IF g = NoPath THEN "answered" ELSE "open", ![t].path = g]
  /\ UNCHANGED <<loadedG, realPath>>

\* The NULL is not checked: hostapi.cpp:236 measures a string at nullptr, and
\* the process ends.
SearchNull(t) ==
  /\ t \in At({"null"})
  /\ lookups' = [lookups EXCEPT ![t].pc = "crashed"]
  /\ UNCHANGED <<loadedG, realPath>>

\* dlopen, with RTLD_NOLOAD first, and dlsym.
Open(t) ==
  /\ t \in At({"open"})
  /\ LET p == lookups[t].path IN
       /\ loadedG' = loadedG \cup ({p} \cap Loadable)
       /\ lookups' = [lookups EXCEPT ![t].pc = "answered",
                        ![t].result = IF p \in Loadable \cap Exporting THEN p ELSE NoPath]
  /\ UNCHANGED realPath

Lookup ==
  /\ state = "ready" /\ doc \in LookupDocs
  /\ At({"crashed"}) = {}
  /\ \E t \in Threads :
       \/ \E module \in DOMAIN Links : Begin(t, module)
       \/ Known(t) \/ BeginNowhere(t)
       \/ RealPathStart(t) \/ RealPathEnd(t) \/ RealPathFails(t)
       \/ Search(t) \/ SearchNull(t) \/ Open(t)
  /\ UNCHANGED vars

LookupInit == Init /\ SymInit
LookupNext == (Next /\ UNCHANGED symVars) \/ Lookup
LookupSpec == LookupInit /\ [][LookupNext]_<<vars, symVars>>

-----------------------------------------------------------------------------
(* Properties.                                                             *)

\* The guest file that the native library's own entry in the mapping file names,
\* if the symbol can be had from it.
Meant(module) ==
  LET named == {i \in Read : doc.items[i].N.name = Links[module].name}
      guest == {Escape(doc.items[i].G) : i \in {j \in named : \A k \in named : k <= j}}
  IN  guest \cap Loadable \cap Exporting

\* A lookup that had the buffer for itself finds the symbol of the guest library
\* that stands for its own native library, through any links, or none if that
\* cannot be had.  Of one that shared it (guestapi_extra.c:29) only this can be
\* said: what it finds is in a guest file of the mapping, and loaded.
SymbolOfCaller ==
  \A t \in At({"answered"}) :
    LET l == lookups[t] IN
      /\ l.alone => {l.result} \ {NoPath} = IF l.module = NoPath THEN {} ELSE Meant(l.module)
      /\ l.result # NoPath => /\ l.result \in loadedG
                              /\ \E i \in Read : l.result = Escape(doc.items[i].G)
=============================================================================
