-------------------------- MODULE KernelCachesProofs --------------------------
(***************************************************************************)
(* Until the loader gives a handle again, what is remembered of a loaded   *)
(* code object is of that code object, for any number of handles, symbols, *)
(* kernels and presets; and where the unregistration is called, versions   *)
(* and their readers go with the original.                                 *)
(***************************************************************************)
EXTENDS KernelCaches, TLAPS

(* Lifting caches the ELF first.                                             *)
LiftedCached == \A h \in Handles, s \in Symbols :
    lifted[<<h, s>>] # None => elf[h] # None

(* Nothing is remembered of a handle that was never given.                   *)
Unused == \A h \in Handles : h \notin used =>
    /\ lco[h] = None /\ elf[h] = None /\ info[h] = NoReader
    /\ \A s \in Symbols : lifted[<<h, s>>] = None
    /\ \A s \in Symbols, p \in Presets : instrumented[<<<<h, s>>, p>>] = None

(* What was lifted is the code that is loaded.                               *)
LiftedFresh == \A h \in Handles :
    OfApp(h) /\ lifted[Key(h)] # None => lifted[Key(h)] = lco[h].image.code

(* Entry p of the original h is v, a version of h's code that is loaded,     *)
(* bound to h and cached.                                                    *)
VersionOf(h, p, v) ==
    /\ OfTool(v) /\ lco[v].boundTo = h
    /\ elf[v] = lco[v].image
    /\ lco[v].image.code = lco[h].image.code
    /\ lco[v].image.name = lco[h].image.name
    /\ lco[v].image.preset = p

VersionsFresh == \A h, v \in Handles, p \in Presets :
    OfApp(h) /\ instrumented[<<Key(h), p>>] = v =>
        h \in originals /\ VersionOf(h, p, v)

(* Every code object of the tool has a reader of its own, and it is the one  *)
(* that is recorded.                                                         *)
ReadersKnown == \A v \in Handles : OfTool(v) =>
    /\ lco[v].reader \in readers /\ info[v] = lco[v].reader
    /\ \A w \in Handles : OfTool(w) /\ w # v => lco[w].reader # lco[v].reader

(* A version that is bound to an original is one its map knows.              *)
BoundKnown == \A v, h \in Handles :
    OfTool(v) /\ lco[v].whole /\ lco[v].boundTo = h =>
        OfApp(h) /\ \E p \in Presets : instrumented[<<Key(h), p>>] = v

ReadersCreated == \A r \in readers : r <= created

Fresh == /\ Unused /\ CacheFresh /\ LiftedFresh /\ VersionsFresh
         /\ ReadersKnown /\ BoundKnown /\ ReadersCreated
         /\ unregisters => NoOrphans /\ ~fatal

CachesInv == /\ TypeOK /\ LiftedCached
             /\ ~reused => Fresh
             /\ OverrideFaithful

-----------------------------------------------------------------------------
(* Types, and that a lifting caches.                                         *)
LEMMA InitTyped == Init => TypeOK /\ LiftedCached
  <1> SUFFICES ASSUME Init
               PROVE  TypeOK /\ LiftedCached
    OBVIOUS
  <1>1. LiftedCached
    BY DEF Init, LiftedCached, Keys
  <1>2. {fatal, reused} \subseteq BOOLEAN
    BY Zenon DEF Init
  <1> QED  BY <1>1, <1>2, KernelCachesAssumption DEF Init, TypeOK, NoReader

LEMMA CachedTyped ==
    ASSUME TypeOK, NEW h \in Handles, NEW image \in Image
    PROVE  /\ Cached(h, image) \in [Handles -> Image \cup {None}]
           /\ \A g \in Handles : elf[g] # None => Cached(h, image)[g] = elf[g]
           /\ \A g \in Handles \ {h} : Cached(h, image)[g] = elf[g]
           /\ elf[h] = None => Cached(h, image)[h] = image
           /\ Cached(h, image)[h] # None
  BY NoneAssumption DEF TypeOK, Cached

(* A code object that is loaded is one, and its key is a key.                *)
LEMMA LiveTyped ==
    ASSUME TypeOK, NEW h \in Handles, Live(h)
    PROVE  /\ lco[h] \in Lco /\ lco[h].image \in Image
           /\ lco[h].symbol \in Symbols /\ Key(h) \in Keys
  BY DEF TypeOK, Live, Lco, Key, Keys

LEMMA AppLoaded ==
    ASSUME TypeOK, NEW h \in Handles, NEW c \in Codes, NEW s \in Symbols,
           AppLoad(h, c, s)
    PROVE  /\ lco' \in [Handles -> Lco \cup {None}] /\ lco'[h] \in Lco
           /\ lco'[h].owner = "app" /\ lco'[h].symbol = s
           /\ \A g \in Handles \ {h} : lco'[g] = lco[g]
  <1> DEFINE image == [code |-> c, name |-> KernelName[c], preset |-> None]
             new == [owner |-> "app", symbol |-> s, reader |-> NoReader,
                     image |-> image, boundTo |-> None, whole |-> TRUE]
  <1>1. image \in Image
    BY DEF Image
  <1>2. new \in Lco
    <2> HIDE DEF image
    <2> QED  BY <1>1, KernelCachesAssumption DEF Lco, NoReader
  <1>3. /\ lco' \in [Handles -> Lco \cup {None}] /\ lco'[h] = new
        /\ \A g \in Handles \ {h} : lco'[g] = lco[g]
    <2>1. lco' = [lco EXCEPT ![h] = new]
      BY DEF AppLoad
    <2> HIDE DEF new
    <2> QED  BY <1>2, <2>1 DEF TypeOK
  <1> QED  BY <1>2, <1>3

LEMMA AppLoadTyped ==
    ASSUME TypeOK, LiftedCached, NEW h \in Handles, NEW c \in Codes,
           NEW s \in Symbols, AppLoad(h, c, s)
    PROVE  TypeOK' /\ LiftedCached'
  BY AppLoaded DEF TypeOK, LiftedCached, AppLoad, Dispatching, Give, loader

LEMMA CacheOnLoadTyped ==
    ASSUME TypeOK, LiftedCached, NEW h \in Handles, CacheOnLoad(h)
    PROVE  TypeOK' /\ LiftedCached'
  <1>1. lco[h].image \in Image
    BY LiveTyped DEF CacheOnLoad, OfApp
  <1> QED  BY <1>1, CachedTyped
           DEF TypeOK, LiftedCached, CacheOnLoad, Dispatching, loader

LEMMA AppDestroyTyped ==
    ASSUME TypeOK, LiftedCached, NEW h \in Handles, AppDestroy(h)
    PROVE  TypeOK' /\ LiftedCached'
  <1>1. lco' \in [Handles -> Lco \cup {None}]
    <2>1. ASSUME NEW g \in Handles, Live(g)
          PROVE  [lco[g] EXCEPT !.boundTo = None] \in Lco
      BY <2>1, LiveTyped DEF Lco
    <2> QED  BY <2>1 DEF TypeOK, AppDestroy, Live
  <1>2. instrumented' \in [Keys \X Presets -> Handles \cup {None}]
    BY DEF TypeOK, AppDestroy, Erased
  <1> QED  BY <1>1, <1>2 DEF TypeOK, LiftedCached, AppDestroy, Dispatching

LEMMA LiftTyped ==
    ASSUME TypeOK, LiftedCached, NEW h \in Handles, Lift(h)
    PROVE  TypeOK' /\ LiftedCached'
  <1>1. /\ lco[h].image \in Image /\ lco[h].image.code \in Codes \cup {Mixed}
        /\ Key(h) \in Keys
    BY LiveTyped DEF Lift, OfApp, Image
  <1>2. lifted' \in [Keys -> Codes \cup {Mixed, None}]
    BY <1>1 DEF TypeOK, Lift
  <1>3. /\ elf' \in [Handles -> Image \cup {None}] /\ elf'[h] # None
        /\ \A g \in Handles : elf[g] # None => elf'[g] # None
    BY <1>1, CachedTyped DEF Lift
  <1>4. ASSUME NEW g \in Handles, NEW s \in Symbols, lifted'[<<g, s>>] # None
        PROVE  elf'[g] # None
    <2>1. g = h \/ lifted'[<<g, s>>] = lifted[<<g, s>>]
      BY <1>1 DEF Lift, TypeOK, Key, Keys
    <2> QED  BY <2>1, <1>3, <1>4 DEF LiftedCached
  <1> QED  BY <1>2, <1>3, <1>4 DEF TypeOK, LiftedCached, Lift, Dispatching, loader

(* What InstrumentAndLoad loads at v, and what it finds of h.                *)
ToolImage(h, p) == [code |-> lifted[Key(h)], name |-> elf[h].name, preset |-> p]

LEMMA NewVersion ==
    ASSUME TypeOK, LiftedCached, NEW h \in Handles, NEW p \in Presets,
           NEW v \in Handles, NEW s \in Symbols, NEW whole \in BOOLEAN,
           InstrumentAndLoad(h, p, v, s, whole)
    PROVE  /\ elf[h] \in Image /\ ToolImage(h, p) \in Image
           /\ lco' \in [Handles -> Lco \cup {None}] /\ lco'[v] \in Lco
           /\ lco'[v].owner = "tool" /\ lco'[v].reader = created + 1
           /\ lco'[v].image = ToolImage(h, p)
           /\ lco'[v].boundTo = h /\ lco'[v].whole = whole
           /\ \A g \in Handles \ {v} : lco'[g] = lco[g]
  <1> DEFINE new == [owner |-> "tool", symbol |-> s, reader |-> created + 1,
                     image |-> ToolImage(h, p), boundTo |-> h, whole |-> whole]
  <1>1. elf[h] \in Image
    BY LiveTyped DEF InstrumentAndLoad, OfApp, LiftedCached, Key, TypeOK
  <1>2. lifted[Key(h)] \in Codes \cup {Mixed}
    BY LiveTyped DEF InstrumentAndLoad, OfApp, TypeOK
  <1>3. ToolImage(h, p) \in Image
    BY <1>1, <1>2 DEF ToolImage, Image
  <1>4. new \in Lco
    BY <1>3, KernelCachesAssumption DEF Lco, InstrumentAndLoad, TypeOK
  <1>5. lco' = [lco EXCEPT ![v] = new]
    BY DEF InstrumentAndLoad, ToolImage
  <1>6. lco' \in [Handles -> Lco \cup {None}] /\ lco'[v] = new
        /\ \A g \in Handles \ {v} : lco'[g] = lco[g]
    <2> HIDE DEF new
    <2> QED  BY <1>4, <1>5 DEF TypeOK
  <1> QED  BY <1>1, <1>3, <1>4, <1>6

LEMMA InstrumentAndLoadTyped ==
    ASSUME TypeOK, LiftedCached, NEW h \in Handles, NEW p \in Presets,
           NEW v \in Handles, NEW s \in Symbols, NEW whole \in BOOLEAN,
           InstrumentAndLoad(h, p, v, s, whole)
    PROVE  TypeOK' /\ LiftedCached'
  <1>1. /\ ToolImage(h, p) \in Image
        /\ lco' \in [Handles -> Lco \cup {None}]
    BY NewVersion
  <1>2. /\ elf' \in [Handles -> Image \cup {None}]
        /\ \A g \in Handles : elf[g] # None => elf'[g] # None
    <2>1. elf' = Cached(v, ToolImage(h, p))
      BY DEF InstrumentAndLoad, ToolImage
    <2> QED  BY <1>1, <2>1, CachedTyped
  <1>3. instrumented' \in [Keys \X Presets -> Handles \cup {None}]
    BY DEF InstrumentAndLoad, InsertInstrumentedKernelIntoMap, TypeOK
  <1>4. /\ created' \in 0..MaxReaders /\ readers' \subseteq 1..MaxReaders
        /\ info' \in [Handles -> 0..MaxReaders]
    BY KernelCachesAssumption DEF InstrumentAndLoad, Record, TypeOK
  <1> QED  BY <1>1, <1>2, <1>3, <1>4
           DEF InstrumentAndLoad, Dispatching, Give, TypeOK, LiftedCached

LEMMA OverrideTyped ==
    ASSUME TypeOK, LiftedCached, NEW h \in Handles, NEW p \in Presets,
           Override(h, p)
    PROVE  TypeOK' /\ LiftedCached'
  <1>1. lco[h].image \in Image /\ Key(h) \in Keys
    BY LiveTyped DEF Override, OfApp
  <1>2. Target(h, p) \in Handles
    BY <1>1 DEF Override, IsKernelInstrumented, Target, TypeOK
  <1>3. Live(Target(h, p)) => lco[Target(h, p)].image \in Image
    BY <1>2, LiveTyped
  <1>4. [lco[h].image EXCEPT !.preset = p] \in Image
    BY <1>1 DEF Image
  <1>5. packet' \in [wanted : Image, runs : Image \cup {None},
                     metadata : Image \cup {None}, bound : BOOLEAN]
    BY <1>2, <1>3, <1>4, Zenon DEF Override, TypeOK
  <1> QED  BY <1>1, <1>5, CachedTyped DEF TypeOK, LiftedCached, Override, loader

LEMMA NextTyped == TypeOK /\ LiftedCached /\ [Next]_vars => TypeOK' /\ LiftedCached'
  <1> SUFFICES ASSUME TypeOK, LiftedCached, [Next]_vars
               PROVE  TypeOK' /\ LiftedCached'
    OBVIOUS
  <1>1. ASSUME NEW h \in Handles, AppDestroyFails(h)
        PROVE  TypeOK' /\ LiftedCached'
    BY <1>1 DEF AppDestroyFails, Dispatching, TypeOK, LiftedCached
  <1>2. ASSUME NEW h \in Handles, NEW p \in Presets, InstrumentFails(h, p)
        PROVE  TypeOK' /\ LiftedCached'
    BY <1>2, KernelCachesAssumption
    DEF InstrumentFails, Dispatching, TypeOK, LiftedCached
  <1>3. CASE UNCHANGED vars
    BY <1>3 DEF vars, TypeOK, LiftedCached
  <1> QED  BY <1>1, <1>2, <1>3, AppLoadTyped, CacheOnLoadTyped, AppDestroyTyped,
              LiftTyped, InstrumentAndLoadTyped, OverrideTyped DEF Next

(* The caches, the maps and the packet keep their types.                     *)
THEOREM CachesTypeCorrect == Spec => []TypeOK
  <1>1. Spec => [](TypeOK /\ LiftedCached)
    BY InitTyped, NextTyped, PTL DEF Spec
  <1> QED  BY <1>1, PTL

-----------------------------------------------------------------------------
(* A cached image of a loaded code object: its symbols resolve, and caching  *)
(* it again changes nothing.                                                 *)
LEMMA FreshResolves ==
    ASSUME TypeOK, CacheFresh, NEW h \in Handles, Live(h)
    PROVE  /\ Resolves(h)
           /\ Cached(h, lco[h].image)[h] = lco[h].image
           /\ \A g \in Handles \ {h} : Cached(h, lco[h].image)[g] = elf[g]
  BY DEF TypeOK, CacheFresh, Resolves, CreateFails, KernelSymbol, Cached

(* The versions of an original are its map's entries; each has the reader    *)
(* that is recorded of it.                                                   *)
LEMMA VersionsOf ==
    ASSUME TypeOK, VersionsFresh, ReadersKnown, NEW h \in Handles, OfApp(h)
    PROVE  /\ \A p \in Presets : instrumented[<<Key(h), p>>] # None
                 => instrumented[<<Key(h), p>>] \in Versions(h)
           /\ \A v \in Versions(h) : v \in Handles /\ OfTool(v)
                 /\ lco[v].boundTo = h /\ info[v] = lco[v].reader
           /\ \A v \in Versions(h) : lco[v].reader \in ReadersOf(h)
           /\ \A r \in ReadersOf(h) :
                 \E v \in Versions(h) : r = lco[v].reader
  <1>1. Key(h) \in Keys
    BY LiveTyped DEF OfApp
  <1>2. ASSUME NEW p \in Presets, instrumented[<<Key(h), p>>] # None
        PROVE  LET v == instrumented[<<Key(h), p>>] IN
               /\ h \in originals /\ v \in Handles /\ OfTool(v)
               /\ lco[v].boundTo = h /\ info[v] = lco[v].reader
    <2>1. instrumented[<<Key(h), p>>] \in Handles
      BY <1>1, <1>2 DEF TypeOK
    <2> QED  BY <2>1 DEF VersionsFresh, ReadersKnown, VersionOf
  <1> QED  BY <1>1, <1>2 DEF Versions, ReadersOf

(* So unregisterIfLuthierToolExecutable has no error to report.              *)
LEMMA UnregisterSucceeds ==
    ASSUME TypeOK, CacheFresh, VersionsFresh, ReadersKnown,
           NEW h \in Handles, OfApp(h)
    PROVE  ~UnregisterFails(h)
  <1>1. Resolves(h)
    BY FreshResolves DEF OfApp
  <1>2. ReadersOf(h) \subseteq readers
    BY VersionsOf DEF ReadersKnown
  <1> QED  BY <1>1, <1>2 DEF UnregisterFails

-----------------------------------------------------------------------------
LEMMA InitFresh == Init => Fresh
  BY DEF Init, Fresh, Unused, CacheFresh, LiftedFresh, VersionsFresh,
         ReadersKnown, BoundKnown, ReadersCreated, NoOrphans, Live, OfApp,
         OfTool, Keys

LEMMA AppLoadFresh ==
    ASSUME TypeOK, TypeOK', Fresh, NEW h \in Handles, NEW c \in Codes,
           NEW s \in Symbols, AppLoad(h, c, s), ~reused'
    PROVE  Fresh'
  <1>1. /\ h \notin used /\ used' = used \cup {h} /\ lco[h] = None
        /\ elf[h] = None /\ lifted[<<h, s>>] = None
        /\ \A p \in Presets : instrumented[<<<<h, s>>, p>>] = None
    BY DEF AppLoad, Give, Fresh, Unused
  <1>2. /\ lco'[h].owner = "app" /\ lco'[h].symbol = s
        /\ \A g \in Handles \ {h} : lco'[g] = lco[g]
    BY AppLoaded
  <1>3. UNCHANGED <<elf, lifted, instrumented, info, originals, readers,
                    created, fatal, unregisters>>
    BY DEF AppLoad, loader
  <1>4. /\ \A g \in Handles : OfTool(g)' <=> OfTool(g)
        /\ \A g \in Handles : OfApp(g)' <=> OfApp(g) \/ g = h
        /\ ~OfApp(h) /\ Key(h)' = <<h, s>>
        /\ \A g \in Handles \ {h} : Key(g)' = Key(g)
    <2>1. lco'[h] # None
      BY NoneAssumption, AppLoaded
    <2> QED  BY <1>1, <1>2, <2>1 DEF OfTool, OfApp, Live, Key
  <1>5. Unused' /\ CacheFresh' /\ LiftedFresh'
    BY <1>1, <1>2, <1>3, <1>4
    DEF Fresh, Unused, CacheFresh, LiftedFresh, OfApp, Live
  <1>6. ASSUME NEW g \in Handles, NEW v \in Handles, NEW p \in Presets,
               OfApp(g)', instrumented'[<<Key(g)', p>>] = v
        PROVE  g \in originals' /\ VersionOf(g, p, v)'
    <2>1. g # h
      BY <1>1, <1>3, <1>4, <1>6, KernelCachesAssumption
    <2>2. g \in originals /\ VersionOf(g, p, v)
      BY <1>3, <1>4, <1>6, <2>1 DEF Fresh, VersionsFresh
    <2>3. v # h
      BY <1>1, <2>2 DEF VersionOf, OfTool, Live
    <2> QED  BY <1>2, <1>3, <1>4, <2>1, <2>2, <2>3 DEF VersionOf
  <1>7. ReadersKnown' /\ ReadersCreated' /\ (unregisters => NoOrphans /\ ~fatal)'
    BY <1>1, <1>2, <1>3, <1>4
    DEF Fresh, ReadersKnown, ReadersCreated, NoOrphans, OfTool, Live
  <1>8. BoundKnown'
    BY <1>1, <1>2, <1>3, <1>4, SMTT(30) DEF Fresh, BoundKnown, OfTool, OfApp, Live
  <1> QED  BY <1>5, <1>6, <1>7, <1>8 DEF Fresh, VersionsFresh

(* Steps that only cache the ELF of a loaded code object, and a lifting.     *)
LEMMA CachingFresh ==
    ASSUME TypeOK, LiftedCached, Fresh, NEW h \in Handles, Live(h),
           elf' = Cached(h, lco[h].image),
           UNCHANGED <<lco, used, reused, loader>>,
           \/ UNCHANGED lifted
           \/ /\ lifted' \in [Keys -> Codes \cup {Mixed, None}]
              /\ \A k \in Keys \ {Key(h)} : lifted'[k] = lifted[k]
              /\ lifted[Key(h)] = None => lifted'[Key(h)] = lco[h].image.code
              /\ lifted[Key(h)] # None => lifted'[Key(h)] = lifted[Key(h)]
    PROVE  Fresh'
  <1>1. /\ elf'[h] = lco[h].image
        /\ \A g \in Handles \ {h} : elf'[g] = elf[g]
    BY FreshResolves DEF Fresh
  <1>2. h \in used /\ Key(h) \in Keys
    BY LiveTyped DEF Fresh, Unused, Live
  <1>3. /\ UNCHANGED <<lco, used, instrumented, info, originals, readers,
                       created, fatal, unregisters>>
        /\ \A g \in Handles : /\ Live(g)' <=> Live(g)
                              /\ OfApp(g)' <=> OfApp(g)
                              /\ OfTool(g)' <=> OfTool(g)
                              /\ Key(g)' = Key(g)
    BY DEF loader, Live, OfApp, OfTool, Key
  <1>4. Unused'
    <2>1. ASSUME NEW g \in Handles, g \notin used, NEW s \in Symbols
          PROVE  lifted'[<<g, s>>] = None
      BY <1>2, <2>1 DEF Fresh, Unused, Key, Keys
    <2> QED  BY <1>1, <1>2, <1>3, <2>1 DEF Fresh, Unused
  <1>5. CacheFresh'
    BY <1>1, <1>3 DEF Fresh, CacheFresh
  <1>6. LiftedFresh'
    <2>1. ASSUME NEW g \in Handles, OfApp(g), g # h
          PROVE  lifted'[Key(g)] = lifted[Key(g)]
      BY <2>1, LiveTyped DEF OfApp, Key
    <2> QED  BY <1>3, <2>1 DEF Fresh, LiftedFresh
  <1>7. VersionsFresh'
    BY <1>1, <1>3 DEF Fresh, VersionsFresh, VersionOf
  <1>8. ReadersKnown' /\ ReadersCreated' /\ (unregisters => NoOrphans /\ ~fatal)'
    BY <1>3 DEF Fresh, ReadersKnown, ReadersCreated, NoOrphans
  <1>9. BoundKnown'
    BY <1>3 DEF Fresh, BoundKnown
  <1> QED  BY <1>4, <1>5, <1>6, <1>7, <1>8, <1>9 DEF Fresh

LEMMA LiftFresh ==
    ASSUME TypeOK, LiftedCached, TypeOK', Fresh, NEW h \in Handles, Lift(h)
    PROVE  Fresh'
  <1>1. Live(h) /\ Key(h) \in Keys
    BY LiveTyped DEF Lift, OfApp
  <1>2. elf' = Cached(h, lco[h].image) /\ elf'[h] = lco[h].image
    BY <1>1, FreshResolves DEF Lift, Fresh
  <1>3. /\ \A k \in Keys \ {Key(h)} : lifted'[k] = lifted[k]
        /\ lifted[Key(h)] = None => lifted'[Key(h)] = lco[h].image.code
        /\ lifted[Key(h)] # None => lifted'[Key(h)] = lifted[Key(h)]
    BY <1>1, <1>2 DEF Lift, TypeOK
  <1> QED  BY <1>1, <1>2, <1>3, CachingFresh DEF Lift, TypeOK

-----------------------------------------------------------------------------
(* What a destruction leaves: the code objects that do not go, one or more   *)
(* no longer bound.                                                          *)
Gone(h) == {h} \cup IF unregisters THEN Versions(h) ELSE {}

LEMMA Destroyed ==
    ASSUME TypeOK, TypeOK', NEW h \in Handles, AppDestroy(h), NEW g \in Handles
    PROVE  /\ Live(g)' <=> Live(g) /\ g \notin Gone(h)
           /\ Live(g)' => /\ lco'[g].owner = lco[g].owner
                          /\ lco'[g].image = lco[g].image
                          /\ lco'[g].symbol = lco[g].symbol
                          /\ lco'[g].reader = lco[g].reader
                          /\ lco'[g].whole = lco[g].whole
                          /\ lco'[g].boundTo = IF lco[g].boundTo = h THEN None
                                               ELSE lco[g].boundTo
           /\ OfApp(g)' => OfApp(g) /\ Key(g)' = Key(g)
           /\ OfTool(g)' => OfTool(g)
  <1>1. CASE g \in Gone(h)
    <2>1. lco'[g] = None
      BY <1>1 DEF AppDestroy, Gone
    <2> QED  BY <1>1, <2>1 DEF Live, OfApp, OfTool
  <1>2. CASE g \notin Gone(h) /\ lco[g] = None
    <2>1. lco'[g] = None
      BY <1>2 DEF AppDestroy, Gone
    <2> QED  BY <1>2, <2>1 DEF Live, OfApp, OfTool
  <1>3. CASE g \notin Gone(h) /\ lco[g] # None
    <2> DEFINE o == lco[g]
    <2>1. lco'[g] = IF o.boundTo = h THEN [o EXCEPT !.boundTo = None] ELSE o
      BY <1>3 DEF AppDestroy, Gone
    <2>2. o \in Lco
      BY <1>3 DEF TypeOK
    <2>3. [o EXCEPT !.boundTo = None] \in Lco
      <3> HIDE DEF o
      <3> QED  BY <2>2 DEF Lco
    <2>4. lco'[g] # None
      BY <2>1, <2>2, <2>3, NoneAssumption
    <2>5. /\ lco'[g].owner = o.owner /\ lco'[g].image = o.image
          /\ lco'[g].symbol = o.symbol /\ lco'[g].reader = o.reader
          /\ lco'[g].whole = o.whole
          /\ lco'[g].boundTo = IF o.boundTo = h THEN None ELSE o.boundTo
      <3> HIDE DEF o
      <3> QED  BY <2>1, <2>2 DEF Lco
    <2> QED  BY <1>3, <2>4, <2>5 DEF Live, OfApp, OfTool, Key
  <1> QED  BY <1>1, <1>2, <1>3

(* Entries of other originals stay, and those of h go with unregistration.   *)
LEMMA EntriesLeft ==
    ASSUME TypeOK, NEW h \in Handles, AppDestroy(h), NEW g \in Handles, g # h,
           NEW s \in Symbols, NEW p \in Presets
    PROVE  instrumented'[<<<<g, s>>, p>>] = instrumented[<<<<g, s>>, p>>]
  BY DEF AppDestroy, Erased, Key, Keys, TypeOK

LEMMA AppDestroyFresh ==
    ASSUME TypeOK, TypeOK', Fresh, NEW h \in Handles, AppDestroy(h)
    PROVE  Fresh'
  <1>1. /\ OfApp(h) /\ h \in used
        /\ UNCHANGED <<used, elf, lifted, info, originals, created, fatal,
                       unregisters>>
    BY DEF AppDestroy, OfApp, Live, Fresh, Unused
  <1>2. /\ \A p \in Presets : instrumented[<<Key(h), p>>] # None
              => instrumented[<<Key(h), p>>] \in Versions(h)
        /\ \A v \in Versions(h) : v \in Handles /\ OfTool(v)
              /\ lco[v].boundTo = h /\ info[v] = lco[v].reader
        /\ \A r \in ReadersOf(h) : \E v \in Versions(h) : r = lco[v].reader
    BY <1>1, VersionsOf DEF Fresh
  <1>3. ASSUME NEW g \in Handles, OfApp(g), g # h
        PROVE  /\ Key(g) \in Keys /\ g \notin Gone(h)
               /\ \A p \in Presets :
                    instrumented'[<<Key(g), p>>] = instrumented[<<Key(g), p>>]
    <2>1. Key(g) \in Keys /\ lco[g].symbol \in Symbols
      BY <1>3, LiveTyped DEF OfApp
    <2>2. g \notin Versions(h)
      BY <1>2, <1>3 DEF OfTool, OfApp
    <2> QED  BY <1>3, <2>1, <2>2, EntriesLeft DEF Key, Gone
  <1>4. Unused'
    <2>1. ASSUME NEW g \in Handles, g \notin used
          PROVE  lco'[g] = None
      BY <2>1, Destroyed DEF Live, Fresh, Unused
    <2>2. ASSUME NEW g \in Handles, g \notin used, NEW s \in Symbols, NEW p \in Presets
          PROVE  instrumented'[<<<<g, s>>, p>>] = None
      BY <1>1, <2>2, EntriesLeft DEF Fresh, Unused
    <2> QED  BY <1>1, <2>1, <2>2 DEF Fresh, Unused
  <1>5. CacheFresh'
    BY <1>1, Destroyed DEF Fresh, CacheFresh
  <1>6. LiftedFresh'
    BY <1>1, Destroyed DEF Fresh, LiftedFresh, OfApp
  <1>7. VersionsFresh'
    <2> SUFFICES ASSUME NEW g \in Handles, NEW v \in Handles, NEW p \in Presets,
                        OfApp(g)', instrumented'[<<Key(g)', p>>] = v
                 PROVE  g \in originals' /\ VersionOf(g, p, v)'
      BY DEF VersionsFresh
    <2>1. OfApp(g) /\ Key(g)' = Key(g) /\ g # h
      BY Destroyed DEF OfApp, Gone
    <2>2. instrumented[<<Key(g), p>>] = v
      BY <1>3, <2>1
    <2>3. g \in originals /\ VersionOf(g, p, v)
      BY <2>1, <2>2 DEF Fresh, VersionsFresh
    <2>4. v \notin Gone(h)
      BY <1>1, <1>2, <2>1, <2>3 DEF Gone, VersionOf, OfTool, OfApp
    <2>5. Live(v)' /\ Live(g)' /\ lco'[g].image = lco[g].image
      BY <2>1, <2>3, <2>4, Destroyed DEF VersionOf, OfTool, OfApp
    <2>6. /\ OfTool(v)' /\ lco'[v].boundTo = g
          /\ lco'[v].image = lco[v].image /\ elf'[v] = lco[v].image
      BY <1>1, <2>1, <2>3, <2>5, Destroyed DEF VersionOf, OfTool
    <2> QED  BY <1>1, <2>3, <2>5, <2>6 DEF VersionOf
  <1>8. ReadersKnown' /\ ReadersCreated'
    <2>1. ASSUME NEW v \in Handles, OfTool(v)'
          PROVE  lco'[v].reader \in readers' /\ info'[v] = lco'[v].reader
      <3>1. OfTool(v) /\ v \notin Gone(h) /\ lco'[v].reader = lco[v].reader
        BY <2>1, Destroyed DEF OfTool
      <3>2. unregisters => lco[v].reader \notin ReadersOf(h)
        BY <1>2, <3>1 DEF Fresh, ReadersKnown, Gone
      <3> QED  BY <1>1, <3>1, <3>2 DEF Fresh, ReadersKnown, AppDestroy
    <2>2. ASSUME NEW v \in Handles, NEW w \in Handles, OfTool(v)', OfTool(w)', w # v
          PROVE  lco'[w].reader # lco'[v].reader
      BY <2>2, Destroyed DEF Fresh, ReadersKnown, OfTool
    <2>3. ReadersCreated'
      BY <1>1 DEF Fresh, ReadersCreated, AppDestroy
    <2> QED  BY <2>1, <2>2, <2>3 DEF ReadersKnown
  <1>9. ASSUME NEW v \in Handles, NEW g \in Handles, OfTool(v)', lco'[v].whole,
               lco'[v].boundTo = g
        PROVE  OfApp(g)' /\ \E p \in Presets : instrumented'[<<Key(g)', p>>] = v
    <2>1. OfTool(v) /\ lco[v].whole /\ lco[v].boundTo = g /\ g # h
      BY <1>9, Destroyed, KernelCachesAssumption DEF OfTool
    <2>2. OfApp(g) /\ \E p \in Presets : instrumented[<<Key(g), p>>] = v
      BY <2>1 DEF Fresh, BoundKnown
    <2>3. Live(g)' /\ lco'[g].owner = lco[g].owner
      BY <1>3, <2>1, <2>2, Destroyed DEF OfApp
    <2>4. OfApp(g)' /\ Key(g)' = Key(g)
      BY <2>2, <2>3, Destroyed DEF OfApp
    <2> QED  BY <1>3, <2>1, <2>2, <2>4
  <1>10. (unregisters => NoOrphans /\ ~fatal)'
    <2> SUFFICES ASSUME unregisters, NEW v \in Handles, OfTool(v)', lco'[v].whole
                 PROVE  lco'[v].boundTo # None
      BY <1>1 DEF NoOrphans, Fresh
    <2>1. OfTool(v) /\ lco[v].whole /\ v \notin Gone(h)
      BY Destroyed DEF OfTool
    <2>2. lco[v].boundTo # h
      <3>1. SUFFICES ASSUME lco[v].boundTo = h
                     PROVE  FALSE
        OBVIOUS
      <3>2. PICK p \in Presets : instrumented[<<Key(h), p>>] = v
        BY <2>1, <3>1 DEF Fresh, BoundKnown
      <3>3. v # None
        BY KernelCachesAssumption
      <3> QED  BY <1>2, <2>1, <3>2, <3>3 DEF Gone
    <2> QED  BY <2>1, <2>2, Destroyed DEF Fresh, NoOrphans, OfTool
  <1> QED  BY <1>4, <1>5, <1>6, <1>7, <1>8, <1>9, <1>10 DEF Fresh, BoundKnown

-----------------------------------------------------------------------------
LEMMA InstrumentAndLoadFresh ==
    ASSUME TypeOK, LiftedCached, TypeOK', Fresh, NEW h \in Handles,
           NEW p \in Presets, NEW v \in Handles, NEW s \in Symbols,
           NEW whole \in BOOLEAN, InstrumentAndLoad(h, p, v, s, whole), ~reused'
    PROVE  Fresh'
  <1>1. /\ OfApp(h) /\ Key(h) \in Keys /\ lifted[Key(h)] # None
        /\ instrumented[<<Key(h), p>>] = None
        /\ v \notin used /\ used' = used \cup {v} /\ lco[v] = None /\ elf[v] = None
        /\ info[v] = NoReader /\ v # h
        /\ created' = created + 1 /\ readers' = readers \cup {created + 1}
        /\ UNCHANGED <<lifted, fatal, unregisters>>
    BY LiveTyped DEF InstrumentAndLoad, Give, IsKernelInstrumented, Fresh,
                     Unused, OfApp, Live
  <1>2. /\ lco'[v] # None /\ lco'[v].owner = "tool"
        /\ lco'[v].reader = created + 1 /\ lco'[v].image = ToolImage(h, p)
        /\ lco'[v].boundTo = h /\ lco'[v].whole = whole
        /\ \A g \in Handles \ {v} : lco'[g] = lco[g]
    BY NewVersion, NoneAssumption
  <1>3. /\ ToolImage(h, p).code = lco[h].image.code
        /\ ToolImage(h, p).name = lco[h].image.name
        /\ ToolImage(h, p).preset = p
    <2>1. elf[h] = lco[h].image
      BY <1>1, LiveTyped DEF LiftedCached, Fresh, CacheFresh, Key, OfApp
    <2>2. lifted[Key(h)] = lco[h].image.code
      BY <1>1 DEF Fresh, LiftedFresh
    <2> QED  BY <2>1, <2>2 DEF ToolImage
  <1>4. elf'[v] = ToolImage(h, p) /\ \A g \in Handles \ {v} : elf'[g] = elf[g]
    <2>1. elf' = Cached(v, ToolImage(h, p))
      BY DEF InstrumentAndLoad, ToolImage
    <2>2. ToolImage(h, p) \in Image
      BY NewVersion
    <2> QED  BY <1>1, <2>1, <2>2, CachedTyped
  <1>5. info'[v] = created + 1 /\ \A g \in Handles \ {v} : info'[g] = info[g]
    BY <1>1 DEF InstrumentAndLoad, Record, TypeOK
  <1>6. /\ originals \subseteq originals'
        /\ whole => h \in originals' /\ instrumented'[<<Key(h), p>>] = v
        /\ ~whole => UNCHANGED instrumented
        /\ \A k \in Keys, q \in Presets : <<k, q>> # <<Key(h), p>> =>
              instrumented'[<<k, q>>] = instrumented[<<k, q>>]
    BY <1>1 DEF InstrumentAndLoad, InsertInstrumentedKernelIntoMap, TypeOK
  <1>7. /\ OfTool(v)' /\ ~OfTool(v) /\ ~OfApp(v) /\ ~OfApp(v)'
        /\ \A g \in Handles \ {v} : /\ Live(g)' <=> Live(g)
                                    /\ OfTool(g)' <=> OfTool(g)
                                    /\ OfApp(g)' <=> OfApp(g)
                                    /\ Key(g)' = Key(g)
    BY <1>1, <1>2 DEF OfTool, OfApp, Live, Key
  <1>8. Unused'
    <2>1. ASSUME NEW g \in Handles, g \notin used', NEW t \in Symbols, NEW q \in Presets
          PROVE  instrumented'[<<<<g, t>>, q>>] = None
      <3>1. g \notin used /\ g # h
        BY <1>1, <2>1 DEF Fresh, Unused, OfApp, Live
      <3> QED  BY <1>6, <3>1 DEF Fresh, Unused, Key, Keys
    <2> QED  BY <1>1, <1>2, <1>4, <1>5, <2>1 DEF Fresh, Unused
  <1>9. CacheFresh'
    BY <1>2, <1>4, <1>7 DEF Fresh, CacheFresh
  <1>10. LiftedFresh'
    BY <1>1, <1>2, <1>7 DEF Fresh, LiftedFresh
  <1>11. ASSUME NEW g \in Handles, NEW w \in Handles, NEW q \in Presets,
                OfApp(g)', instrumented'[<<Key(g)', q>>] = w
         PROVE  g \in originals' /\ VersionOf(g, q, w)'
    <2>1. /\ g # v /\ OfApp(g) /\ Key(g)' = Key(g) /\ Key(g) \in Keys
          /\ lco'[g] = lco[g]
      BY <1>2, <1>7, <1>11, LiveTyped DEF OfApp
    <2>2. CASE instrumented[<<Key(g), q>>] = w
      <3>1. g \in originals /\ VersionOf(g, q, w)
        BY <2>1, <2>2 DEF Fresh, VersionsFresh
      <3>2. w # v
        BY <1>7, <3>1 DEF VersionOf
      <3> QED  BY <1>2, <1>4, <1>6, <1>7, <2>1, <3>1, <3>2 DEF VersionOf
    <2>3. CASE instrumented[<<Key(g), q>>] # w
      <3>1. whole /\ Key(g) = Key(h) /\ q = p
        BY <1>1, <1>6, <1>11, <2>1, <2>3
      <3>2. g = h /\ w = v
        BY <1>6, <1>11, <2>1, <3>1 DEF Key
      <3> QED  BY <1>2, <1>3, <1>4, <1>6, <1>7, <2>1, <3>1, <3>2 DEF VersionOf
    <2> QED  BY <2>2, <2>3
  <1>12. ReadersKnown' /\ ReadersCreated'
    <2>1. \A w \in Handles : OfTool(w) => lco[w].reader <= created
      BY DEF Fresh, ReadersKnown, ReadersCreated
    <2>2. ReadersCreated'
      BY <1>1 DEF Fresh, ReadersCreated, TypeOK
    <2>3. ASSUME NEW w \in Handles, OfTool(w)'
          PROVE  lco'[w].reader \in readers' /\ info'[w] = lco'[w].reader
      BY <1>1, <1>2, <1>5, <1>7, <2>3 DEF Fresh, ReadersKnown
    <2>4. ASSUME NEW w \in Handles, NEW x \in Handles, OfTool(w)', OfTool(x)', x # w
          PROVE  lco'[x].reader # lco'[w].reader
      <3>1. created \in Nat /\ ~(created + 1 <= created)
        BY DEF TypeOK
      <3> QED  BY <1>2, <1>7, <2>1, <2>4, <3>1 DEF Fresh, ReadersKnown
    <2> QED  BY <2>2, <2>3, <2>4 DEF ReadersKnown
  <1>13. ASSUME NEW w \in Handles, NEW g \in Handles, OfTool(w)', lco'[w].whole,
                lco'[w].boundTo = g
         PROVE  OfApp(g)' /\ \E q \in Presets : instrumented'[<<Key(g)', q>>] = w
    <2>1. CASE w = v
      BY <1>1, <1>2, <1>6, <1>7, <1>13, <2>1
    <2>2. CASE w # v
      <3>1. OfTool(w) /\ lco[w].whole /\ lco[w].boundTo = g
        BY <1>2, <1>7, <1>13, <2>2
      <3>2. OfApp(g)
        BY <3>1 DEF Fresh, BoundKnown
      <3>3. PICK q \in Presets : instrumented[<<Key(g), q>>] = w
        BY <3>1 DEF Fresh, BoundKnown
      <3>4. g # v /\ Key(g) \in Keys /\ w # None
        BY <1>7, <3>2, LiveTyped, KernelCachesAssumption DEF OfApp
      <3>5. instrumented'[<<Key(g), q>>] = w
        BY <1>1, <1>6, <3>3, <3>4
      <3> QED  BY <1>7, <3>2, <3>4, <3>5
    <2> QED  BY <2>1, <2>2
  <1>14. (unregisters => NoOrphans /\ ~fatal)'
    BY <1>1, <1>2, <1>7, KernelCachesAssumption DEF Fresh, NoOrphans
  <1> QED  BY <1>8, <1>9, <1>10, <1>11, <1>12, <1>13, <1>14
           DEF Fresh, VersionsFresh, BoundKnown

(* The kernel that replaces h's is the version of h that was asked for.      *)
LEMMA OverrideIsFaithful ==
    ASSUME TypeOK, TypeOK', Fresh, NEW h \in Handles, NEW p \in Presets,
           Override(h, p)
    PROVE  packet'.runs = packet'.wanted /\ packet'.metadata = packet'.wanted
           /\ packet'.bound
  <1> DEFINE v == Target(h, p)
             image == lco[h].image
  <1>1. OfApp(h) /\ Key(h) \in Keys /\ image \in Image
    BY LiveTyped DEF Override, OfApp
  <1>2. v \in Handles /\ instrumented[<<Key(h), p>>] = v
    BY <1>1 DEF Override, IsKernelInstrumented, Target, TypeOK
  <1>3. VersionOf(h, p, v)
    BY <1>1, <1>2 DEF Fresh, VersionsFresh
  <1>4. lco[v].image = [image EXCEPT !.preset = p]
    <2> DEFINE other == lco[v].image
    <2>1. other \in Image /\ other.code = image.code /\ other.name = image.name
          /\ other.preset = p
      BY <1>2, <1>3, LiveTyped DEF VersionOf, OfTool
    <2> HIDE DEF image, other
    <2>2. other = [image EXCEPT !.preset = p]
      BY <1>1, <2>1 DEF Image
    <2> QED  BY <2>2 DEF image, other
  <1>5. Live(v) /\ lco[v].boundTo = h /\ elf[v] = lco[v].image
    BY <1>3 DEF VersionOf, OfTool
  <1>6. packet' = [wanted |-> [image EXCEPT !.preset = p],
                   runs |-> lco[v].image, metadata |-> elf[v], bound |-> TRUE]
    BY <1>5, Zenon DEF Override
  <1> QED  BY <1>4, <1>5, <1>6

-----------------------------------------------------------------------------
(* A handle that was given again stays so, and only Override fills packet.   *)
LEMMA NextReuses ==
    ASSUME TypeOK, [Next]_vars
    PROVE  /\ ~reused' => ~reused
           /\ \/ packet' = None \/ UNCHANGED vars
              \/ \E h \in Handles, p \in Presets : Override(h, p)
  <1> DEFINE Goal == (~reused' => ~reused) /\ packet' = None
  <1>1. ASSUME NEW h \in Handles, NEW c \in Codes, NEW s \in Symbols,
               AppLoad(h, c, s)
        PROVE  Goal
    BY <1>1, Zenon DEF AppLoad, Dispatching, Give
  <1>2. ASSUME NEW h \in Handles, NEW p \in Presets, NEW v \in Handles,
               NEW s \in Symbols, NEW whole \in BOOLEAN,
               InstrumentAndLoad(h, p, v, s, whole)
        PROVE  Goal
    BY <1>2, Zenon DEF InstrumentAndLoad, Dispatching, Give
  <1>3. ASSUME NEW h \in Handles,
               \/ CacheOnLoad(h) \/ AppDestroy(h) \/ AppDestroyFails(h) \/ Lift(h)
               \/ \E p \in Presets : InstrumentFails(h, p)
        PROVE  Goal
    BY <1>3 DEF CacheOnLoad, AppDestroy, AppDestroyFails, Lift,
                InstrumentFails, Dispatching
  <1>4. ASSUME NEW h \in Handles, NEW p \in Presets, Override(h, p)
        PROVE  UNCHANGED reused
    BY <1>4 DEF Override
  <1>5. CASE UNCHANGED vars
    BY <1>5 DEF vars
  <1> HIDE DEF Goal
  <1>6. Goal \/ UNCHANGED vars \/ \E h \in Handles, p \in Presets : Override(h, p)
    BY <1>1, <1>2, <1>3 DEF Next
  <1> QED  BY <1>4, <1>5, <1>6 DEF Goal

(* Steps that change none of it but create readers.                          *)
LEMMA RestFresh ==
    ASSUME Fresh, ReadersCreated', readers \subseteq readers',
           UNCHANGED <<lco, used, elf, lifted, instrumented, info, originals,
                       fatal, unregisters>>
    PROVE  Fresh'
  <1>1. \A g \in Handles : /\ Live(g)' <=> Live(g)
                           /\ OfApp(g)' <=> OfApp(g)
                           /\ OfTool(g)' <=> OfTool(g)
                           /\ Key(g)' = Key(g)
    BY DEF Live, OfApp, OfTool, Key
  <1>2. Unused' /\ CacheFresh' /\ LiftedFresh'
    BY <1>1 DEF Fresh, Unused, CacheFresh, LiftedFresh
  <1>3. VersionsFresh'
    BY <1>1 DEF Fresh, VersionsFresh, VersionOf
  <1>4. ReadersKnown'
    BY <1>1 DEF Fresh, ReadersKnown
  <1>5. BoundKnown' /\ (unregisters => NoOrphans /\ ~fatal)'
    BY <1>1 DEF Fresh, BoundKnown, NoOrphans
  <1> QED  BY <1>2, <1>3, <1>4, <1>5 DEF Fresh

LEMMA NextFresh ==
    ASSUME TypeOK, LiftedCached, TypeOK', Fresh, [Next]_vars, ~reused'
    PROVE  Fresh'
  <1>1. ASSUME NEW h \in Handles, CacheOnLoad(h)
        PROVE  Fresh'
    BY <1>1, CachingFresh DEF CacheOnLoad, OfApp
  <1>2. ASSUME NEW h \in Handles, NEW p \in Presets, Override(h, p)
        PROVE  Fresh'
    BY <1>2, CachingFresh DEF Override, OfApp
  <1>3. ASSUME NEW h \in Handles, AppDestroyFails(h)
        PROVE  Fresh'
    BY <1>3, UnregisterSucceeds DEF AppDestroyFails, Fresh
  <1>4. ASSUME NEW h \in Handles, NEW p \in Presets, InstrumentFails(h, p)
        PROVE  Fresh'
    <2>1. UNCHANGED <<lco, used, elf, lifted, instrumented, info, originals,
                      fatal, unregisters>>
      BY <1>4 DEF InstrumentFails
    <2>2. readers \subseteq readers' /\ ReadersCreated'
      BY <1>4 DEF InstrumentFails, Fresh, ReadersCreated, TypeOK
    <2> QED  BY <2>1, <2>2, RestFresh
  <1>5. CASE UNCHANGED vars
    BY <1>5, RestFresh DEF vars, Fresh, ReadersCreated
  <1> QED  BY <1>1, <1>2, <1>3, <1>4, <1>5, AppLoadFresh, AppDestroyFresh,
              LiftFresh, InstrumentAndLoadFresh DEF Next

LEMMA InitCachesInv == Init => CachesInv
  BY InitTyped, InitFresh DEF CachesInv, OverrideFaithful, Init

LEMMA NextCachesInv == CachesInv /\ [Next]_vars => CachesInv'
  <1> SUFFICES ASSUME CachesInv, [Next]_vars
               PROVE  CachesInv'
    OBVIOUS
  <1>1. TypeOK' /\ LiftedCached'
    BY NextTyped DEF CachesInv
  <1>2. (~reused => Fresh)'
    BY <1>1, NextReuses, NextFresh DEF CachesInv
  <1>3. OverrideFaithful'
    BY <1>1, NextReuses, OverrideIsFaithful
    DEF CachesInv, OverrideFaithful, vars
  <1> QED  BY <1>1, <1>2, <1>3 DEF CachesInv

LEMMA CachesInvariant == Spec => []CachesInv
  BY InitCachesInv, NextCachesInv, PTL DEF Spec

(* The storage ELF that is cached of a loaded code object is its own, until  *)
(* the loader gives a handle again, whoever asked for it first.              *)
THEOREM AlwaysCacheFresh == Spec => []CacheFreshAtFirst
  <1>1. CachesInv => CacheFreshAtFirst
    BY DEF CachesInv, Fresh, CacheFreshAtFirst
  <1> QED  BY <1>1, CachesInvariant, PTL

(* Until then overrideWithInstrumented gives a packet the version of its     *)
(* kernel that was asked for, bound to the variables of the loaded original, *)
(* with that version's metadata.                                             *)
THEOREM AlwaysOverrideFaithful == Spec => []OverrideFaithful
  <1>1. CachesInv => OverrideFaithful
    BY DEF CachesInv
  <1> QED  BY <1>1, CachesInvariant, PTL

(* Where unregisterIfLuthierToolExecutable is called, no version outlives    *)
(* its original, and the call has no error to report as fatal.               *)
THEOREM InstrumentedAlwaysDie == Spec => []InstrumentedDieWithOriginal
  <1>1. CachesInv => InstrumentedDieWithOriginal
    BY DEF CachesInv, Fresh, InstrumentedDieWithOriginal
  <1> QED  BY <1>1, CachesInvariant, PTL

(* The reader of a version that goes is destroyed in the same step.          *)
THEOREM ReadersAlwaysDestroyed == Spec => ReadersDestroyed
  <1> DEFINE Destroys == \A h \in Handles :
          OfTool(h) /\ lco'[h] = None /\ ~reused => lco[h].reader \notin readers'
  <1>1. CachesInv /\ CachesInv' /\ [Next]_vars => [Destroys]_vars
    <2> SUFFICES ASSUME CachesInv, CachesInv', Next, NEW g \in Handles,
                        OfTool(g), lco'[g] = None, ~reused
                 PROVE  lco[g].reader \notin readers'
      BY DEF vars
    <2>1. PICK h \in Handles : AppDestroy(h)
      <3>1. ASSUME NEW h \in Handles, NEW c \in Codes, NEW s \in Symbols,
                   AppLoad(h, c, s)
            PROVE  FALSE
        BY <3>1, AppLoaded, NoneAssumption DEF CachesInv, OfTool, Live
      <3>2. ASSUME NEW h \in Handles, NEW p \in Presets, NEW v \in Handles,
                   NEW s \in Symbols, NEW whole \in BOOLEAN,
                   InstrumentAndLoad(h, p, v, s, whole)
            PROVE  FALSE
        BY <3>2, NewVersion, NoneAssumption DEF CachesInv, OfTool, Live
      <3>3. lco' # lco
        BY DEF OfTool, Live
      <3> QED  BY <3>1, <3>2, <3>3
               DEF Next, CacheOnLoad, AppDestroyFails, Lift, InstrumentFails, Override
    <2>2. OfApp(h) /\ g \in Gone(h)
      BY <2>1, Destroyed DEF CachesInv, AppDestroy, Live, OfTool
    <2>3. g # h
      BY <2>2 DEF OfTool, OfApp
    <2>4. unregisters /\ lco[g].reader \in ReadersOf(h)
      BY <2>2, <2>3, VersionsOf DEF CachesInv, Fresh, Gone
    <2> QED  BY <2>1, <2>4 DEF AppDestroy
  <1> HIDE DEF Destroys
  <1>2. Spec => [][Destroys]_vars
    BY <1>1, CachesInvariant, PTL DEF Spec
  <1> QED  BY <1>2 DEF ReadersDestroyed, Destroys

===============================================================================
