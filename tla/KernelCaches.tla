----------------------------- MODULE KernelCaches -----------------------------
(***************************************************************************)
(* What Luthier remembers about loaded code objects, and what becomes of   *)
(* it as the application loads and destroys executables: the storage-ELF   *)
(* cache (ExecutableBackedObjectsCache), the lifted representations        *)
(* (CodeLifter), and the instrumented executables with their code object   *)
(* readers (ToolExecutableLoader), from which overrideWithInstrumented     *)
(* takes the kernel a dispatch packet runs.                                *)
(*                                                                         *)
(* All of it is keyed by handles of the HSA runtime.  Each executable here *)
(* has one loaded code object with one kernel, so a handle stands for the  *)
(* executable and for its loaded code object.                              *)
(***************************************************************************)
EXTENDS Naturals, FiniteSets

CONSTANTS
    Handles,      \* handles the HSA loader has to give
    Symbols,      \* handles of executable symbols
    Codes,        \* contents of the application's code objects
    KernelName,   \* the name of the kernel in each code object
    Presets,      \* instrumentation presets
    None,
    Mixed,        \* a lifting of one code object's bytes by another's symbols
    ReusesHandles,  \* the loader gives handles of destroyed objects again
    Revisions,    \* of the HSA callback: see unregisters
    MaxReaders    \* bound: code object readers created

ASSUME KernelCachesAssumption ==
    /\ None \notin Handles \cup Codes \cup Presets
    /\ Mixed \notin Codes \cup {None}
    /\ ReusesHandles \in BOOLEAN /\ Revisions \subseteq BOOLEAN
    /\ MaxReaders \in Nat

VARIABLES
    lco,        \* per handle: the loaded code object the runtime has there
    used,       \* handles given out so far
    elf,        \* CachedLCOs: the image each cached storage ELF is of
    lifted,     \* LiftedKernelSymbols
    instrumented, \* OriginalToInstrumentedKernelsMap
    info,       \* InstrumentedLCOInfo: the recorded reader
    originals,  \* OriginalExecutablesWithKernelsInstrumented
    readers,    \* code object readers that were not destroyed
    created,    \* readers created so far
    packet,     \* the packet overrideWithInstrumented has just rewritten
    fatal,      \* LUTHIER_REPORT_FATAL_ON_ERROR ended the process
    unregisters, \* TRUE: unregisterIfLuthierToolExecutable is called before
                \* an executable is destroyed, as its documentation says;
                \* FALSE: this revision, where the calls are commented out
    reused      \* history: the loader has given some handle again

vars == <<lco, used, elf, lifted, instrumented, info, originals, readers,
          created, packet, fatal, reused, unregisters>>
loader == <<instrumented, info, originals, readers, created, fatal,
            unregisters>>

(* An image is code with a kernel of some name; preset is None in the        *)
(* application's own.  A code object of the tool has a reader and is bound   *)
(* to the variables of the original, as long as that is loaded; whole is     *)
(* FALSE when its loading stopped half way.                                  *)
Image == [code : Codes \cup {Mixed}, name : {KernelName[c] : c \in Codes},
          preset : Presets \cup {None}]
Lco == [owner : {"app", "tool"}, image : Image, symbol : Symbols,
        reader : 0..MaxReaders, boundTo : Handles \cup {None}, whole : BOOLEAN]
Keys == Handles \X Symbols
NoReader == 0

(* None stands for the absence of an image or of a code object.              *)
ASSUME NoneAssumption == None \notin Image \cup Lco

TypeOK ==
    /\ lco \in [Handles -> Lco \cup {None}]
    /\ used \subseteq Handles
    /\ elf \in [Handles -> Image \cup {None}]
    /\ lifted \in [Keys -> Codes \cup {Mixed, None}]
    /\ instrumented \in [Keys \X Presets -> Handles \cup {None}]
    /\ info \in [Handles -> 0..MaxReaders]
    /\ originals \subseteq Handles
    /\ readers \subseteq 1..MaxReaders
    /\ created \in 0..MaxReaders
    /\ packet \in [wanted : Image, runs : Image \cup {None},
                   metadata : Image \cup {None}, bound : BOOLEAN] \cup {None}
    /\ {fatal, reused} \subseteq BOOLEAN /\ unregisters \in Revisions

Init ==
    /\ lco = [h \in Handles |-> None]
    /\ used = {}
    /\ elf = [h \in Handles |-> None]
    /\ lifted = [k \in Keys |-> None]
    /\ instrumented = [k \in Keys \X Presets |-> None]
    /\ info = [h \in Handles |-> NoReader]
    /\ originals = {} /\ readers = {} /\ created = 0
    /\ packet = None
    /\ fatal = FALSE /\ reused = FALSE /\ unregisters \in Revisions

-----------------------------------------------------------------------------
Live(h) == lco[h] # None
OfApp(h) == Live(h) /\ lco[h].owner = "app"
OfTool(h) == Live(h) /\ lco[h].owner = "tool"
(* The loader gives handle h to a new object.                                *)
Give(h) ==
    /\ ~Live(h) /\ (ReusesHandles \/ h \notin used)
    /\ used' = used \cup {h}
    /\ reused' = (reused \/ h \in used)

(* Equality of LoadedCodeObjectSymbols: the code object's handle, the ELF    *)
(* symbol, fixed once the code object is cached, and the symbol's handle.    *)
Key(h) == <<h, lco[h].symbol>>

(* An operator named Slip... is the definition after it with one plausible   *)
(* mistake in it; no specification uses one.                                 *)
SlipCached(h, image) == [g \in Handles |-> IF elf[g] = None THEN image ELSE elf[g]]

(* cacheOnCreation for a code object that isCached does not know: reached    *)
(* from the load callback and through every getStorageELF.                   *)
Cached(h, image) == [elf EXCEPT ![h] = IF @ = None THEN image ELSE @]

(* getKernelSymbols: the kernel of a code object is what the cached ELF says.*)
KernelSymbol(h) == Cached(h, lco[h].image)[h].name

(* LoadedCodeObjectKernel::create: a kernel the runtime knows no symbol of   *)
(* that name for cannot be made.                                             *)
CreateFails(h, name) == name # lco[h].image.name

(* fromLoadedAddress                                                         *)
Resolves(h) == ~CreateFails(h, KernelSymbol(h))

(* getLoadedCodeObjectSymbolByName, in a code object cached as image.        *)
HasSymbol(image, name) == image.name = name

Dispatching == ~fatal /\ packet' = None

-----------------------------------------------------------------------------
(* The application loads a code object; the load callback runs after it, and *)
(* other threads may have asked for the ELF before.                          *)
AppLoad(h, c, s) ==
    /\ Dispatching /\ Give(h)
    /\ lco' = [lco EXCEPT ![h] =
                 [owner |-> "app", symbol |-> s, reader |-> NoReader,
                  image |-> [code |-> c, name |-> KernelName[c],
                             preset |-> None],
                  boundTo |-> None, whole |-> TRUE]]
    /\ UNCHANGED <<elf, lifted, loader>>

CacheOnLoad(h) ==
    /\ Dispatching /\ OfApp(h)
    /\ elf' = Cached(h, lco[h].image)
    /\ UNCHANGED <<lco, used, reused, lifted, loader>>

-----------------------------------------------------------------------------
(* unregisterIfLuthierToolExecutable: the instrumented versions of the       *)
(* kernels of h that its maps know.  Neither InstrumentedLCOInfo nor         *)
(* OriginalExecutablesWithKernelsInstrumented loses its entry.               *)
SlipVersions(h) ==              \* stops at the first preset
    LET all == {instrumented[<<Key(h), p>>] : p \in Presets} \ {None}
    IN IF all = {} THEN {} ELSE {CHOOSE v \in all : TRUE}
Versions(h) ==
    IF h \in originals
    THEN {instrumented[<<Key(h), p>>] : p \in Presets} \ {None} ELSE {}

SlipReadersOf(h) == {}          \* readers are not destroyed
ReadersOf(h) == {info[v] : v \in Versions(h)}

Erased(h) == [k \in Keys \X Presets |->
    IF h \in originals /\ k[1] = Key(h) THEN None ELSE instrumented[k]]

(* Destroying a reader that no longer exists is an error of the runtime.     *)
UnregisterFails(h) ==
    h \in originals /\ (~Resolves(h) \/ ~(ReadersOf(h) \subseteq readers))

(* The application destroys an executable.  Before it goes, this revision's  *)
(* callback does nothing: its calls are commented out.                       *)
AppDestroy(h) ==
    LET gone == {h} \cup IF unregisters THEN Versions(h) ELSE {}
        Unbound(o) == IF o # None /\ o.boundTo = h
                      THEN [o EXCEPT !.boundTo = None] ELSE o
    IN
    /\ Dispatching /\ OfApp(h)
    /\ ~(unregisters /\ UnregisterFails(h))
    /\ lco' = [g \in Handles |-> IF g \in gone THEN None ELSE Unbound(lco[g])]
    /\ instrumented' = IF unregisters THEN Erased(h) ELSE instrumented
    /\ readers' = IF unregisters THEN readers \ ReadersOf(h) ELSE readers
    /\ UNCHANGED <<used, reused, elf, lifted, info, originals, created,
                   fatal, unregisters>>

(* The callback reports the error as fatal.                                  *)
AppDestroyFails(h) ==
    /\ Dispatching /\ OfApp(h)
    /\ unregisters /\ UnregisterFails(h)
    /\ fatal' = TRUE
    /\ UNCHANGED <<lco, used, reused, elf, lifted, instrumented, info,
                   originals, readers, created, unregisters>>

-----------------------------------------------------------------------------
(* CodeLifter::lift, under its CacheMutex: symbols from the cached ELF, the  *)
(* instructions from device memory.                                          *)
Lift(h) ==
    /\ Dispatching /\ OfApp(h) /\ Resolves(h)
    /\ elf' = Cached(h, lco[h].image)
    /\ lifted' = [lifted EXCEPT ![Key(h)] =
                    IF @ # None THEN @
                    ELSE IF elf'[h] = lco[h].image THEN lco[h].image.code
                    ELSE Mixed]
    /\ UNCHANGED <<lco, used, reused, loader>>

IsKernelInstrumented(h, p) == instrumented[<<Key(h), p>>] # None

(* Map insertions keep the entry that is there.                              *)
Record(v, r) == [info EXCEPT ![v] = IF @ = NoReader THEN r ELSE @]
InsertInstrumentedKernelIntoMap(h, p, v) ==
    [instrumented EXCEPT ![<<Key(h), p>>] = IF @ = None THEN v ELSE @]

(* instrumentAndLoad, from the lifted representation to the new executable,  *)
(* and loadInstrumentedKernel: a reader is created, a code object is loaded  *)
(* at v and cached, and the reader is recorded.  What follows may fail, and  *)
(* must when v's cached ELF has no kernel of the name.                       *)
InstrumentAndLoad(h, p, v, s, whole) ==
    LET r == created + 1
        image == [code |-> lifted[Key(h)], name |-> elf[h].name, preset |-> p]
    IN
    /\ Dispatching /\ OfApp(h) /\ Resolves(h) /\ lifted[Key(h)] # None
    /\ ~IsKernelInstrumented(h, p)
    /\ created < MaxReaders /\ Give(v)
    /\ created' = r /\ readers' = readers \cup {r}
    /\ lco' = [lco EXCEPT ![v] =
                 [owner |-> "tool", symbol |-> s, reader |-> r,
                  image |-> image, boundTo |-> h, whole |-> whole]]
    /\ elf' = Cached(v, image)
    /\ info' = Record(v, r)
    /\ whole => HasSymbol(elf'[v], elf[h].name)
    /\ IF whole
       THEN /\ instrumented' = InsertInstrumentedKernelIntoMap(h, p, v)
            /\ originals' = originals \cup {h}
       ELSE UNCHANGED <<instrumented, originals>>
    /\ UNCHANGED <<lifted, fatal, unregisters>>

(* The runtime refuses to load: the reader stays, unrecorded.                *)
InstrumentFails(h, p) ==
    /\ Dispatching /\ OfApp(h) /\ Resolves(h) /\ lifted[Key(h)] # None
    /\ ~IsKernelInstrumented(h, p)
    /\ created < MaxReaders
    /\ created' = created + 1 /\ readers' = readers \cup {created + 1}
    /\ UNCHANGED <<lco, used, reused, elf, lifted, instrumented, info,
                   originals, fatal, unregisters>>

SlipTarget(h, p) ==             \* any version will do
    CHOOSE v \in Handles : \E q \in Presets : v = instrumented[<<Key(h), q>>]
Target(h, p) == instrumented[<<Key(h), p>>]

(* overrideWithInstrumented on a packet that dispatches h's kernel: the      *)
(* kernel object of the version under p, and the segment size from the       *)
(* metadata that version had when it was loaded.                             *)
Override(h, p) ==
    LET v == Target(h, p) IN
    /\ ~fatal /\ OfApp(h) /\ Resolves(h) /\ IsKernelInstrumented(h, p)
    /\ elf' = Cached(h, lco[h].image)
    /\ packet' = [wanted |-> [lco[h].image EXCEPT !.preset = p],
                  runs |-> IF Live(v) THEN lco[v].image ELSE None,
                  metadata |-> elf[v],
                  bound |-> Live(v) /\ lco[v].boundTo = h]
    /\ UNCHANGED <<lco, used, reused, lifted, loader>>

-----------------------------------------------------------------------------
Next == \E h \in Handles :
    \/ \E c \in Codes, s \in Symbols : AppLoad(h, c, s)
    \/ CacheOnLoad(h)
    \/ AppDestroy(h)
    \/ AppDestroyFails(h)
    \/ Lift(h)
    \/ \E p \in Presets, v \in Handles, s \in Symbols, whole \in BOOLEAN :
         InstrumentAndLoad(h, p, v, s, whole)
    \/ \E p \in Presets : InstrumentFails(h, p)
    \/ \E p \in Presets : Override(h, p)

Spec == Init /\ [][Next]_vars

-----------------------------------------------------------------------------
(* What is cached of a code object that is loaded is the ELF it was loaded   *)
(* from, however it came into the cache and whichever thread asked first.    *)
CacheFresh == \A h \in Handles :
    Live(h) /\ elf[h] # None => elf[h] = lco[h].image

(* That is so until the loader gives a handle again.                         *)
CacheFreshAtFirst == ~reused => CacheFresh

(* Until then a rewritten packet runs the code the application loaded,       *)
(* instrumented under the preset that was asked for, bound to the variables  *)
(* of the loaded original and with the metadata of the version that runs.    *)
OverrideFaithful ==
    ~reused /\ packet # None =>
        packet.runs = packet.wanted /\ packet.metadata = packet.wanted
        /\ packet.bound

(* An instrumented executable does not outlive the original: its kernels     *)
(* would be bound to variables that are gone.                                *)
NoOrphans == \A h \in Handles :
    OfTool(h) /\ lco[h].whole => lco[h].boundTo # None

(* unregisterIfLuthierToolExecutable, where it is called, sees to that, and  *)
(* its errors, which would end the process, do not occur.                    *)
InstrumentedDieWithOriginal == unregisters /\ ~reused => NoOrphans /\ ~fatal

(* A reader whose code object was loaded whole is destroyed with it.         *)
ReadersDestroyed == [][\A h \in Handles :
    OfTool(h) /\ lco'[h] = None /\ ~reused => lco[h].reader \notin readers']_vars

=============================================================================
