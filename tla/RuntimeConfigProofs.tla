------------------------ MODULE RuntimeConfigProofs ------------------------
(***************************************************************************)
(* First about TypeRegistry, for any file types, processors, bindings and  *)
(* callers: the registries keep their types, a remembered view is never    *)
(* out of date, and bindings lead to what is registered unless a           *)
(* definition was removed from under them or two calls overlapped.         *)
(*                                                                         *)
(* Then about RuntimeConfig.  A run only reads the registries: what is     *)
(* shown of them holds while any number of threads change them under a     *)
(* run, and so a lookup of the run raises only if a definition was taken   *)
(* away from under its bindings or two threads' changes overlapped.        *)
(*                                                                         *)
(* What a run works with is followed through its stages: a chain of merges *)
(* leaves, of each kind of setting, the last that was told (StagesSay);    *)
(* the layers an API run keeps have their filters rewritten and still name *)
(* the same types (ScopesAreOwn); and the type a path gets is the best of  *)
(* those its filters allow (AnswersAreRight).                              *)
(***************************************************************************)
EXTENDS RuntimeConfig, TLAPS, SequenceLemmas

USE BaseAssumption

(* Every binding joins what is registered; a bind that has been checked still finds
   both its ends, and a processor about to be unregistered has no bindings. *)
BindingsWhole ==
    \A t \in FileTypes : BindingOf(t) # Nothing =>
        t \in FreshTypes /\ BindingOf(t) \in FreshProcessors

CallWhole(c) ==
    /\ calls[c] # Nothing /\ calls[c].op = "bind" /\ calls[c].stage = "checked" =>
          calls[c].type \in FreshTypes /\ calls[c].proc \in FreshProcessors
    /\ calls[c] # Nothing /\ calls[c].op = "unregister" /\ calls[c].stage = "unbound" =>
          BoundTo(calls[c].proc) = {}

FacadeKeeps ==
    ~direct /\ ~overlapped => BindingsWhole /\ \A c \in Callers : CallWhole(c)

-----------------------------------------------------------------------------
(* What a step can do to the registry of file types, and to that of processors. *)

TypesKept ==
    /\ typeAdded' = typeAdded /\ typeRemoved' = typeRemoved
    /\ typeView' \in {typeView, FreshTypes} /\ typeViewQ' \in {typeViewQ, FreshTypes}

TypeGained(t) ==
    /\ t \in FileTypes /\ t.key \notin Keys(FreshTypes)
    /\ typeAdded' = typeAdded \cup {t} /\ typeRemoved' = typeRemoved \ {t.key}
    /\ ForgetTypes

KeyDropped(key, seen) ==
    /\ key \in Keys(FileTypes)
    /\ seen \in {FreshTypes, ComposeTypes({t \in typeAdded : t.key # key}, typeRemoved)}
    /\ typeAdded' = {t \in typeAdded : t.key # key}
    /\ typeRemoved' = typeRemoved \cup ({key} \cap Keys(seen))
    /\ ForgetTypes

TypeEffect ==
    \/ TypesKept
    \/ \E t \in FileTypes : TypeGained(t)
    \/ \E key : \E seen : KeyDropped(key, seen)

ProcessorsKept ==
    /\ procAdded' = procAdded /\ procRemoved' = procRemoved
    /\ procView' \in {procView, FreshProcessors}

ProcessorGained(p) ==
    /\ p \in Processors
    /\ procAdded' = procAdded \cup {p} /\ procRemoved' = procRemoved \ {p}
    /\ procView' = NoView

ProcessorDropped(p, seen) ==
    /\ p \in Processors
    /\ seen \in {FreshProcessors, ComposeProcessors(procAdded \ {p}, procRemoved)}
    /\ procAdded' = procAdded \ {p}
    /\ procRemoved' = procRemoved \cup ({p} \cap seen)
    /\ procView' = NoView

ProcessorEffect ==
    \/ ProcessorsKept
    \/ \E p \in Processors : ProcessorGained(p)
    \/ \E p : \E seen : ProcessorDropped(p, seen)

LEMMA ViewsTell ==
    ASSUME RegistryTypeOK, ViewsAreCurrent
    PROVE  /\ LocalTypes = FreshTypes /\ KnownTypes = FreshTypes
           /\ KnownProcessors = FreshProcessors
           /\ FreshTypes \in SUBSET FileTypes /\ FreshProcessors \in SUBSET Processors
<1>1. LocalTypes = FreshTypes
  BY DEF ViewsAreCurrent, LocalTypes, FreshTypes
<1>2. KnownTypes = FreshTypes
  BY <1>1 DEF ViewsAreCurrent, KnownTypes
<1>3. KnownProcessors = FreshProcessors
  BY DEF ViewsAreCurrent, KnownProcessors, FreshProcessors
<1>4. FreshTypes \in SUBSET FileTypes
  BY DEF RegistryTypeOK, FreshTypes, ComposeTypes
<1>5. FreshProcessors \in SUBSET Processors
  BY DEF RegistryTypeOK, FreshProcessors, ComposeProcessors
<1> QED BY <1>1, <1>2, <1>3, <1>4, <1>5

LEMMA ReadsKeep ==
    ASSUME RegistryTypeOK, ViewsAreCurrent
    PROVE  /\ SeeLocalTypes \/ SeeTypes \/ UNCHANGED typeVars => TypesKept
           /\ SeeProcessors \/ UNCHANGED procVars => ProcessorsKept
           /\ SeeBindings => TypesKept /\ ProcessorsKept
<1>1. SeeLocalTypes \/ SeeTypes \/ UNCHANGED typeVars => TypesKept
  BY ViewsTell DEF SeeLocalTypes, SeeTypes, typeVars, TypesKept
<1>2. SeeProcessors \/ UNCHANGED procVars => ProcessorsKept
  BY ViewsTell DEF SeeProcessors, procVars, ProcessorsKept
<1> QED BY <1>1, <1>2 DEF SeeBindings, typeVars, procVars

LEMMA DropTypeEffect ==
    ASSUME RegistryTypeOK, ViewsAreCurrent,
           NEW key \in Keys(FileTypes), NEW view,
           view \in {NoView, FreshTypes}, DropType(key, view)
    PROVE  TypeEffect
<1> DEFINE left == {t \in typeAdded : t.key # key}
           seen == IF view = NoView THEN ComposeTypes(left, typeRemoved) ELSE view
<1>1. KeyDropped(key, seen)
  BY DEF DropType, KeyDropped
<1> QED BY <1>1 DEF TypeEffect

LEMMA DropProcessorEffect ==
    ASSUME RegistryTypeOK, ViewsAreCurrent, NEW p \in Processors, DropProcessor(p)
    PROVE  ProcessorEffect
<1> DEFINE left == procAdded \ {p}
           seen == IF procView = NoView THEN ComposeProcessors(left, procRemoved)
                   ELSE procView
<1>1. seen \in {FreshProcessors, ComposeProcessors(left, procRemoved)}
  BY DEF ViewsAreCurrent
<1>2. ProcessorDropped(p, seen)
  BY <1>1 DEF DropProcessor, ProcessorDropped
<1> QED BY <1>2 DEF ProcessorEffect

(* What any operation does to the definitions is one of the effects above. *)
LEMMA StepEffect ==
    ASSUME RegistryTypeOK, ViewsAreCurrent, [RegistryNext]_registryVars
    PROVE  TypeEffect /\ ProcessorEffect
<1>k. TypesKept => TypeEffect
  BY DEF TypeEffect
<1>l. ProcessorsKept => ProcessorEffect
  BY DEF ProcessorEffect
<1>v. LocalTypes = FreshTypes /\ KnownTypes = FreshTypes /\ KnownProcessors = FreshProcessors
  BY ViewsTell
<1>1. CASE UNCHANGED registryVars
  BY <1>1, <1>k, <1>l, ReadsKeep DEF registryVars
<1>2. CASE Read
  BY <1>2, <1>k, <1>l, ReadsKeep DEF Read
<1>3. ASSUME NEW c \in Callers, NEW t \in FileTypes, RegisterType(c, t)
      PROVE  TypeEffect /\ ProcessorEffect
  <2>1. ProcessorEffect
    BY <1>3, <1>l, ReadsKeep DEF RegisterType
  <2>2. TypesKept \/ TypeGained(t)
    BY <1>3, <1>v, ReadsKeep DEF RegisterType, TypeGained
  <2> QED BY <2>1, <2>2 DEF TypeEffect
<1>4. ASSUME NEW c \in Callers, NEW t \in FileTypes, UnregisterTypeByKey(c, t.key)
      PROVE  TypeEffect /\ ProcessorEffect
  <2>1. ProcessorEffect
    BY <1>4, <1>l, ReadsKeep DEF UnregisterTypeByKey
  <2>2. t.key \in Keys(FileTypes)
    BY DEF Keys
  <2> QED BY <1>4, <2>1, <2>2, DropTypeEffect DEF UnregisterTypeByKey, ViewsAreCurrent
<1>5. ASSUME NEW c \in Callers, NEW t \in FileTypes, UnregisterType(c, t)
      PROVE  TypeEffect /\ ProcessorEffect
  <2>1. ProcessorEffect
    BY <1>5, <1>l, ReadsKeep DEF UnregisterType
  <2>2. CASE t \notin KnownTypes
    BY <1>5, <2>1, <2>2, <1>k, ReadsKeep DEF UnregisterType
  <2>3. CASE t \in KnownTypes
    <3>1. t.key \in Keys(FileTypes)
      BY DEF Keys
    <3> DEFINE view == IF typeViewQ = NoView THEN LocalTypes ELSE typeView
    <3>2. view \in {NoView, FreshTypes}
      BY <1>v DEF ViewsAreCurrent
    <3>3. DropType(t.key, view)
      BY <1>5, <2>3 DEF UnregisterType
    <3> QED BY <2>1, <3>1, <3>2, <3>3, DropTypeEffect
  <2> QED BY <2>2, <2>3
<1>6. ASSUME NEW c \in Callers, NEW t \in FileTypes, CallUnbind(c, t)
      PROVE  TypeEffect /\ ProcessorEffect
  BY <1>6, <1>k, <1>l, ReadsKeep DEF CallUnbind
<1>7. ASSUME NEW c \in Callers, NEW p \in Processors, RegisterProcessor(c, p)
      PROVE  TypeEffect /\ ProcessorEffect
  <2>1. TypeEffect
    BY <1>7, <1>k, ReadsKeep DEF RegisterProcessor
  <2>2. ProcessorsKept \/ ProcessorGained(p)
    BY <1>7, ReadsKeep DEF RegisterProcessor, ProcessorGained
  <2> QED BY <2>1, <2>2 DEF ProcessorEffect
<1>8. ASSUME NEW c \in Callers, NEW p \in Processors, UnregisterProcessor(c, p)
      PROVE  TypeEffect /\ ProcessorEffect
  BY <1>8, <1>k, ReadsKeep, DropProcessorEffect DEF UnregisterProcessor
<1>9. ASSUME NEW c \in Callers, NEW p \in Processors, UnbindProcessor(c, p)
      PROVE  TypeEffect /\ ProcessorEffect
  BY <1>9, <1>k, <1>l, ReadsKeep DEF UnbindProcessor, UnbindAllOf
<1>10. ASSUME NEW c \in Callers, NEW p \in Processors, NEW t \in FileTypes, CallBind(c, t, p)
       PROVE  TypeEffect /\ ProcessorEffect
  BY <1>10, <1>k, <1>l, ReadsKeep DEF CallBind
<1>11. ASSUME NEW c \in Callers, NEW p \in Processors, NEW all \in BOOLEAN,
              CallUnregister(c, p, all)
       PROVE  TypeEffect /\ ProcessorEffect
  BY <1>11, <1>k, <1>l, ReadsKeep DEF CallUnregister
<1>12. ASSUME NEW c \in Callers, CheckBind(c)
       PROVE  TypeEffect /\ ProcessorEffect
  BY <1>12, <1>k, <1>l, ReadsKeep DEF CheckBind
<1>13. ASSUME NEW c \in Callers, CommitBind(c)
       PROVE  TypeEffect /\ ProcessorEffect
  BY <1>13, <1>k, <1>l, ReadsKeep DEF CommitBind
<1>14. ASSUME NEW c \in Callers, DoUnbind(c)
       PROVE  TypeEffect /\ ProcessorEffect
  BY <1>14, <1>k, <1>l, ReadsKeep DEF DoUnbind
<1>15. ASSUME NEW c \in Callers, UnregisterUnbinds(c)
       PROVE  TypeEffect /\ ProcessorEffect
  BY <1>15, <1>k, <1>l, ReadsKeep DEF UnregisterUnbinds, UnbindAllOf
<1>16. ASSUME NEW c \in Callers, UnregisterDrops(c)
       PROVE  TypeEffect /\ ProcessorEffect
  <2>1. calls[c].proc \in Processors
    BY <1>16 DEF UnregisterDrops, Open, RegistryTypeOK, Calls
  <2> QED BY <1>16, <2>1, <1>k, ReadsKeep, DropProcessorEffect DEF UnregisterDrops
<1> QED BY <1>1, <1>2, <1>3, <1>4, <1>5, <1>6, <1>7, <1>8, <1>9, <1>10, <1>11, <1>12,
           <1>13, <1>14, <1>15, <1>16 DEF RegistryNext, Begins, GoesOn

-----------------------------------------------------------------------------
(* What the effects leave registered. *)

LEMMA GainedType ==
    ASSUME RegistryTypeOK, NEW t \in FileTypes, TypeGained(t)
    PROVE  FreshTypes' = FreshTypes \cup {t}
BY DEF TypeGained, FreshTypes, ComposeTypes, Keys

LEMMA DroppedKey ==
    ASSUME RegistryTypeOK, NEW key, NEW seen, KeyDropped(key, seen)
    PROVE  FreshTypes' = {t \in FreshTypes : t.key # key}
<1> DEFINE left == {t \in typeAdded : t.key # key}
<1>1. typeAdded' = left /\ typeRemoved' = typeRemoved \cup ({key} \cap Keys(seen))
  BY DEF KeyDropped
<1>2. \A t \in BaseTypes : t.key # key =>
         (t.key \in Keys(left) <=> t.key \in Keys(typeAdded))
  BY DEF Keys
<1>3. \A t \in BaseTypes : t.key = key =>
         t.key \in typeRemoved' \/ t.key \in Keys(left)
  <2>1. SUFFICES ASSUME NEW t \in BaseTypes, t.key = key, key \notin Keys(left),
                        key \notin typeRemoved
                 PROVE  key \in Keys(seen)
    BY <1>1
  <2>2. CASE seen = ComposeTypes(left, typeRemoved)
    BY <2>1, <2>2 DEF ComposeTypes, Keys
  <2>3. CASE seen = FreshTypes
    BY <2>1, <2>3 DEF FreshTypes, ComposeTypes, Keys
  <2> QED BY <2>2, <2>3 DEF KeyDropped
<1>4. \A t \in BaseTypes : t.key # key => (t.key \in typeRemoved' <=> t.key \in typeRemoved)
  BY <1>1
<1>5. FreshTypes' = {t \in BaseTypes : t.key \notin typeRemoved' /\ t.key \notin Keys(left)}
                    \cup left
  BY <1>1 DEF FreshTypes, ComposeTypes
<1> QED BY <1>2, <1>3, <1>4, <1>5 DEF FreshTypes, ComposeTypes

LEMMA GainedProcessor ==
    ASSUME NEW p \in Processors, ProcessorGained(p)
    PROVE  FreshProcessors' = FreshProcessors \cup {p}
BY DEF ProcessorGained, FreshProcessors, ComposeProcessors

LEMMA DroppedProcessor ==
    ASSUME NEW p, NEW seen, ProcessorDropped(p, seen)
    PROVE  FreshProcessors' = FreshProcessors \ {p}
BY DEF ProcessorDropped, FreshProcessors, ComposeProcessors

(* An operation on the file types leaves the remembered views current. *)
LEMMA TypeViewsStayCurrent ==
    ASSUME RegistryTypeOK, ViewsAreCurrent, TypeEffect
    PROVE  /\ typeView' \in {NoView, FreshTypes'}
           /\ typeViewQ' \in {NoView, FreshTypes'}
           /\ \A t, u \in FreshTypes' : t.key = u.key => t = u
<1>1. CASE TypesKept
  <2>1. FreshTypes' = FreshTypes
    BY <1>1 DEF TypesKept, FreshTypes
  <2> QED BY <1>1, <2>1 DEF TypesKept, ViewsAreCurrent
<1>2. ASSUME NEW t \in FileTypes, TypeGained(t)
      PROVE  /\ typeView' \in {NoView, FreshTypes'}
             /\ typeViewQ' \in {NoView, FreshTypes'}
             /\ \A u, w \in FreshTypes' : u.key = w.key => u = w
  <2>1. FreshTypes' = FreshTypes \cup {t}
    BY <1>2, GainedType
  <2>2. \A u \in FreshTypes : u.key # t.key
    BY <1>2 DEF TypeGained, Keys
  <2> QED BY <1>2, <2>1, <2>2 DEF TypeGained, ForgetTypes, ViewsAreCurrent
<1>3. ASSUME NEW key, NEW seen, KeyDropped(key, seen)
      PROVE  /\ typeView' \in {NoView, FreshTypes'}
             /\ typeViewQ' \in {NoView, FreshTypes'}
             /\ \A u, w \in FreshTypes' : u.key = w.key => u = w
  <2>1. FreshTypes' = {t \in FreshTypes : t.key # key}
    BY <1>3, DroppedKey
  <2> QED BY <1>3, <2>1 DEF KeyDropped, ForgetTypes, ViewsAreCurrent
<1> QED BY <1>1, <1>2, <1>3 DEF TypeEffect

LEMMA ProcessorViewStaysCurrent ==
    ASSUME ViewsAreCurrent, ProcessorEffect
    PROVE  procView' \in {NoView, FreshProcessors'}
<1>1. CASE ProcessorsKept
  <2>1. FreshProcessors' = FreshProcessors
    BY <1>1 DEF ProcessorsKept, FreshProcessors
  <2> QED BY <1>1, <2>1 DEF ProcessorsKept, ViewsAreCurrent
<1>2. ASSUME NEW p \in Processors, ProcessorGained(p)
      PROVE  procView' \in {NoView, FreshProcessors'}
  BY <1>2 DEF ProcessorGained
<1>3. ASSUME NEW p, NEW seen, ProcessorDropped(p, seen)
      PROVE  procView' \in {NoView, FreshProcessors'}
  BY <1>3 DEF ProcessorDropped
<1> QED BY <1>1, <1>2, <1>3 DEF ProcessorEffect

-----------------------------------------------------------------------------
(* Types *)

LEMMA DefinitionsTyped ==
    ASSUME RegistryTypeOK, ViewsAreCurrent, TypeEffect, ProcessorEffect
    PROVE  /\ typeAdded' \subseteq FileTypes /\ typeRemoved' \subseteq Keys(FileTypes)
           /\ procAdded' \subseteq Processors /\ procRemoved' \subseteq Processors
<1>1. typeAdded' \subseteq FileTypes /\ typeRemoved' \subseteq Keys(FileTypes)
  <2>1. CASE TypesKept
    BY <2>1 DEF TypesKept, RegistryTypeOK
  <2>2. ASSUME NEW t \in FileTypes, TypeGained(t)
        PROVE  typeAdded' \subseteq FileTypes /\ typeRemoved' \subseteq Keys(FileTypes)
    BY <2>2 DEF TypeGained, RegistryTypeOK
  <2>3. ASSUME NEW key, NEW seen, KeyDropped(key, seen)
        PROVE  typeAdded' \subseteq FileTypes /\ typeRemoved' \subseteq Keys(FileTypes)
    BY <2>3 DEF KeyDropped, RegistryTypeOK
  <2> QED BY <2>1, <2>2, <2>3 DEF TypeEffect
<1>2. procAdded' \subseteq Processors /\ procRemoved' \subseteq Processors
  BY DEF ProcessorEffect, ProcessorsKept, ProcessorGained, ProcessorDropped, RegistryTypeOK
<1> QED BY <1>1, <1>2

LEMMA UnbindTyped ==
    ASSUME RegistryTypeOK, NEW types, types \subseteq FileTypes,
           Unbind(types) \/ UNCHANGED bindVars
    PROVE  bound' \in [FileTypes -> Processors \cup {Nothing}] /\ unbound' \subseteq FileTypes
BY DEF RegistryTypeOK, Unbind, bindVars

LEMMA CallsTyped ==
    ASSUME RegistryTypeOK, [RegistryNext]_registryVars
    PROVE  /\ bound' \in [FileTypes -> Processors \cup {Nothing}]
           /\ unbound' \subseteq FileTypes
           /\ calls' \in [Callers -> Calls \cup {Nothing}]
           /\ direct' \in BOOLEAN /\ overlapped' \in BOOLEAN
<1> DEFINE Bindings == bound' \in [FileTypes -> Processors \cup {Nothing}]
                       /\ unbound' \subseteq FileTypes
           Callings == calls' \in [Callers -> Calls \cup {Nothing}]
           Marks == direct' \in BOOLEAN /\ overlapped' \in BOOLEAN
<1>a. UNCHANGED bindVars => Bindings
  BY DEF bindVars, RegistryTypeOK
<1>b. UNCHANGED calls => Callings
  BY DEF RegistryTypeOK
<1>c. ASSUME NEW c \in Callers, NEW call \in Calls \cup {Nothing},
             calls' = [calls EXCEPT ![c] = call]
      PROVE  Callings
  BY <1>c DEF RegistryTypeOK
<1>d. ASSUME NEW c \in Callers, Enters(c), UNCHANGED direct
      PROVE  Marks
  BY <1>d DEF Enters, RegistryTypeOK
<1>e. ASSUME NEW c \in Callers, NEW now, Continues(c, now)
      PROVE  Marks
  BY <1>e DEF Continues, RegistryTypeOK
<1>f. ASSUME NEW c \in Callers, NEW now \in Calls \cup {Nothing}, Continues(c, now)
      PROVE  Callings
  BY <1>f, <1>c DEF Continues
<1>1. CASE UNCHANGED registryVars \/ Read
  BY <1>1, <1>a, <1>b DEF registryVars, Read, callVars, RegistryTypeOK
<1>2. ASSUME NEW c \in Callers, NEW t \in FileTypes,
             RegisterType(c, t) \/ UnregisterTypeByKey(c, t.key) \/ UnregisterType(c, t)
      PROVE  Bindings /\ Callings /\ Marks
  <2>1. Bindings /\ Callings
    BY <1>2, <1>a, <1>b DEF RegisterType, UnregisterTypeByKey, UnregisterType
  <2>2. Marks
    BY <1>2 DEF RegisterType, UnregisterTypeByKey, UnregisterType, Enters, RegistryTypeOK
  <2> QED BY <2>1, <2>2
<1>3. ASSUME NEW c \in Callers, NEW p \in Processors,
             RegisterProcessor(c, p) \/ UnregisterProcessor(c, p)
      PROVE  Bindings /\ Callings /\ Marks
  <2>1. Bindings /\ Callings
    BY <1>3, <1>a, <1>b DEF RegisterProcessor, UnregisterProcessor
  <2>2. Marks
    BY <1>3 DEF RegisterProcessor, UnregisterProcessor, Enters, RegistryTypeOK
  <2> QED BY <2>1, <2>2
<1>4. ASSUME NEW c \in Callers, NEW p \in Processors, UnbindProcessor(c, p)
      PROVE  Bindings /\ Callings /\ Marks
  <2>1. BoundTo(p) \subseteq FileTypes
    BY DEF BoundTo
  <2>2. Bindings
    BY <1>4, <2>1, UnbindTyped DEF UnbindProcessor, UnbindAllOf
  <2> QED BY <1>4, <1>b, <1>d, <2>2 DEF UnbindProcessor
<1>5. ASSUME NEW c \in Callers, NEW t \in FileTypes, NEW p \in Processors, CallBind(c, t, p)
      PROVE  Bindings /\ Callings /\ Marks
  <2>1. [op |-> "bind", type |-> t, proc |-> p, stage |-> "called"] \in Calls
    BY DEF Calls
  <2> QED BY <1>5, <1>a, <1>b, <1>c, <1>d, <2>1 DEF CallBind
<1>6. ASSUME NEW c \in Callers, NEW t \in FileTypes, CallUnbind(c, t)
      PROVE  Bindings /\ Callings /\ Marks
  <2>1. [op |-> "unbind", type |-> t, proc |-> Nothing, stage |-> "called"] \in Calls
    BY DEF Calls
  <2> QED BY <1>6, <1>a, <1>b, <1>c, <1>d, <2>1 DEF CallUnbind
<1>7. ASSUME NEW c \in Callers, NEW p \in Processors, NEW all \in BOOLEAN,
             CallUnregister(c, p, all)
      PROVE  Bindings /\ Callings /\ Marks
  <2> DEFINE call == [op |-> "unregister", type |-> Nothing, proc |-> p,
                      stage |-> IF all THEN "called" ELSE "unbound"]
  <2>1. call \in Calls
    BY DEF Calls
  <2> HIDE DEF call
  <2>2. UNCHANGED calls \/ calls' = [calls EXCEPT ![c] = call]
    BY <1>7 DEF CallUnregister, call
  <2> QED BY <1>7, <1>a, <1>b, <1>c, <1>d, <2>1, <2>2 DEF CallUnregister
<1>8. ASSUME NEW c \in Callers, CheckBind(c)
      PROVE  Bindings /\ Callings /\ Marks
  <2>1. calls[c] \in Calls /\ [calls[c] EXCEPT !.stage = "checked"] \in Calls
    BY <1>8 DEF CheckBind, Open, RegistryTypeOK, Calls
  <2>2. \E now \in Calls \cup {Nothing} : Continues(c, now)
    BY <1>8, <2>1 DEF CheckBind
  <2> QED BY <1>8, <1>a, <1>e, <1>f, <2>2 DEF CheckBind
<1>9. ASSUME NEW c \in Callers, CommitBind(c)
      PROVE  Bindings /\ Callings /\ Marks
  <2>1. calls[c].type \in FileTypes /\ calls[c].proc \in Processors
    BY <1>9 DEF CommitBind, Open, RegistryTypeOK, Calls
  <2>2. Bindings
    BY <1>9, <2>1 DEF CommitBind, RegistryTypeOK
  <2> QED BY <1>9, <1>e, <1>f, <2>2 DEF CommitBind
<1>10. ASSUME NEW c \in Callers, DoUnbind(c)
       PROVE  Bindings /\ Callings /\ Marks
  <2>1. calls[c].type \in FileTypes
    BY <1>10 DEF DoUnbind, Open, RegistryTypeOK, Calls
  <2>2. Unbind({calls[c].type}) \/ UNCHANGED bindVars
    BY <1>10 DEF DoUnbind
  <2>3. {calls[c].type} \subseteq FileTypes
    BY <2>1
  <2>4. Bindings
    BY <2>2, <2>3, UnbindTyped
  <2> QED BY <1>10, <1>e, <1>f, <2>4 DEF DoUnbind
<1>11. ASSUME NEW c \in Callers, UnregisterUnbinds(c)
       PROVE  Bindings /\ Callings /\ Marks
  <2>1. calls[c] \in Calls /\ [calls[c] EXCEPT !.stage = "unbound"] \in Calls
    BY <1>11 DEF UnregisterUnbinds, Open, RegistryTypeOK, Calls
  <2>2. \E now \in Calls \cup {Nothing} : Continues(c, now)
    BY <1>11, <2>1 DEF UnregisterUnbinds
  <2>3. BoundTo(calls[c].proc) \subseteq FileTypes
    BY DEF BoundTo
  <2>4. Bindings
    BY <1>11, <2>3, UnbindTyped DEF UnregisterUnbinds, UnbindAllOf
  <2> QED BY <1>e, <1>f, <2>2, <2>4
<1>12. ASSUME NEW c \in Callers, UnregisterDrops(c)
       PROVE  Bindings /\ Callings /\ Marks
  BY <1>12, <1>a, <1>e, <1>f DEF UnregisterDrops
<1> QED BY <1>1, <1>2, <1>3, <1>4, <1>5, <1>6, <1>7, <1>8, <1>9, <1>10, <1>11, <1>12
        DEF RegistryNext, Begins, GoesOn

-----------------------------------------------------------------------------
(* The invariant of the definitions, and what it gives. *)

LEMMA InitDefinitions == RegistryInit => RegistryTypeOK /\ ViewsAreCurrent
<1> SUFFICES ASSUME RegistryInit PROVE RegistryTypeOK /\ ViewsAreCurrent
  OBVIOUS
<1>1. RegistryTypeOK
  BY DEF RegistryInit, RegistryTypeOK, NoView
<1>2. FreshTypes = BaseTypes
  BY DEF RegistryInit, FreshTypes, ComposeTypes, Keys
<1> QED BY <1>1, <1>2 DEF RegistryInit, ViewsAreCurrent

(* The invariant that the operations preserve is that of the theorems below:
   views that are current are what types the next change of an overlay. *)
LEMMA StepDefinitions ==
    RegistryTypeOK /\ ViewsAreCurrent /\ [RegistryNext]_registryVars
        => RegistryTypeOK' /\ ViewsAreCurrent'
<1> SUFFICES ASSUME RegistryTypeOK, ViewsAreCurrent, [RegistryNext]_registryVars
             PROVE  RegistryTypeOK' /\ ViewsAreCurrent'
  OBVIOUS
<1>1. TypeEffect /\ ProcessorEffect
  BY StepEffect
<1>2. ViewsAreCurrent'
  BY <1>1, TypeViewsStayCurrent, ProcessorViewStaysCurrent DEF ViewsAreCurrent
<1>3. /\ typeAdded' \subseteq FileTypes /\ typeRemoved' \subseteq Keys(FileTypes)
      /\ procAdded' \subseteq Processors /\ procRemoved' \subseteq Processors
  BY <1>1, DefinitionsTyped
<1>4. FreshTypes' \subseteq FileTypes /\ FreshProcessors' \subseteq Processors
  BY <1>3 DEF FreshTypes, ComposeTypes, FreshProcessors, ComposeProcessors
<1> QED BY <1>2, <1>3, <1>4, CallsTyped DEF RegistryTypeOK, ViewsAreCurrent

(* Whatever is registered, bound and removed, by however many callers, the
   overlays, the remembered views, the bindings and the calls keep their types. *)
THEOREM RegistryTypes == RegistrySpec => []RegistryTypeOK
<1>1. RegistryInit => RegistryTypeOK /\ ViewsAreCurrent
  BY InitDefinitions
<1>2. RegistryTypeOK /\ ViewsAreCurrent /\ [RegistryNext]_registryVars
          => RegistryTypeOK' /\ ViewsAreCurrent'
  BY StepDefinitions
<1> QED BY <1>1, <1>2, PTL DEF RegistrySpec

(* No lookup in a registry ever answers from before a registration or a removal,
   and local keys stay unique, for any definitions and any callers. *)
THEOREM RegistryViews == RegistrySpec => []ViewsAreCurrent
<1>1. RegistryInit => RegistryTypeOK /\ ViewsAreCurrent
  BY InitDefinitions
<1>2. RegistryTypeOK /\ ViewsAreCurrent /\ [RegistryNext]_registryVars
          => RegistryTypeOK' /\ ViewsAreCurrent'
  BY StepDefinitions
<1> QED BY <1>1, <1>2, PTL DEF RegistrySpec

-----------------------------------------------------------------------------
(* Bindings *)

LEMMA WholeMeansNoneDangles ==
    ASSUME RegistryTypeOK, ViewsAreCurrent
    PROVE  BindingsWhole <=> Dangling = {}
BY ViewsTell DEF BindingsWhole, Dangling, BoundTypes

LEMMA KeptDefinitions ==
    /\ TypesKept => FreshTypes' = FreshTypes
    /\ ProcessorsKept => FreshProcessors' = FreshProcessors
BY DEF TypesKept, FreshTypes, ProcessorsKept, FreshProcessors

LEMMA DropTypeLeaves ==
    ASSUME RegistryTypeOK, ViewsAreCurrent,
           NEW key \in Keys(FileTypes), NEW view,
           view \in {NoView, FreshTypes}, DropType(key, view)
    PROVE  FreshTypes' = {t \in FreshTypes : t.key # key}
<1> DEFINE left == {t \in typeAdded : t.key # key}
           seen == IF view = NoView THEN ComposeTypes(left, typeRemoved) ELSE view
<1>1. KeyDropped(key, seen)
  BY DEF DropType, KeyDropped
<1> QED BY <1>1, DroppedKey

LEMMA DropProcessorLeaves ==
    ASSUME RegistryTypeOK, ViewsAreCurrent, NEW p \in Processors, DropProcessor(p)
    PROVE  FreshProcessors' = FreshProcessors \ {p}
<1> DEFINE left == procAdded \ {p}
           seen == IF procView = NoView THEN ComposeProcessors(left, procRemoved)
                   ELSE procView
<1>1. seen \in {FreshProcessors, ComposeProcessors(left, procRemoved)}
  BY DEF ViewsAreCurrent
<1>2. ProcessorDropped(p, seen)
  BY <1>1 DEF DropProcessor, ProcessorDropped
<1> QED BY <1>2, DroppedProcessor

LEMMA UnbindDrops ==
    ASSUME RegistryTypeOK, NEW types, Unbind(types)
    PROVE  \A t \in FileTypes :
              BindingOf(t)' = IF t \in types THEN Nothing ELSE BindingOf(t)
BY DEF RegistryTypeOK, Unbind, BindingOf

LEMMA BindingsUnchanged ==
    ASSUME UNCHANGED bindVars
    PROVE  /\ \A t \in FileTypes : BindingOf(t)' = BindingOf(t)
           /\ \A p : BoundTo(p)' = BoundTo(p)
BY DEF bindVars, BindingOf, BoundTo

(* Definitions that stay and bindings that at most go keep bindings whole. *)
LEMMA WholeStays ==
    ASSUME BindingsWhole,
           FreshTypes \subseteq FreshTypes', FreshProcessors \subseteq FreshProcessors',
           \A t \in FileTypes : BindingOf(t)' \in {Nothing, BindingOf(t)}
    PROVE  BindingsWhole'
BY DEF BindingsWhole

LEMMA NobodyElse ==
    ASSUME RegistryTypeOK, NEW c \in Callers, ~overlapped'
    PROVE  /\ Enters(c) => ~overlapped /\ \A d \in Callers : calls[d] = Nothing
           /\ \A now : Continues(c, now) =>
                 /\ ~overlapped /\ direct' = direct
                 /\ \A d \in Callers : calls'[d] = IF d = c THEN now ELSE Nothing
BY DEF Enters, Continues, Open, RegistryTypeOK

(* An operation that is one step leaves no call open. *)
LEMMA NoCallsWhole ==
    ASSUME \A c \in Callers : calls'[c] = Nothing
    PROVE  \A c \in Callers : CallWhole(c)'
BY DEF CallWhole

LEMMA InitBindings == RegistryInit => FacadeKeeps
<1> SUFFICES ASSUME RegistryInit PROVE BindingsWhole /\ \A c \in Callers : CallWhole(c)
  BY DEF FacadeKeeps
<1>1. FreshTypes = BaseTypes /\ FreshProcessors = BaseProcessors
  BY DEF RegistryInit, FreshTypes, ComposeTypes, Keys, FreshProcessors, ComposeProcessors
<1>2. \A t \in FileTypes : BindingOf(t) = BaseBindings[t]
  BY DEF RegistryInit, BindingOf
<1>3. BindingsWhole
  BY <1>1, <1>2 DEF BindingsWhole
<1>4. \A c \in Callers : CallWhole(c)
  BY DEF RegistryInit, CallWhole
<1> QED BY <1>3, <1>4

LEMMA BeginsKeepsWhole ==
    ASSUME RegistryTypeOK, ViewsAreCurrent, FacadeKeeps, ~direct', ~overlapped',
           NEW c \in Callers, Begins(c)
    PROVE  BindingsWhole' /\ \A d \in Callers : CallWhole(d)'
<1>v. LocalTypes = FreshTypes /\ KnownTypes = FreshTypes /\ KnownProcessors = FreshProcessors
  BY ViewsTell
<1>e. ASSUME Enters(c), direct' = direct
      PROVE  BindingsWhole /\ \A d \in Callers : calls[d] = Nothing
  BY <1>e, NobodyElse DEF FacadeKeeps
<1>n. ASSUME Enters(c), UNCHANGED calls
      PROVE  \A d \in Callers : CallWhole(d)'
  BY <1>n, NobodyElse, NoCallsWhole
<1>k. ASSUME BindingsWhole, TypesKept, ProcessorsKept, UNCHANGED bindVars
      PROVE  BindingsWhole'
  BY <1>k, KeptDefinitions, BindingsUnchanged, WholeStays
<1>1. ASSUME NEW t \in FileTypes, RegisterType(c, t)
      PROVE  BindingsWhole' /\ \A d \in Callers : CallWhole(d)'
  <2>1. Enters(c) /\ UNCHANGED <<procVars, bindVars, calls, direct>>
    BY <1>1 DEF RegisterType
  <2>2. TypesKept \/ TypeGained(t)
    BY <1>1, <1>v, ReadsKeep DEF RegisterType, TypeGained
  <2>3. FreshTypes \subseteq FreshTypes'
    BY <2>2, KeptDefinitions, GainedType
  <2>4. FreshProcessors' = FreshProcessors
    BY <2>1, KeptDefinitions, ReadsKeep
  <2>5. BindingsWhole'
    BY <2>1, <2>3, <2>4, <1>e, BindingsUnchanged, WholeStays
  <2> QED BY <2>1, <2>5, <1>n
<1>2. ASSUME NEW t \in FileTypes, UnregisterTypeByKey(c, t.key)
      PROVE  BindingsWhole' /\ \A d \in Callers : CallWhole(d)'
  <2>1. Enters(c) /\ UNCHANGED <<procVars, bindVars, calls>>
    BY <1>2 DEF UnregisterTypeByKey
  <2>2. direct' = direct /\ \A u \in FreshTypes \cap BoundTypes : u.key # t.key
    BY <1>2, <1>v DEF UnregisterTypeByKey, RegistryTypeOK
  <2>3. t.key \in Keys(FileTypes)
    BY DEF Keys
  <2>4. FreshTypes' = {u \in FreshTypes : u.key # t.key}
    BY <1>2, <2>3, DropTypeLeaves DEF UnregisterTypeByKey, ViewsAreCurrent
  <2>5. FreshProcessors' = FreshProcessors
    BY <2>1, KeptDefinitions, ReadsKeep
  <2>6. BindingsWhole'
    BY <2>1, <2>2, <2>4, <2>5, <1>e, BindingsUnchanged DEF BindingsWhole, BoundTypes
  <2> QED BY <2>1, <2>6, <1>n
<1>3. ASSUME NEW t \in FileTypes, UnregisterType(c, t)
      PROVE  BindingsWhole' /\ \A d \in Callers : CallWhole(d)'
  <2>1. Enters(c) /\ UNCHANGED <<procVars, bindVars, calls>>
    BY <1>3 DEF UnregisterType
  <2>2. FreshProcessors' = FreshProcessors
    BY <2>1, KeptDefinitions, ReadsKeep
  <2>3. CASE t \notin KnownTypes
    BY <1>3, <2>1, <2>3, <1>e, <1>k, <1>n, ReadsKeep DEF UnregisterType
  <2>4. CASE t \in KnownTypes
    <3> DEFINE view == IF typeViewQ = NoView THEN LocalTypes ELSE typeView
    <3>1. view \in {NoView, FreshTypes}
      BY <1>v DEF ViewsAreCurrent
    <3>2. t.key \in Keys(FileTypes)
      BY DEF Keys
    <3>3. DropType(t.key, view) /\ direct' = (direct \/ t \in BoundTypes)
      BY <1>3, <2>4 DEF UnregisterType
    <3>4. FreshTypes' = {u \in FreshTypes : u.key # t.key}
      BY <3>1, <3>2, <3>3, DropTypeLeaves
    <3>5. direct' = direct /\ t \notin BoundTypes
      BY <3>3 DEF RegistryTypeOK
    <3>6. \A u \in FreshTypes : u.key = t.key => u = t
      BY <2>4, <1>v DEF ViewsAreCurrent
    <3>7. BindingsWhole'
      BY <2>1, <2>2, <3>4, <3>5, <3>6, <1>e, BindingsUnchanged DEF BindingsWhole, BoundTypes
    <3> QED BY <2>1, <3>7, <1>n
  <2> QED BY <2>3, <2>4
<1>4. ASSUME NEW t \in FileTypes, CallUnbind(c, t)
      PROVE  BindingsWhole' /\ \A d \in Callers : CallWhole(d)'
  <2> DEFINE call == [op |-> "unbind", type |-> t, proc |-> Nothing, stage |-> "called"]
  <2>1. BindingsWhole'
    BY <1>4, <1>e, <1>k, ReadsKeep DEF CallUnbind
  <2>2. CASE UNCHANGED calls
    BY <1>4, <2>1, <2>2, <1>n DEF CallUnbind
  <2>3. CASE calls' = [calls EXCEPT ![c] = call]
    <3>1. \A d \in Callers : calls'[d] \in {Nothing, call}
      BY <1>4, <2>3, <1>e DEF CallUnbind, RegistryTypeOK
    <3> QED BY <2>1, <3>1 DEF CallWhole
  <2> QED BY <1>4, <2>2, <2>3 DEF CallUnbind
<1>5. ASSUME NEW p \in Processors, RegisterProcessor(c, p)
      PROVE  BindingsWhole' /\ \A d \in Callers : CallWhole(d)'
  <2>1. Enters(c) /\ UNCHANGED <<typeVars, bindVars, calls, direct>>
    BY <1>5 DEF RegisterProcessor
  <2>2. ProcessorsKept \/ ProcessorGained(p)
    BY <1>5, ReadsKeep DEF RegisterProcessor, ProcessorGained
  <2>3. FreshProcessors \subseteq FreshProcessors'
    BY <2>2, KeptDefinitions, GainedProcessor
  <2>4. FreshTypes' = FreshTypes
    BY <2>1, KeptDefinitions, ReadsKeep
  <2>5. BindingsWhole'
    BY <2>1, <2>3, <2>4, <1>e, BindingsUnchanged, WholeStays
  <2> QED BY <2>1, <2>5, <1>n
<1>6. ASSUME NEW p \in Processors, UnregisterProcessor(c, p)
      PROVE  BindingsWhole' /\ \A d \in Callers : CallWhole(d)'
  <2>1. Enters(c) /\ UNCHANGED <<typeVars, bindVars, calls>>
    BY <1>6 DEF UnregisterProcessor
  <2>2. direct' = direct /\ BoundTo(p) = {}
    BY <1>6 DEF UnregisterProcessor, RegistryTypeOK
  <2>3. FreshProcessors' = FreshProcessors \ {p}
    BY <1>6, DropProcessorLeaves DEF UnregisterProcessor
  <2>4. FreshTypes' = FreshTypes
    BY <2>1, KeptDefinitions, ReadsKeep
  <2>5. BindingsWhole'
    BY <2>1, <2>2, <2>3, <2>4, <1>e, BindingsUnchanged DEF BindingsWhole, BoundTo
  <2> QED BY <2>1, <2>5, <1>n
<1>7. ASSUME NEW p \in Processors, UnbindProcessor(c, p)
      PROVE  BindingsWhole' /\ \A d \in Callers : CallWhole(d)'
  <2>1. Enters(c) /\ UNCHANGED <<calls, direct>> /\ TypesKept /\ ProcessorsKept
    BY <1>7, ReadsKeep DEF UnbindProcessor, UnbindAllOf
  <2>2. \A t \in FileTypes : BindingOf(t)' \in {Nothing, BindingOf(t)}
    BY <1>7, UnbindDrops, BindingsUnchanged DEF UnbindProcessor, UnbindAllOf
  <2>3. BindingsWhole'
    BY <2>1, <2>2, <1>e, KeptDefinitions, WholeStays
  <2> QED BY <2>1, <2>3, <1>n
<1>8. ASSUME NEW p \in Processors, NEW t \in FileTypes, CallBind(c, t, p)
      PROVE  BindingsWhole' /\ \A d \in Callers : CallWhole(d)'
  <2> DEFINE call == [op |-> "bind", type |-> t, proc |-> p, stage |-> "called"]
  <2>1. BindingsWhole'
    BY <1>8, <1>e, <1>k, ReadsKeep DEF CallBind
  <2>2. CASE UNCHANGED calls
    BY <1>8, <2>1, <2>2, <1>n DEF CallBind
  <2>3. CASE calls' = [calls EXCEPT ![c] = call]
    <3>1. \A d \in Callers : calls'[d] \in {Nothing, call}
      BY <1>8, <2>3, <1>e DEF CallBind, RegistryTypeOK
    <3> QED BY <2>1, <3>1 DEF CallWhole
  <2> QED BY <1>8, <2>2, <2>3 DEF CallBind
<1>9. ASSUME NEW p \in Processors, NEW all \in BOOLEAN, CallUnregister(c, p, all)
      PROVE  BindingsWhole' /\ \A d \in Callers : CallWhole(d)'
  <2> DEFINE call == [op |-> "unregister", type |-> Nothing, proc |-> p,
                      stage |-> IF all THEN "called" ELSE "unbound"]
  <2>1. Enters(c) /\ UNCHANGED <<bindVars, direct>> /\ TypesKept /\ ProcessorsKept
    BY <1>9, ReadsKeep DEF CallUnregister
  <2>2. BindingsWhole'
    BY <2>1, <1>e, <1>k
  <2>3. CASE UNCHANGED calls
    BY <2>1, <2>2, <2>3, <1>n
  <2>4. CASE /\ calls' = [calls EXCEPT ![c] = call]
             /\ all \/ BoundTo(p) = {}
    <3>1. \A d \in Callers : calls'[d] \in {Nothing, call}
      BY <2>1, <2>4, <1>e DEF RegistryTypeOK
    <3>2. all \/ BoundTo(p)' = {}
      BY <2>1, <2>4, BindingsUnchanged
    <3>3. call.op = "unregister" /\ call.proc = p /\ (call.stage = "unbound" => ~all)
      OBVIOUS
    <3> HIDE DEF call
    <3>4. \A d \in Callers : CallWhole(d)'
      BY <3>1, <3>2, <3>3 DEF CallWhole, BoundTo
    <3> QED BY <2>2, <3>4
  <2> QED BY <1>9, <2>3, <2>4 DEF CallUnregister
<1> QED BY <1>1, <1>2, <1>3, <1>4, <1>5, <1>6, <1>7, <1>8, <1>9 DEF Begins

LEMMA GoesOnKeepsWhole ==
    ASSUME RegistryTypeOK, ViewsAreCurrent, FacadeKeeps, ~direct', ~overlapped',
           NEW c \in Callers, GoesOn(c)
    PROVE  BindingsWhole' /\ \A d \in Callers : CallWhole(d)'
<1>v. LocalTypes = FreshTypes /\ KnownTypes = FreshTypes /\ KnownProcessors = FreshProcessors
  BY ViewsTell
<1>e. ASSUME NEW now, Continues(c, now)
      PROVE  /\ BindingsWhole /\ CallWhole(c)
             /\ \A d \in Callers : calls'[d] = IF d = c THEN now ELSE Nothing
  BY <1>e, NobodyElse DEF FacadeKeeps
<1>n. ASSUME Continues(c, Nothing)
      PROVE  \A d \in Callers : CallWhole(d)'
  BY <1>n, <1>e, NoCallsWhole
<1>k. ASSUME BindingsWhole, TypesKept, ProcessorsKept, UNCHANGED bindVars
      PROVE  BindingsWhole'
  BY <1>k, KeptDefinitions, BindingsUnchanged, WholeStays
<1>1. CASE CheckBind(c)
  <2> DEFINE checked == [calls[c] EXCEPT !.stage = "checked"]
  <2>1. calls[c] \in Calls /\ calls[c].op = "bind"
    BY <1>1 DEF CheckBind, Open, RegistryTypeOK
  <2>2. TypesKept /\ ProcessorsKept /\ UNCHANGED bindVars
    BY <1>1, ReadsKeep DEF CheckBind
  <2>3. \/ Continues(c, Nothing)
        \/ /\ calls[c].type \in FreshTypes /\ calls[c].proc \in FreshProcessors
           /\ Continues(c, checked)
    BY <1>1, <1>v DEF CheckBind
  <2>4. CASE Continues(c, Nothing)
    BY <2>2, <2>4, <1>e, <1>k, <1>n
  <2>5. CASE /\ calls[c].type \in FreshTypes /\ calls[c].proc \in FreshProcessors
             /\ Continues(c, checked)
    <3>1. BindingsWhole'
      BY <2>2, <2>5, <1>e, <1>k
    <3>2. checked.op = "bind" /\ checked.type = calls[c].type /\ checked.proc = calls[c].proc
      BY <2>1 DEF Calls
    <3>3. FreshTypes' = FreshTypes /\ FreshProcessors' = FreshProcessors
      BY <2>2, KeptDefinitions
    <3> HIDE DEF checked
    <3>4. \A d \in Callers : calls'[d] \in {Nothing, checked}
      BY <2>5, <1>e
    <3> QED BY <2>5, <3>1, <3>2, <3>3, <3>4 DEF CallWhole
  <2> QED BY <2>3, <2>4, <2>5
<1>2. CASE CommitBind(c)
  <2>1. /\ calls[c] # Nothing /\ calls[c].op = "bind" /\ calls[c].stage = "checked"
        /\ Continues(c, Nothing)
        /\ bound' = [bound EXCEPT ![calls[c].type] = calls[c].proc]
        /\ unbound' = unbound \ {calls[c].type}
    BY <1>2 DEF CommitBind, Open
  <2>2. PICK t \in FileTypes, p \in Processors : t = calls[c].type /\ p = calls[c].proc
    BY <2>1 DEF RegistryTypeOK, Calls
  <2>3. t \in FreshTypes /\ p \in FreshProcessors /\ BindingsWhole
    BY <2>1, <2>2, <1>e DEF CallWhole
  <2>4. FreshTypes' = FreshTypes /\ FreshProcessors' = FreshProcessors
    BY <1>2, KeptDefinitions, ReadsKeep DEF CommitBind
  <2>5. \A u \in FileTypes : BindingOf(u)' = IF u = t THEN p ELSE BindingOf(u)
    BY <2>1, <2>2 DEF BindingOf, RegistryTypeOK
  <2>6. BindingsWhole'
    BY <2>3, <2>4, <2>5 DEF BindingsWhole
  <2> QED BY <2>1, <2>6, <1>n
<1>3. CASE DoUnbind(c)
  <2>1. TypesKept /\ ProcessorsKept /\ Continues(c, Nothing)
    BY <1>3, ReadsKeep DEF DoUnbind
  <2>2. Unbind({calls[c].type}) \/ UNCHANGED bindVars
    BY <1>3 DEF DoUnbind
  <2>3. \A t \in FileTypes : BindingOf(t)' \in {Nothing, BindingOf(t)}
    BY <2>2, UnbindDrops, BindingsUnchanged
  <2> QED BY <2>1, <2>3, <1>e, <1>n, KeptDefinitions, WholeStays
<1>4. CASE UnregisterUnbinds(c)
  <2> DEFINE p == calls[c].proc
             now == [calls[c] EXCEPT !.stage = "unbound"]
  <2>1. /\ TypesKept /\ ProcessorsKept
        /\ calls[c] \in Calls /\ calls[c].op = "unregister" /\ p \in Processors
    BY <1>4, ReadsKeep DEF UnregisterUnbinds, UnbindAllOf, Open, RegistryTypeOK, Calls
  <2>2. \A t \in FileTypes : BindingOf(t)' \in {Nothing, BindingOf(t)}
    BY <1>4, UnbindDrops, BindingsUnchanged DEF UnregisterUnbinds, UnbindAllOf
  <2>3. \E n : Continues(c, n)
    BY <1>4 DEF UnregisterUnbinds
  <2>4. BindingsWhole'
    BY <2>1, <2>2, <2>3, <1>e, KeptDefinitions, WholeStays
  <2>5. CASE Dangling = {}
    <3>1. Continues(c, now) /\ Unbind(BoundTo(p))
      BY <1>4, <2>5 DEF UnregisterUnbinds, UnbindAllOf
    <3>2. \A t \in FileTypes : BindingOf(t)' # p
      BY <2>1, <3>1, UnbindDrops DEF BoundTo
    <3>3. now.op = "unregister" /\ now.proc = p
      BY <2>1 DEF Calls
    <3> HIDE DEF now
    <3>4. \A d \in Callers : calls'[d] \in {Nothing, now}
      BY <3>1, <1>e
    <3> QED BY <2>4, <3>2, <3>3, <3>4 DEF CallWhole, BoundTo
  <2>6. CASE Dangling # {}
    <3>1. Continues(c, Nothing)
      BY <1>4, <2>6 DEF UnregisterUnbinds
    <3> QED BY <2>4, <3>1, <1>n
  <2> QED BY <2>5, <2>6
<1>5. CASE UnregisterDrops(c)
  <2> DEFINE p == calls[c].proc
  <2>1. /\ calls[c] # Nothing /\ calls[c].op = "unregister" /\ calls[c].stage = "unbound"
        /\ DropProcessor(p) /\ Continues(c, Nothing)
        /\ UNCHANGED <<typeVars, bindVars>>
    BY <1>5 DEF UnregisterDrops, Open
  <2>2. p \in Processors
    BY <2>1 DEF RegistryTypeOK, Calls
  <2>3. BoundTo(p) = {} /\ BindingsWhole
    BY <2>1, <1>e DEF CallWhole
  <2>4. FreshProcessors' = FreshProcessors \ {p}
    BY <2>1, <2>2, DropProcessorLeaves
  <2>5. FreshTypes' = FreshTypes
    BY <2>1, KeptDefinitions, ReadsKeep
  <2>6. BindingsWhole'
    BY <2>1, <2>3, <2>4, <2>5, BindingsUnchanged DEF BindingsWhole, BoundTo
  <2> QED BY <2>1, <2>6, <1>n
<1> QED BY <1>1, <1>2, <1>3, <1>4, <1>5 DEF GoesOn

LEMMA StepBindings ==
    RegistryTypeOK /\ ViewsAreCurrent /\ FacadeKeeps /\ [RegistryNext]_registryVars
        => FacadeKeeps'
<1> SUFFICES ASSUME RegistryTypeOK, ViewsAreCurrent, FacadeKeeps,
                    [RegistryNext]_registryVars, ~direct', ~overlapped'
             PROVE  BindingsWhole' /\ \A d \in Callers : CallWhole(d)'
  BY DEF FacadeKeeps
<1>1. CASE Read \/ UNCHANGED registryVars
  <2>1. TypesKept /\ ProcessorsKept /\ UNCHANGED <<bindVars, callVars>>
    BY <1>1, ReadsKeep DEF Read, registryVars
  <2>2. BindingsWhole /\ \A d \in Callers : CallWhole(d)
    BY <2>1 DEF FacadeKeeps, callVars
  <2>3. FreshTypes' = FreshTypes /\ FreshProcessors' = FreshProcessors
    BY <2>1, KeptDefinitions
  <2>4. BindingsWhole'
    BY <2>1, <2>2, <2>3, BindingsUnchanged, WholeStays
  <2>5. calls' = calls /\ \A p : BoundTo(p)' = BoundTo(p)
    BY <2>1, BindingsUnchanged DEF callVars
  <2> QED BY <2>2, <2>3, <2>4, <2>5 DEF CallWhole, BoundTo, BindingOf, bindVars
<1>2. ASSUME NEW c \in Callers, Begins(c)
      PROVE  BindingsWhole' /\ \A d \in Callers : CallWhole(d)'
  BY <1>2, BeginsKeepsWhole
<1>3. ASSUME NEW c \in Callers, GoesOn(c)
      PROVE  BindingsWhole' /\ \A d \in Callers : CallWhole(d)'
  BY <1>3, GoesOnKeepsWhole
<1> QED BY <1>1, <1>2, <1>3 DEF RegistryNext

(* Unless a definition is unregistered while bound, or two callers' operations
   overlap, no sequence of registrations, bindings and removals makes a lookup of
   the bindings raise, for any definitions and any number of callers. *)
THEOREM RegistryBindings == RegistrySpec => []BindingsStayWhole
<1>1. RegistryInit => RegistryTypeOK /\ ViewsAreCurrent /\ FacadeKeeps
  BY InitDefinitions, InitBindings
<1>2. RegistryTypeOK /\ ViewsAreCurrent /\ FacadeKeeps /\ [RegistryNext]_registryVars
          => RegistryTypeOK' /\ ViewsAreCurrent' /\ FacadeKeeps'
  BY StepDefinitions, StepBindings
<1>3. RegistryTypeOK /\ ViewsAreCurrent /\ FacadeKeeps => BindingsStayWhole
  BY WholeMeansNoneDangles DEF FacadeKeeps, BindingsStayWhole
<1> QED BY <1>1, <1>2, <1>3, PTL DEF RegistrySpec

HIDE BaseAssumption

-----------------------------------------------------------------------------
(* A run reads the registries.                                             *)

LEMMA NamedIsRead ==
    ASSUME NEW ids, SeeNamed(ids), UNCHANGED <<procVars, bindVars, callVars>>
    PROVE  [RegistryNext]_registryVars
<1>1. CASE UNCHANGED typeVars
  BY <1>1 DEF registryVars
<1>2. CASE SeeTypes \/ SeeLocalTypes
  BY <1>2 DEF Read, RegistryNext
<1> QED BY <1>1, <1>2 DEF SeeNamed

LEMMA ProcessorIsRead ==
    ASSUME SeeProcessor \/ (SeeTypes /\ UNCHANGED procVars), UNCHANGED <<bindVars, callVars>>
    PROVE  [RegistryNext]_registryVars
BY DEF SeeProcessor, Read, RegistryNext

(* Every stage of a run is a read of the registries, or does not touch them; the
   other steps are operations of other threads. *)
LEMMA StepOfRegistry ==
    ASSUME [Next]_vars
    PROVE  [RegistryNext]_registryVars
<1>1. CASE UNCHANGED vars \/ Draft \/ RunAgain
  BY <1>1 DEF vars, registryVars, Draft, RunAgain
<1>2. CASE FreezeDraft
  BY <1>2, NamedIsRead DEF FreezeDraft
<1>3. CASE OverlayPolicy
  <2>1. \E ids : SeeNamed(ids)
    BY <1>3 DEF OverlayPolicy
  <2> QED BY <1>3, <2>1, NamedIsRead DEF OverlayPolicy
<1>4. CASE Select
  BY <1>4, NamedIsRead DEF Select
<1>5. CASE ScopePath
  <2>1. \E ids : SeeNamed(ids)
    BY <1>5 DEF ScopePath
  <2> QED BY <1>5, <2>1, NamedIsRead DEF ScopePath
<1>6. CASE ProbePath
  <2>1. SeeProcessor \/ (SeeTypes /\ UNCHANGED procVars)
    BY <1>6 DEF ProbePath
  <2> QED BY <1>6, <2>1, ProcessorIsRead DEF ProbePath
<1>7. CASE ResolvePath
  <2>1. SeeProcessor \/ (SeeTypes /\ UNCHANGED procVars)
    BY <1>7 DEF ResolvePath
  <2> QED BY <1>7, <2>1, ProcessorIsRead DEF ResolvePath
<1>8. CASE Disturb \/ Proceed
  BY <1>8 DEF Disturb, Proceed, RegistryNext
<1> QED BY <1>1, <1>2, <1>3, <1>4, <1>5, <1>6, <1>7, <1>8 DEF Next

(* Runs of the command line and of the API, among any other threads, behave towards
   the registries as the specification of the registries says. *)
THEOREM RunsUseTheRegistries == Spec => RegistrySpec
<1>1. Init => RegistryInit
  BY DEF Init
<1>2. [Next]_vars => [RegistryNext]_registryVars
  BY StepOfRegistry
<1> QED BY <1>1, <1>2, PTL DEF Spec, RegistrySpec

(* While a run reads them and other threads change them, no remembered view of the
   registries is out of date: for any requests, types, processors and threads. *)
THEOREM RunSeesCurrentViews == Spec => []ViewsAreCurrent
BY RunsUseTheRegistries, RegistryViews, PTL

(* Bindings stay whole under runs and other threads alike, with the same provisos. *)
THEOREM RunSeesWholeBindings == Spec => []BindingsStayWhole
BY RunsUseTheRegistries, RegistryBindings, PTL

-----------------------------------------------------------------------------
(* Lookups of a run that raise. *)

LEMMA FlagsStay ==
    ASSUME RegistryTypeOK, [RegistryNext]_registryVars
    PROVE  (direct => direct') /\ (overlapped => overlapped')
<1>1. CASE Read \/ UNCHANGED registryVars
  BY <1>1 DEF Read, registryVars, callVars
<1>2. ASSUME NEW c \in Callers, Begins(c)
      PROVE  (direct => direct') /\ (overlapped => overlapped')
  BY <1>2 DEF Begins, Enters, RegisterType, UnregisterTypeByKey, UnregisterType, CallUnbind,
              RegisterProcessor, UnregisterProcessor, UnbindProcessor, CallBind, CallUnregister,
              RegistryTypeOK
<1>3. ASSUME NEW c \in Callers, GoesOn(c)
      PROVE  (direct => direct') /\ (overlapped => overlapped')
  BY <1>3 DEF GoesOn, Continues, CheckBind, CommitBind, DoUnbind, UnregisterUnbinds,
              UnregisterDrops, RegistryTypeOK
<1> QED BY <1>1, <1>2, <1>3 DEF RegistryNext

\* How a path ends adds its outcome and keeps the others.
LEMMA EndsAdds ==
    ASSUME RaisesAreExplained, NEW outcome, Ends(outcome),
           outcome.status = "RAISED" => direct \/ overlapped,
           UNCHANGED callVars
    PROVE  RaisesAreExplained'
BY DEF RaisesAreExplained, Ends, Recorded, callVars

LEMMA StepExplained ==
    RegistryTypeOK /\ BindingsStayWhole /\ RaisesAreExplained /\ [Next]_vars
        => RaisesAreExplained'
<1> SUFFICES ASSUME RegistryTypeOK, BindingsStayWhole, RaisesAreExplained, [Next]_vars
             PROVE  RaisesAreExplained'
  OBVIOUS
<1>1. CASE UNCHANGED outcomes
  BY <1>1, StepOfRegistry, FlagsStay DEF RaisesAreExplained
<1>2. CASE RunAgain
  BY <1>2 DEF RunAgain, RaisesAreExplained
<1>3. CASE ProbePath
  <2>1. \/ UNCHANGED outcomes
        \/ Ends(Unsupported)
        \/ Ends(Raised) /\ Dangling # {}
    BY <1>3 DEF ProbePath
  <2>2. UNCHANGED callVars
    BY <1>3 DEF ProbePath
  <2>3. Unsupported.status # "RAISED"
    BY DEF Unsupported, NoOutcome
  <2> QED BY <2>1, <2>2, <2>3, <1>1, EndsAdds DEF BindingsStayWhole
<1>4. CASE ResolvePath
  <2> DEFINE t == probe[1].type
             known == t \in KnownTypes
             Status(s) == [NoOutcome EXCEPT !.status = s, !.type = IF known THEN t ELSE Nothing]
  <2>1. \A s : s # "RAISED" => Status(s).status # "RAISED"
    BY DEF NoOutcome
  <2>2. \A q, r : [Status("RESOLVED") EXCEPT !.proc = q, !.policy = r].status # "RAISED"
    BY DEF NoOutcome
  <2>3. UNCHANGED callVars
    BY <1>4 DEF ResolvePath
  <2>4. \E outcome : Ends(outcome) /\ (outcome.status = "RAISED" => Dangling # {})
    <3>1. CASE ~known \/ Traits[t].skip \/ probe[1].proc = Nothing
      BY <1>4, <3>1, <2>1 DEF ResolvePath
    <3>2. CASE ~(~known \/ Traits[t].skip \/ probe[1].proc = Nothing)
      <4>1. Ends(IF Dangling # {} THEN Raised
                 ELSE IF BindingOf(t) = Nothing THEN Status("NO_PROCESSOR")
                 ELSE [Status("RESOLVED") EXCEPT
                          !.proc = BindingOf(t),
                          !.policy = EffectivePolicy(pathConfigs[selected[next]], t)])
        BY <1>4, <3>2 DEF ResolvePath
      <4>2. CASE Dangling # {}
        BY <4>1, <4>2
      <4>3. CASE Dangling = {} /\ BindingOf(t) = Nothing
        <5>1. Ends(Status("NO_PROCESSOR"))
          BY <4>1, <4>3
        <5> QED BY <5>1, <2>1
      <4>4. CASE Dangling = {} /\ BindingOf(t) # Nothing
        <5> DEFINE outcome == [Status("RESOLVED") EXCEPT
                                  !.proc = BindingOf(t),
                                  !.policy = EffectivePolicy(pathConfigs[selected[next]], t)]
        <5>1. Ends(outcome)
          BY <4>1, <4>4
        <5>2. outcome.status # "RAISED"
          BY <2>2
        <5> HIDE DEF outcome
        <5> QED BY <5>1, <5>2
      <4> QED BY <4>2, <4>3, <4>4
    <3> QED BY <3>1, <3>2
  <2> HIDE DEF Status
  <2> QED BY <2>3, <2>4, EndsAdds DEF BindingsStayWhole
<1> QED BY <1>1, <1>2, <1>3, <1>4
        DEF Next, vars, runVars, Draft, FreezeDraft, OverlayPolicy, Select, ScopePath, Disturb, Proceed

(* A file of a run fails with a registry error only if some definition was
   unregistered while it was bound, or two threads' operations overlapped. *)
THEOREM LookupsDoNotRaise == Spec => []RaisesAreExplained
<1>1. Init => RaisesAreExplained
  BY DEF Init, RaisesAreExplained
<1>2. Spec => []RegistryTypeOK
  BY RunsUseTheRegistries, RegistryTypes, PTL
<1> QED BY <1>1, <1>2, RunSeesWholeBindings, StepExplained, PTL DEF Spec

-----------------------------------------------------------------------------
(* Tables and drafts: reading one table, finding the files, merging by layers. *)

(* Tables, and the sources they come from. *)

\* A table read for its valid values is a table again, with the same entries, patterns
\* and filters.
LEMMA ParseGivesTable ==
    ASSUME NEW t, IsTable(t)
    PROVE  /\ IsTable(Parse(t))
           /\ DOMAIN Parse(t).byType = DOMAIN t.byType
           /\ Parse(t).patterns = t.patterns /\ Parse(t).include = t.include
           /\ Parse(t).exclude = t.exclude
<1> DEFINE tf == t.format
           tb == t.byType
           noted == Parse(t).noted
           c == [policy |-> Accept(Coerce(t.policy)),
                 byType |-> [id \in DOMAIN t.byType |-> Accept(Coerce(t.byType[id]))],
                 header |-> t.header, format |-> Accept(t.format), values |-> t.values,
                 patterns |-> t.patterns, sources |-> t.sources,
                 include |-> t.include, exclude |-> t.exclude, noted |-> noted]
<1>1. Parse(t) = c
  <2>1. t = [policy |-> t.policy, byType |-> t.byType, header |-> t.header, format |-> t.format,
            values |-> t.values, patterns |-> t.patterns, sources |-> t.sources,
            include |-> t.include, exclude |-> t.exclude, noted |-> t.noted]
    BY DEF IsTable
  <2>2. Parse(t) = [t EXCEPT !.policy = c.policy, !.byType = c.byType, !.format = c.format, !.noted = noted]
    BY <2>1 DEF Parse
  <2> HIDE DEF noted
  <2> QED BY <2>1, <2>2
<1> HIDE DEF noted
<1>2. Accept(Coerce(t.policy)) = [f \in Fields |-> Accept(Coerce(t.policy))[f]]
  BY DEF IsTable, Accept, Coerce
<1>3. \A id \in DOMAIN t.byType :
         Accept(Coerce(t.byType[id])) = [f \in Fields |-> Accept(Coerce(t.byType[id]))[f]]
  BY DEF IsTable, Accept, Coerce
<1>4. Accept(t.format) = [k \in DOMAIN Defaults.format |-> Accept(t.format)[k]]
  BY DEF IsTable, Accept
<1>5. IsTable(c)
  <2>1. c.byType = [id \in DOMAIN c.byType |-> [f \in Fields |-> c.byType[id][f]]]
    BY <1>3
  <2> QED BY <1>2, <1>4, <2>1 DEF IsTable
<1> QED BY <1>1, <1>5

\* What is picked of a sequence is a sequence of the same things.
LEMMA PickedSeq ==
    ASSUME NEW S, NEW s \in Seq(S), NEW I \in SUBSET DOMAIN s
    PROVE  Picked(s, I) \in Seq(S)
BY PickedInOrder

\* The files a run reads are among those it found or was given.
LEMMA FilesAreFiles ==
    ASSUME NEW S, NEW user \in Seq(S), NEW dirs \in Seq(Seq(S)), NEW extra \in Seq(S), NEW alone
    PROVE  Sources(user, dirs, extra, alone) \in Seq(S)
<1>1. Discovered(dirs) \in Seq(S)
  <2> DEFINE Roots == {i \in DOMAIN dirs : \E j \in DOMAIN dirs[i] : dirs[i][j].loads /\ dirs[i][j].root}
             top == IF Roots = {} THEN Len(dirs) ELSE Min(Roots)
             part == SubSeq(dirs, 1, top)
  <2>1. top \in 0 .. Len(dirs)
    <3>1. CASE Roots = {}
      BY <3>1
    <3>2. CASE Roots # {}
      <4>1. Min(Roots) \in Roots
        <5>1. Roots \in SUBSET Nat
          OBVIOUS
        <5> HIDE DEF Roots
        <5> QED BY <3>2, <5>1, LeastOfNumbers
      <4> QED BY <3>2, <4>1
    <3> QED BY <3>1, <3>2
  <2>2. part \in Seq(Seq(S))
    <3> HIDE DEF top
    <3> QED BY <2>1
  <2>3. Reverse(part) \in Seq(Seq(S))
    <3> HIDE DEF part
    <3> QED BY <2>2 DEF Reverse
  <2> QED BY <2>3, FlattenTyped DEF Discovered
<1> DEFINE all == (IF alone THEN <<>> ELSE user \o Discovered(dirs)) \o extra
<1>2. all \in Seq(S)
  BY <1>1
<1> HIDE DEF all
<1>3. KeepLast(all) \in Seq(S)
  BY <1>2, PickedSeq DEF KeepLast
<1> QED BY <1>3 DEF Sources, all

(* Merging layers merges one after the other into the first. *)
LEMMA MergeByLayers ==
    ASSUME NEW S, NEW stack \in Seq(S), stack # <<>>
    PROVE  \E m : /\ m[1] = stack[1].config
                  /\ \A k \in 2 .. Len(stack) : m[k] = MergeWith(m[k - 1], stack[k].config)
                  /\ MergeLayers(stack) = m[Len(stack)]
<1> DEFINE n == Len(stack) - 1
           rest == Tail(stack)
           Body(f, s) == IF s = {} THEN stack[1].config
                         ELSE MergeWith(f[s \ {Max(s)}], rest[Max(s)].config)
           Is(f, k) == f = [s \in SUBSET (1 .. k) |-> Body(f, s)]
           iter == CHOOSE f : f = [s \in SUBSET (1 .. n) |-> Body(f, s)]
           G == {k \in Nat : \E f : Is(f, k)}
<1>1. n \in Nat /\ DOMAIN rest = 1 .. n /\ \A i \in 1 .. n : rest[i] = stack[i + 1]
  OBVIOUS
<1>2. MergeLayers(stack) = iter[1 .. n]
  BY <1>1 DEF MergeLayers, FoldLeft, MapThenFoldSet
<1>3. 0 \in G
  <2>1. Is([s \in SUBSET (1 .. 0) |-> stack[1].config], 0)
    OBVIOUS
  <2> QED BY <2>1
<1>4. ASSUME NEW k \in Nat, k \in G
      PROVE  k + 1 \in G
  <2>1. PICK f : Is(f, k)
    BY <1>4
  <2> DEFINE g == [s \in SUBSET (1 .. k + 1) |->
                     IF k + 1 \in s THEN MergeWith(f[s \ {k + 1}], rest[k + 1].config) ELSE f[s]]
  <2>2. ASSUME NEW s \in SUBSET (1 .. k + 1)
        PROVE  g[s] = Body(g, s)
    <3>1. CASE k + 1 \in s
      <4>1. Max(s) = k + 1
        <5> HIDE DEF Body, g
        <5>1. Max(s) \in s /\ k + 1 <= Max(s)
          BY <3>1, MaxOfNumbers, k + 1 \in Nat
        <5>2. Max(s) \in 1 .. k + 1
          BY <5>1
        <5> QED BY <5>1, <5>2
      <4>2. g[s \ {k + 1}] = f[s \ {k + 1}]
        OBVIOUS
      <4> QED BY <3>1, <4>1, <4>2
    <3>2. CASE k + 1 \notin s
      <4>1. s \in SUBSET (1 .. k)
        BY <3>2
      <4>2. f[s] = Body(f, s)
        BY <4>1, <2>1
      <4>3. CASE s = {}
        BY <4>2, <4>3, <3>2
      <4>4. CASE s # {}
        <5>1. s \ {Max(s)} \in SUBSET (1 .. k + 1) /\ k + 1 \notin s \ {Max(s)}
          BY <3>2
        <5>2. g[s \ {Max(s)}] = f[s \ {Max(s)}]
          BY <5>1
        <5> QED BY <4>2, <4>4, <3>2, <5>2
      <4> QED BY <4>3, <4>4
    <3> QED BY <3>1, <3>2
  <2>3. g = [s \in SUBSET (1 .. k + 1) |-> g[s]]
    OBVIOUS
  <2>4. Is(g, k + 1)
    <3> HIDE DEF Body, g
    <3> QED BY <2>2, <2>3
  <2> HIDE DEF Is, g
  <2>5. k + 1 \in Nat
    OBVIOUS
  <2> QED BY <2>4, <2>5
<1>5. Is(iter, n)
  <2> HIDE DEF G
  <2>1. n \in G
    BY <1>1, <1>3, <1>4, Induction
  <2> QED BY <2>1 DEF G
<1> DEFINE m == [k \in 1 .. n + 1 |-> iter[1 .. k - 1]]
<1> HIDE DEF iter
<1>6. m[1] = stack[1].config
  BY <1>1, <1>5
<1>7. ASSUME NEW k \in 2 .. Len(stack)
      PROVE  m[k] = MergeWith(m[k - 1], stack[k].config)
  <2> DEFINE s == 1 .. k - 1
  <2>1. s \in SUBSET (1 .. n) /\ s # {} /\ k - 1 \in s
    <3> HIDE DEF Is, m
    <3>1. k - 1 \in 1 .. n
      BY <1>1
    <3> HIDE DEF n
    <3>2. k - 1 \in Nat /\ k - 1 <= n /\ 1 <= k - 1
      BY <3>1, <1>1
    <3>3. s \in SUBSET (1 .. n)
      BY <3>2, <1>1
    <3>4. k - 1 \in s
      BY <3>2
    <3> QED BY <3>3, <3>4
  <2>2. Max(s) \in s /\ \A y \in s : y <= Max(s)
    BY <2>1, <1>1, MaxOfNumbers
  <2>3. Max(s) = k - 1
    BY <2>1, <2>2
  <2>4. s \ {k - 1} = 1 .. (k - 1) - 1
    OBVIOUS
  <2>5. iter[s] = MergeWith(iter[s \ {k - 1}], rest[k - 1].config)
    BY <1>5, <2>1, <2>3
  <2>6. rest[k - 1] = stack[k]
    BY <1>1
  <2>7. k \in 1 .. n + 1 /\ k - 1 \in 1 .. n + 1
    BY <1>1
  <2>8. m[k] = iter[1 .. k - 1] /\ m[k - 1] = iter[1 .. (k - 1) - 1]
    BY <2>7
  <2> QED BY <2>4, <2>5, <2>6, <2>8
<1>8. MergeLayers(stack) = m[Len(stack)]
  BY <1>1, <1>2
<1> QED BY <1>6, <1>7, <1>8

\* Two drafts merge into a draft.
LEMMA MergeGivesTable ==
    ASSUME NEW a, NEW b, IsTable(a), IsTable(b)
    PROVE  IsTable(MergeWith(a, b))
<1> DEFINE c == MergeWith(a, b)
<1>1. c = [policy |-> Overlay(a.policy, b.policy), byType |-> Union(a.byType, b.byType, Overlay),
           header |-> OrElse(b.header, a.header), format |-> Overlay(a.format, b.format),
           values |-> Union(a.values, b.values, Latter), patterns |-> a.patterns \o b.patterns,
           sources |-> a.sources \o b.sources, include |-> OrElse(b.include, a.include),
           exclude |-> OrElse(b.exclude, a.exclude), noted |-> a.noted \cup b.noted]
  BY DEF MergeWith
<1> HIDE DEF c
<1>2. c = [policy |-> c.policy, byType |-> c.byType, header |-> c.header, format |-> c.format,
           values |-> c.values, patterns |-> c.patterns, sources |-> c.sources,
           include |-> c.include, exclude |-> c.exclude, noted |-> c.noted]
  BY <1>1
<1>3. c.policy = [f \in Fields |-> c.policy[f]]
  BY <1>1 DEF Overlay, IsTable
<1>4. c.format = [k \in DOMAIN Defaults.format |-> c.format[k]]
  BY <1>1 DEF Overlay, IsTable
<1>5. DOMAIN c.byType = DOMAIN a.byType \cup DOMAIN b.byType
  BY <1>1 DEF Union
<1>6. c.byType = [id \in DOMAIN c.byType |-> [f \in Fields |-> c.byType[id][f]]]
  <2>1. \A id \in DOMAIN c.byType :
           c.byType[id] = IF id \notin DOMAIN a.byType THEN b.byType[id]
                          ELSE IF id \notin DOMAIN b.byType THEN a.byType[id]
                          ELSE Overlay(a.byType[id], b.byType[id])
    BY <1>1, <1>5 DEF Union
  <2>2. \A id \in DOMAIN a.byType : a.byType[id] = [f \in Fields |-> a.byType[id][f]]
    BY DEF IsTable
  <2>3. \A id \in DOMAIN b.byType : b.byType[id] = [f \in Fields |-> b.byType[id][f]]
    BY DEF IsTable
  <2>4. \A id \in DOMAIN c.byType : c.byType[id] = [f \in Fields |-> c.byType[id][f]]
    <3> SUFFICES ASSUME NEW id \in DOMAIN c.byType
                 PROVE  c.byType[id] = [f \in Fields |-> c.byType[id][f]]
      OBVIOUS
    <3>1. CASE id \notin DOMAIN a.byType
      BY <3>1, <1>5, <2>1, <2>3
    <3>2. CASE id \in DOMAIN a.byType /\ id \notin DOMAIN b.byType
      BY <3>2, <2>1, <2>2
    <3>3. CASE id \in DOMAIN a.byType /\ id \in DOMAIN b.byType
      <4>1. c.byType[id] = Overlay(a.byType[id], b.byType[id])
        BY <3>3, <2>1
      <4>2. DOMAIN a.byType[id] = Fields
        BY <3>3, <2>2
      <4> QED BY <4>1, <4>2 DEF Overlay
    <3> QED BY <3>1, <3>2, <3>3
  <2>5. c.byType = [id \in DOMAIN c.byType |-> c.byType[id]]
    BY <1>1 DEF Union
  <2> QED BY <2>4, <2>5
<1>7. c.values = [v \in DOMAIN c.values |-> c.values[v]]
  BY <1>1 DEF Union
<1>8. c.patterns \in Seq({c.patterns[i] : i \in DOMAIN c.patterns})
  <2> DEFINE S == {a.patterns[i] : i \in DOMAIN a.patterns} \cup {b.patterns[i] : i \in DOMAIN b.patterns}
  <2>1. a.patterns \in Seq(S) /\ b.patterns \in Seq(S)
    BY DEF IsTable
  <2>2. c.patterns \in Seq(S)
    BY <1>1, <2>1
  <2> HIDE DEF S
  <2> QED BY <2>2
<1>9. \A id \in c.include \cup c.exclude \cup DOMAIN c.byType : IsId(id)
  BY <1>1, <1>5 DEF OrElse, IsTable
<1>10. IsTable(c)
  BY <1>2, <1>3, <1>4, <1>6, <1>7, <1>8, <1>9 DEF IsTable
<1> QED BY <1>10 DEF c

-----------------------------------------------------------------------------
(* The layers of a request, and what it declares. *)

\* Layers from the built-in one up.
IsStack(stack) ==
    /\ Len(stack) \in Nat \ {0} /\ stack = [i \in 1 .. Len(stack) |-> stack[i]]
    /\ stack[1] = [scope |-> Everywhere, config |-> Parse(Defaults)]
    /\ \A i \in 1 .. Len(stack) : /\ stack[i] = [scope |-> stack[i].scope, config |-> stack[i].config]
                                  /\ IsTable(stack[i].config)

\* The built-in draft names no file type and holds no patterns.
LEMMA DefaultsParsed ==
    /\ IsTable(Parse(Defaults))
    /\ Parse(Defaults).byType = <<>> /\ Parse(Defaults).patterns = <<>>
    /\ Parse(Defaults).include = {} /\ Parse(Defaults).exclude = {}
<1>1. IsTable(Defaults)
  BY DefaultsAssumption
<1>2. Parse(Defaults).byType = <<>>
  <2>1. DOMAIN Parse(Defaults).byType = {}
    BY <1>1, ParseGivesTable, DefaultsAssumption
  <2>2. IsTable(Parse(Defaults))
    BY <1>1, ParseGivesTable
  <2>3. \A f : DOMAIN f = {} /\ f = [id \in DOMAIN f |-> [g \in Fields |-> f[id][g]]] => f = <<>>
    OBVIOUS
  <2> QED BY <2>1, <2>2, <2>3 DEF IsTable
<1> QED BY <1>1, <1>2, ParseGivesTable, DefaultsAssumption

\* The layers built of any files are such a stack, and so are those of a request.
LEMMA LayersAreStack ==
    ASSUME NEW S, NEW files \in Seq(S), \A f \in S : IsTable(f.table)
    PROVE  IsStack(BuildLayers(files))
<1> DEFINE some == Loaded(files)
           stack == BuildLayers(files)
           first == [scope |-> Everywhere, config |-> Parse(Defaults)]
           rest == [i \in DOMAIN some |-> Layer(some[i])]
<1>1. some \in Seq(S)
  BY PickedSeq DEF Loaded
<1>2. stack = <<first>> \o rest
  BY DEF BuildLayers
<1> HIDE DEF some, stack
<1>3. Len(some) \in Nat /\ DOMAIN some = 1 .. Len(some) /\ \A i \in 1 .. Len(some) : some[i] \in S
  BY <1>1
<1> DEFINE All == {first} \cup {Layer(some[i]) : i \in 1 .. Len(some)}
<1>4. rest \in Seq(All) /\ Len(rest) = Len(some)
  BY <1>3
<1>5. \A i \in 1 .. Len(some) : rest[i] = Layer(some[i])
  BY <1>3
<1> HIDE DEF first, rest
<1>6. /\ stack \in Seq(All) /\ Len(stack) = Len(some) + 1 /\ stack[1] = first
      /\ \A i \in 2 .. Len(stack) : stack[i] = rest[i - 1]
  <2>1. first \in All
    OBVIOUS
  <2> HIDE DEF All
  <2> QED BY <1>2, <1>4, <2>1
<1>7. \A i \in 2 .. Len(stack) : stack[i] = Layer(some[i - 1]) /\ some[i - 1] \in S
  BY <1>3, <1>5, <1>6
<1>8. \A i \in 1 .. Len(stack) : /\ stack[i] = [scope |-> stack[i].scope, config |-> stack[i].config]
                                 /\ IsTable(stack[i].config)
  <2> SUFFICES ASSUME NEW i \in 1 .. Len(stack)
               PROVE  /\ stack[i] = [scope |-> stack[i].scope, config |-> stack[i].config]
                      /\ IsTable(stack[i].config)
    OBVIOUS
  <2>1. CASE i = 1
    BY <2>1, <1>6, DefaultsParsed DEF first
  <2>2. CASE i # 1
    <3>1. i \in 2 .. Len(stack)
      BY <2>2, <1>3, <1>6
    <3>2. stack[i] = Layer(some[i - 1]) /\ IsTable(some[i - 1].table)
      BY <3>1, <1>7
    <3>3. IsTable(Parse(some[i - 1].table))
      BY <3>2, ParseGivesTable
    <3> QED BY <3>2, <3>3 DEF Layer
  <2> QED BY <2>1, <2>2
<1>9. Len(stack) \in Nat \ {0} /\ stack = [i \in 1 .. Len(stack) |-> stack[i]]
  <2> HIDE DEF All
  <2> QED BY <1>3, <1>6
<1>10. IsStack(stack)
  BY <1>6, <1>8, <1>9 DEF IsStack, first
<1> QED BY <1>10 DEF stack

LEMMA LayersOfRequest ==
    ASSUME request \in Requests
    PROVE  IsStack(BuildLayers(Files))
<1> DEFINE r == request
           S == {r.user[i] : i \in DOMAIN r.user} \cup {r.extra[i] : i \in DOMAIN r.extra}
                \cup UNION {{r.dirs[i][j] : j \in DOMAIN r.dirs[i]} : i \in DOMAIN r.dirs}
<1>1. /\ IsFiles(r.user) /\ IsFiles(r.extra)
      /\ r.dirs \in Seq({r.dirs[i] : i \in DOMAIN r.dirs})
      /\ \A i \in DOMAIN r.dirs : IsFiles(r.dirs[i])
  BY RequestsAssumption
<1>2. \A f \in S : IsTable(f.table)
  BY <1>1 DEF IsFiles
<1>3. \A files : IsFiles(files) /\ {files[i] : i \in DOMAIN files} \subseteq S => files \in Seq(S)
  <2> HIDE DEF S
  <2> QED BY DEF IsFiles
<1>4. r.user \in Seq(S) /\ r.extra \in Seq(S)
  <2>1. {r.user[i] : i \in DOMAIN r.user} \subseteq S /\ {r.extra[i] : i \in DOMAIN r.extra} \subseteq S
    OBVIOUS
  <2> HIDE DEF S
  <2> QED BY <1>1, <1>3, <2>1
<1>5. r.dirs \in Seq(Seq(S))
  <2>1. \A i \in DOMAIN r.dirs : {r.dirs[i][j] : j \in DOMAIN r.dirs[i]} \subseteq S
    OBVIOUS
  <2> HIDE DEF S
  <2>2. \A i \in DOMAIN r.dirs : r.dirs[i] \in Seq(S)
    BY <1>1, <1>3, <2>1
  <2> QED BY <1>1, <2>2
<1> HIDE DEF S
<1>6. Files \in Seq(S)
  BY <1>4, <1>5, FilesAreFiles DEF Files
<1> QED BY <1>2, <1>6, LayersAreStack

\* Drafts from the built-in one up.
IsDeclared(told) ==
    /\ Len(told) \in Nat \ {0} /\ told = [i \in 1 .. Len(told) |-> told[i]]
    /\ told[1] = Parse(Defaults)
    /\ \A i \in 1 .. Len(told) : IsTable(told[i])

\* What a request declares is told by drafts, the built-in one first.
LEMMA DeclaredTables ==
    ASSUME request \in Requests
    PROVE  IsDeclared(Declared)
<1>1. CASE request.base # <<>>
  <2>1. IsTable(request.base[1])
    BY <1>1, RequestsAssumption
  <2>2. Declared = <<Parse(Defaults), Parse(request.base[1])>>
    BY <1>1 DEF Declared
  <2>3. IsTable(Parse(request.base[1]))
    BY <2>1, ParseGivesTable
  <2> HIDE DEF Declared
  <2> QED BY <2>2, <2>3, DefaultsParsed DEF IsDeclared
<1>2. CASE request.base = <<>>
  <2> DEFINE stack == BuildLayers(Files)
  <2>1. IsStack(stack)
    BY LayersOfRequest
  <2>2. Declared = [i \in DOMAIN stack |-> stack[i].config]
    BY <1>2 DEF Declared
  <2> HIDE DEF stack
  <2>3. DOMAIN stack = 1 .. Len(stack)
    BY <2>1 DEF IsStack
  <2>4. Len(Declared) = Len(stack) /\ \A i \in 1 .. Len(stack) : Declared[i] = stack[i].config
    BY <2>1, <2>2, <2>3 DEF IsStack
  <2>5. Declared = [i \in 1 .. Len(Declared) |-> Declared[i]]
    BY <2>2, <2>3, <2>4
  <2>6. 1 \in 1 .. Len(stack)
    BY <2>1 DEF IsStack
  <2> QED BY <2>1, <2>4, <2>5, <2>6 DEF IsDeclared, IsStack
<1> QED BY <1>1, <1>2

\* m[k] is what the first k of told merge into.
Chain(told, m) ==
    m[1] = told[1] /\ \A k \in 2 .. Len(told) : m[k] = MergeWith(m[k - 1], told[k])

\* The layers of the files merge one after the other, as Declared lists them.
LEMMA FilesMerge ==
    ASSUME request \in Requests, request.base = <<>>
    PROVE  \E m : Chain(Declared, m) /\ MergeLayers(BuildLayers(Files)) = m[Len(Declared)]
<1> DEFINE stack == BuildLayers(Files)
<1>1. IsStack(stack)
  BY LayersOfRequest
<1>2. Declared = [i \in DOMAIN stack |-> stack[i].config]
  BY DEF Declared
<1> HIDE DEF stack
<1>3. DOMAIN stack = 1 .. Len(stack) /\ Len(stack) \in Nat \ {0}
  BY <1>1 DEF IsStack
<1>4. Len(Declared) = Len(stack) /\ \A i \in 1 .. Len(stack) : Declared[i] = stack[i].config
  BY <1>2, <1>3
<1>5. stack \in Seq({stack[i] : i \in 1 .. Len(stack)}) /\ stack # <<>>
  BY <1>1 DEF IsStack
<1>6. PICK m : /\ m[1] = stack[1].config
               /\ \A k \in 2 .. Len(stack) : m[k] = MergeWith(m[k - 1], stack[k].config)
               /\ MergeLayers(stack) = m[Len(stack)]
  BY <1>5, MergeByLayers
<1>7. 1 \in 1 .. Len(stack) /\ \A k \in 2 .. Len(stack) : k \in 1 .. Len(stack)
  BY <1>3
<1>8. Chain(Declared, m)
  BY <1>4, <1>6, <1>7 DEF Chain
<1> QED BY <1>4, <1>6, <1>8 DEF stack

-----------------------------------------------------------------------------
(* What a chain of merges leaves: of each kind of setting the last that was told. *)

\* What c says of a field for an identifier.
OwnBy(c, id, f) == IF id \in DOMAIN c.byType THEN c.byType[id][f] ELSE Unset

\* Every draft of a chain is one.
LEMMA ChainTables ==
    ASSUME NEW told, NEW m, Len(told) \in Nat \ {0}, \A i \in 1 .. Len(told) : IsTable(told[i]),
           Chain(told, m)
    PROVE  \A k \in 1 .. Len(told) : IsTable(m[k])
<1> DEFINE G == {k \in Nat : k + 1 <= Len(told) => IsTable(m[k + 1])}
<1>1. 0 \in G
  BY DEF Chain
<1>2. ASSUME NEW k \in Nat, k \in G
      PROVE  k + 1 \in G
  <2> SUFFICES ASSUME (k + 1) + 1 <= Len(told)
               PROVE  IsTable(m[(k + 1) + 1])
    OBVIOUS
  <2>1. k + 2 \in 2 .. Len(told) /\ k + 2 \in 1 .. Len(told) /\ (k + 2) - 1 = k + 1
        /\ k + 1 <= Len(told) /\ (k + 1) + 1 = k + 2
    OBVIOUS
  <2>2. IsTable(m[k + 1]) /\ IsTable(told[k + 2])
    BY <1>2, <2>1
  <2>3. m[k + 2] = MergeWith(m[k + 1], told[k + 2])
    BY <2>1 DEF Chain
  <2> QED BY <2>1, <2>2, <2>3, MergeGivesTable
<1> HIDE DEF G
<1>3. \A k \in Nat : k \in G
  BY <1>1, <1>2, Induction
<1> SUFFICES ASSUME NEW k \in 1 .. Len(told)
             PROVE  IsTable(m[k])
  OBVIOUS
<1>4. k - 1 \in Nat /\ (k - 1) + 1 = k /\ k <= Len(told)
  OBVIOUS
<1> QED BY <1>3, <1>4 DEF G

\* The fields of a merged draft, by what becomes of them.
LEMMA MergeFields ==
    ASSUME NEW a, NEW b
    PROVE  /\ MergeWith(a, b).header = OrElse(b.header, a.header)
           /\ MergeWith(a, b).include = OrElse(b.include, a.include)
           /\ MergeWith(a, b).exclude = OrElse(b.exclude, a.exclude)
           /\ MergeWith(a, b).patterns = a.patterns \o b.patterns
BY DEF MergeWith

LEMMA MergeOverlays ==
    ASSUME NEW a, NEW b
    PROVE  /\ MergeWith(a, b).policy = Overlay(a.policy, b.policy)
           /\ MergeWith(a, b).format = Overlay(a.format, b.format)
BY DEF MergeWith

\* The positions of one step of a chain.
LEMMA ChainSteps ==
    ASSUME NEW told, NEW m, IsDeclared(told), Chain(told, m), NEW k \in 2 .. Len(told)
    PROVE  /\ k \in 1 .. Len(told) /\ k - 1 \in 1 .. Len(told)
           /\ m[k] = MergeWith(m[k - 1], told[k])
BY DEF Chain, IsDeclared

\* Header fields are the last that are given; filters, policies and formats alike.
LEMMA ChainHeader ==
    ASSUME NEW told, NEW m, IsDeclared(told), Chain(told, m)
    PROVE  m[Len(told)].header = LastOf(told, LAMBDA d : d.header # {}, LAMBDA d : d.header, {})
<1> DEFINE n == Len(told)
           at == {k \in 1 .. n : told[k].header # {}}
           v == [k \in 1 .. n |-> m[k].header]
           w == [k \in 1 .. n |-> told[k].header]
<1>1. n \in Nat \ {0} /\ DOMAIN told = 1 .. n /\ 1 \in 1 .. n /\ n \in 1 .. n
  BY DEF IsDeclared
<1>2. v[1] = IF 1 \in at THEN w[1] ELSE {}
  BY <1>1 DEF Chain
<1>3. \A k \in 2 .. n : v[k] = IF k \in at THEN w[k] ELSE v[k - 1]
  <2> SUFFICES ASSUME NEW k \in 2 .. n
               PROVE  v[k] = IF k \in at THEN w[k] ELSE v[k - 1]
    OBVIOUS
  <2>1. k \in 1 .. n /\ k - 1 \in 1 .. n /\ m[k] = MergeWith(m[k - 1], told[k])
    BY ChainSteps
  <2>2. MergeWith(m[k - 1], told[k]).header = OrElse(told[k].header, m[k - 1].header)
    BY MergeFields
  <2> QED BY <2>1, <2>2 DEF OrElse
<1>4. at \in SUBSET (1 .. n)
  OBVIOUS
<1> HIDE DEF n
<1>5. at # {} => Max(at) \in 1 .. n
  BY <1>1, <1>4, MaxOfNumbers
<1> HIDE DEF at, v, w
<1>6. v[n] = LastAt(at, w, {})
  BY <1>1, <1>2, <1>3, <1>4, LastSaid
<1>7. m[n].header = IF at = {} THEN {} ELSE told[Max(at)].header
  BY <1>1, <1>5, <1>6 DEF LastAt, v, w
<1>8. {i \in DOMAIN told : told[i].header # {}} = at
  BY <1>1 DEF at
<1> QED BY <1>7, <1>8 DEF LastOf, n

LEMMA ChainInclude ==
    ASSUME NEW told, NEW m, IsDeclared(told), Chain(told, m)
    PROVE  m[Len(told)].include = LastOf(told, LAMBDA d : d.include # {}, LAMBDA d : d.include, {})
<1> DEFINE n == Len(told)
           at == {k \in 1 .. n : told[k].include # {}}
           v == [k \in 1 .. n |-> m[k].include]
           w == [k \in 1 .. n |-> told[k].include]
<1>1. n \in Nat \ {0} /\ DOMAIN told = 1 .. n /\ 1 \in 1 .. n /\ n \in 1 .. n
  BY DEF IsDeclared
<1>2. v[1] = IF 1 \in at THEN w[1] ELSE {}
  BY <1>1 DEF Chain
<1>3. \A k \in 2 .. n : v[k] = IF k \in at THEN w[k] ELSE v[k - 1]
  <2> SUFFICES ASSUME NEW k \in 2 .. n
               PROVE  v[k] = IF k \in at THEN w[k] ELSE v[k - 1]
    OBVIOUS
  <2>1. k \in 1 .. n /\ k - 1 \in 1 .. n /\ m[k] = MergeWith(m[k - 1], told[k])
    BY ChainSteps
  <2>2. MergeWith(m[k - 1], told[k]).include = OrElse(told[k].include, m[k - 1].include)
    BY MergeFields
  <2> QED BY <2>1, <2>2 DEF OrElse
<1>4. at \in SUBSET (1 .. n)
  OBVIOUS
<1> HIDE DEF n
<1>5. at # {} => Max(at) \in 1 .. n
  BY <1>1, <1>4, MaxOfNumbers
<1> HIDE DEF at, v, w
<1>6. v[n] = LastAt(at, w, {})
  BY <1>1, <1>2, <1>3, <1>4, LastSaid
<1>7. m[n].include = IF at = {} THEN {} ELSE told[Max(at)].include
  BY <1>1, <1>5, <1>6 DEF LastAt, v, w
<1>8. {i \in DOMAIN told : told[i].include # {}} = at
  BY <1>1 DEF at
<1> QED BY <1>7, <1>8 DEF LastOf, n

LEMMA ChainExclude ==
    ASSUME NEW told, NEW m, IsDeclared(told), Chain(told, m)
    PROVE  m[Len(told)].exclude = LastOf(told, LAMBDA d : d.exclude # {}, LAMBDA d : d.exclude, {})
<1> DEFINE n == Len(told)
           at == {k \in 1 .. n : told[k].exclude # {}}
           v == [k \in 1 .. n |-> m[k].exclude]
           w == [k \in 1 .. n |-> told[k].exclude]
<1>1. n \in Nat \ {0} /\ DOMAIN told = 1 .. n /\ 1 \in 1 .. n /\ n \in 1 .. n
  BY DEF IsDeclared
<1>2. v[1] = IF 1 \in at THEN w[1] ELSE {}
  BY <1>1 DEF Chain
<1>3. \A k \in 2 .. n : v[k] = IF k \in at THEN w[k] ELSE v[k - 1]
  <2> SUFFICES ASSUME NEW k \in 2 .. n
               PROVE  v[k] = IF k \in at THEN w[k] ELSE v[k - 1]
    OBVIOUS
  <2>1. k \in 1 .. n /\ k - 1 \in 1 .. n /\ m[k] = MergeWith(m[k - 1], told[k])
    BY ChainSteps
  <2>2. MergeWith(m[k - 1], told[k]).exclude = OrElse(told[k].exclude, m[k - 1].exclude)
    BY MergeFields
  <2> QED BY <2>1, <2>2 DEF OrElse
<1>4. at \in SUBSET (1 .. n)
  OBVIOUS
<1> HIDE DEF n
<1>5. at # {} => Max(at) \in 1 .. n
  BY <1>1, <1>4, MaxOfNumbers
<1> HIDE DEF at, v, w
<1>6. v[n] = LastAt(at, w, {})
  BY <1>1, <1>2, <1>3, <1>4, LastSaid
<1>7. m[n].exclude = IF at = {} THEN {} ELSE told[Max(at)].exclude
  BY <1>1, <1>5, <1>6 DEF LastAt, v, w
<1>8. {i \in DOMAIN told : told[i].exclude # {}} = at
  BY <1>1 DEF at
<1> QED BY <1>7, <1>8 DEF LastOf, n

LEMMA ChainPolicy ==
    ASSUME NEW told, NEW m, IsDeclared(told), Chain(told, m), NEW f \in Fields
    PROVE  m[Len(told)].policy[f] = LastOf(told, LAMBDA d : d.policy[f] # Unset, LAMBDA d : d.policy[f], Unset)
<1> DEFINE n == Len(told)
           at == {k \in 1 .. n : told[k].policy[f] # Unset}
           v == [k \in 1 .. n |-> m[k].policy[f]]
           w == [k \in 1 .. n |-> told[k].policy[f]]
<1>1. n \in Nat \ {0} /\ DOMAIN told = 1 .. n /\ 1 \in 1 .. n /\ n \in 1 .. n
  BY DEF IsDeclared
<1>2. v[1] = IF 1 \in at THEN w[1] ELSE Unset
  BY <1>1 DEF Chain
<1>3. \A k \in 2 .. n : v[k] = IF k \in at THEN w[k] ELSE v[k - 1]
  <2> SUFFICES ASSUME NEW k \in 2 .. n
               PROVE  v[k] = IF k \in at THEN w[k] ELSE v[k - 1]
    OBVIOUS
  <2>1. k \in 1 .. n /\ k - 1 \in 1 .. n /\ m[k] = MergeWith(m[k - 1], told[k])
    BY ChainSteps
  <2>2. MergeWith(m[k - 1], told[k]).policy = Overlay(m[k - 1].policy, told[k].policy)
    BY MergeOverlays
  <2>3. IsTable(m[k - 1])
    BY <2>1, ChainTables DEF IsDeclared
  <2>4. DOMAIN m[k - 1].policy = Fields
    BY <2>3 DEF IsTable
  <2> QED BY <2>1, <2>2, <2>4 DEF Overlay
<1>4. at \in SUBSET (1 .. n)
  OBVIOUS
<1> HIDE DEF n
<1>5. at # {} => Max(at) \in 1 .. n
  BY <1>1, <1>4, MaxOfNumbers
<1> HIDE DEF at, v, w
<1>6. v[n] = LastAt(at, w, Unset)
  BY <1>1, <1>2, <1>3, <1>4, LastSaid
<1>7. m[n].policy[f] = IF at = {} THEN Unset ELSE told[Max(at)].policy[f]
  BY <1>1, <1>5, <1>6 DEF LastAt, v, w
<1>8. {i \in DOMAIN told : told[i].policy[f] # Unset} = at
  BY <1>1 DEF at
<1> QED BY <1>7, <1>8 DEF LastOf, n

LEMMA ChainFormat ==
    ASSUME NEW told, NEW m, IsDeclared(told), Chain(told, m), NEW x \in DOMAIN Defaults.format
    PROVE  m[Len(told)].format[x] = LastOf(told, LAMBDA d : d.format[x] # Unset, LAMBDA d : d.format[x], Unset)
<1> DEFINE n == Len(told)
           at == {k \in 1 .. n : told[k].format[x] # Unset}
           v == [k \in 1 .. n |-> m[k].format[x]]
           w == [k \in 1 .. n |-> told[k].format[x]]
<1>1. n \in Nat \ {0} /\ DOMAIN told = 1 .. n /\ 1 \in 1 .. n /\ n \in 1 .. n
  BY DEF IsDeclared
<1>2. v[1] = IF 1 \in at THEN w[1] ELSE Unset
  BY <1>1 DEF Chain
<1>3. \A k \in 2 .. n : v[k] = IF k \in at THEN w[k] ELSE v[k - 1]
  <2> SUFFICES ASSUME NEW k \in 2 .. n
               PROVE  v[k] = IF k \in at THEN w[k] ELSE v[k - 1]
    OBVIOUS
  <2>1. k \in 1 .. n /\ k - 1 \in 1 .. n /\ m[k] = MergeWith(m[k - 1], told[k])
    BY ChainSteps
  <2>2. MergeWith(m[k - 1], told[k]).format = Overlay(m[k - 1].format, told[k].format)
    BY MergeOverlays
  <2>3. IsTable(m[k - 1])
    BY <2>1, ChainTables DEF IsDeclared
  <2>4. DOMAIN m[k - 1].format = DOMAIN Defaults.format
    BY <2>3 DEF IsTable
  <2> QED BY <2>1, <2>2, <2>4 DEF Overlay
<1>4. at \in SUBSET (1 .. n)
  OBVIOUS
<1> HIDE DEF n
<1>5. at # {} => Max(at) \in 1 .. n
  BY <1>1, <1>4, MaxOfNumbers
<1> HIDE DEF at, v, w
<1>6. v[n] = LastAt(at, w, Unset)
  BY <1>1, <1>2, <1>3, <1>4, LastSaid
<1>7. m[n].format[x] = IF at = {} THEN Unset ELSE told[Max(at)].format[x]
  BY <1>1, <1>5, <1>6 DEF LastAt, v, w
<1>8. {i \in DOMAIN told : told[i].format[x] # Unset} = at
  BY <1>1 DEF at
<1> QED BY <1>7, <1>8 DEF LastOf, n

\* Entries and values of two drafts: both are kept, and what both have is overlaid.
LEMMA MergeEntries ==
    ASSUME NEW a, NEW b
    PROVE  /\ DOMAIN MergeWith(a, b).byType = DOMAIN a.byType \cup DOMAIN b.byType
           /\ \A id \in DOMAIN a.byType \cup DOMAIN b.byType :
                 MergeWith(a, b).byType[id] =
                     IF id \notin DOMAIN a.byType THEN b.byType[id]
                     ELSE IF id \notin DOMAIN b.byType THEN a.byType[id]
                     ELSE Overlay(a.byType[id], b.byType[id])
BY DEF MergeWith, Union, Latter

LEMMA MergeValues ==
    ASSUME NEW a, NEW b
    PROVE  /\ DOMAIN MergeWith(a, b).values = DOMAIN a.values \cup DOMAIN b.values
           /\ \A x \in DOMAIN a.values \cup DOMAIN b.values :
                 MergeWith(a, b).values[x] = IF x \in DOMAIN b.values THEN b.values[x]
                                             ELSE a.values[x]
BY DEF MergeWith, Union, Latter

\* A field of an entry is the latter's where it says something.
LEMMA MergeOwn ==
    ASSUME NEW a, NEW b, IsTable(a), IsTable(b), NEW id, NEW f \in Fields
    PROVE  OwnBy(MergeWith(a, b), id, f) = IF OwnBy(b, id, f) # Unset THEN OwnBy(b, id, f)
                                           ELSE OwnBy(a, id, f)
<1>1. id \in DOMAIN a.byType => DOMAIN a.byType[id] = Fields
  BY DEF IsTable
<1>2. DOMAIN MergeWith(a, b).byType = DOMAIN a.byType \cup DOMAIN b.byType
  BY MergeEntries
<1>3. CASE id \in DOMAIN a.byType \cup DOMAIN b.byType
  <2>1. MergeWith(a, b).byType[id] =
            IF id \notin DOMAIN a.byType THEN b.byType[id]
            ELSE IF id \notin DOMAIN b.byType THEN a.byType[id]
            ELSE Overlay(a.byType[id], b.byType[id])
    BY <1>3, MergeEntries
  <2> QED BY <1>1, <1>2, <1>3, <2>1 DEF OwnBy, Overlay
<1>4. CASE id \notin DOMAIN a.byType \cup DOMAIN b.byType
  BY <1>2, <1>4 DEF OwnBy
<1> QED BY <1>3, <1>4

\* The last that sets a field for an identifier.
OwnOver(told, id, f) ==
    LastOf(told, LAMBDA d : OwnBy(d, id, f) # Unset, LAMBDA d : OwnBy(d, id, f), Unset)

\* After a chain, a field of an entry is the last that was told for it.
LEMMA ChainOwn ==
    ASSUME NEW told, NEW m, IsDeclared(told), Chain(told, m), NEW id, NEW f \in Fields
    PROVE  OwnBy(m[Len(told)], id, f) = OwnOver(told, id, f)
<1> DEFINE n == Len(told)
           at == {k \in 1 .. n : OwnBy(told[k], id, f) # Unset}
           v == [k \in 1 .. n |-> OwnBy(m[k], id, f)]
           w == [k \in 1 .. n |-> OwnBy(told[k], id, f)]
<1>1. n \in Nat \ {0} /\ DOMAIN told = 1 .. n /\ 1 \in 1 .. n /\ n \in 1 .. n
  BY DEF IsDeclared
<1>2. v[1] = IF 1 \in at THEN w[1] ELSE Unset
  BY <1>1 DEF Chain
<1>3. \A k \in 2 .. n : v[k] = IF k \in at THEN w[k] ELSE v[k - 1]
  <2> SUFFICES ASSUME NEW k \in 2 .. n
               PROVE  v[k] = IF k \in at THEN w[k] ELSE v[k - 1]
    OBVIOUS
  <2>1. k \in 1 .. n /\ k - 1 \in 1 .. n /\ m[k] = MergeWith(m[k - 1], told[k])
    BY ChainSteps
  <2>2. IsTable(m[k - 1]) /\ IsTable(told[k])
    BY <2>1, ChainTables DEF IsDeclared
  <2>3. OwnBy(m[k], id, f) = IF OwnBy(told[k], id, f) # Unset THEN OwnBy(told[k], id, f)
                             ELSE OwnBy(m[k - 1], id, f)
    BY <2>1, <2>2, MergeOwn
  <2> QED BY <2>1, <2>3
<1>4. at \in SUBSET (1 .. n)
  OBVIOUS
<1> HIDE DEF n
<1>5. at # {} => Max(at) \in 1 .. n
  BY <1>1, <1>4, MaxOfNumbers
<1> HIDE DEF at, v, w
<1>6. v[n] = LastAt(at, w, Unset)
  BY <1>1, <1>2, <1>3, <1>4, LastSaid, SMTT(30)
<1>7. OwnBy(m[n], id, f) = IF at = {} THEN Unset ELSE OwnBy(told[Max(at)], id, f)
  BY <1>1, <1>5, <1>6 DEF LastAt, v, w
<1>8. {i \in DOMAIN told : OwnBy(told[i], id, f) # Unset} = at
  BY <1>1 DEF at
<1> QED BY <1>7, <1>8 DEF OwnOver, LastOf, n

\* A value of a field of the header, and the last that was told.
ValueBy(c, x) == IF x \in DOMAIN c.values THEN c.values[x] ELSE Unset

ValueOver(told, x) ==
    LastOf(told, LAMBDA d : x \in DOMAIN d.values, LAMBDA d : ValueBy(d, x), Unset)

\* After a chain, a value is the last that was told.
LEMMA ChainValue ==
    ASSUME NEW told, NEW m, IsDeclared(told), Chain(told, m), NEW x
    PROVE  ValueBy(m[Len(told)], x) = ValueOver(told, x)
<1> DEFINE n == Len(told)
           at == {k \in 1 .. n : x \in DOMAIN told[k].values}
           v == [k \in 1 .. n |-> ValueBy(m[k], x)]
           w == [k \in 1 .. n |-> ValueBy(told[k], x)]
<1>1. n \in Nat \ {0} /\ DOMAIN told = 1 .. n /\ 1 \in 1 .. n /\ n \in 1 .. n
  BY DEF IsDeclared
<1>2. v[1] = IF 1 \in at THEN w[1] ELSE Unset
  BY <1>1 DEF Chain, ValueBy
<1>3. \A k \in 2 .. n : v[k] = IF k \in at THEN w[k] ELSE v[k - 1]
  <2> SUFFICES ASSUME NEW k \in 2 .. n
               PROVE  v[k] = IF k \in at THEN w[k] ELSE v[k - 1]
    OBVIOUS
  <2>1. k \in 1 .. n /\ k - 1 \in 1 .. n /\ m[k] = MergeWith(m[k - 1], told[k])
    BY ChainSteps
  <2>3. DOMAIN m[k].values = DOMAIN told[k].values \cup DOMAIN m[k - 1].values
        /\ \A y \in DOMAIN m[k].values :
              m[k].values[y] = IF y \in DOMAIN told[k].values THEN told[k].values[y]
                               ELSE m[k - 1].values[y]
    BY <2>1, MergeValues
  <2> QED BY <2>1, <2>3 DEF ValueBy
<1>4. at \in SUBSET (1 .. n)
  OBVIOUS
<1> HIDE DEF n
<1>5. at # {} => Max(at) \in 1 .. n
  BY <1>1, <1>4, MaxOfNumbers
<1> HIDE DEF at, v, w
<1>6. v[n] = LastAt(at, w, Unset)
  BY <1>1, <1>2, <1>3, <1>4, LastSaid
<1>7. ValueBy(m[n], x) = IF at = {} THEN Unset ELSE ValueBy(told[Max(at)], x)
  BY <1>1, <1>5, <1>6 DEF LastAt, v, w
<1>8. {i \in DOMAIN told : x \in DOMAIN told[i].values} = at
  BY <1>1 DEF at
<1> QED BY <1>7, <1>8 DEF ValueOver, LastOf, n

\* After a chain, there are entries and values for all that was told of.
LEMMA ChainDomains ==
    ASSUME NEW told, NEW m, IsDeclared(told), Chain(told, m)
    PROVE  /\ DOMAIN m[Len(told)].byType = UNION {DOMAIN told[i].byType : i \in DOMAIN told}
           /\ DOMAIN m[Len(told)].values = UNION {DOMAIN told[i].values : i \in DOMAIN told}
<1> DEFINE n == Len(told)
           vt == [k \in 1 .. n |-> DOMAIN m[k].byType]
           wt == [k \in 1 .. n |-> DOMAIN told[k].byType]
           vv == [k \in 1 .. n |-> DOMAIN m[k].values]
           wv == [k \in 1 .. n |-> DOMAIN told[k].values]
<1>1. n \in Nat \ {0} /\ DOMAIN told = 1 .. n /\ 1 \in 1 .. n /\ n \in 1 .. n
  BY DEF IsDeclared
<1>2. vt[1] = wt[1] /\ vv[1] = wv[1]
  BY <1>1 DEF Chain
<1>3. ASSUME NEW k \in 2 .. n
      PROVE  vt[k] = vt[k - 1] \cup wt[k] /\ vv[k] = vv[k - 1] \cup wv[k]
  <2>1. k \in 1 .. n /\ k - 1 \in 1 .. n /\ m[k] = MergeWith(m[k - 1], told[k])
    BY ChainSteps
  <2>3. DOMAIN m[k].values = DOMAIN told[k].values \cup DOMAIN m[k - 1].values
    BY <2>1, MergeValues
  <2>4. DOMAIN m[k].byType = DOMAIN m[k - 1].byType \cup DOMAIN told[k].byType
    BY <2>1, MergeEntries
  <2> QED BY <2>1, <2>3, <2>4
<1> HIDE DEF n, vt, wt, vv, wv
<1>4. vt[n] = UNION {wt[i] : i \in 1 .. n}
  BY <1>1, <1>2, <1>3, UnionOfParts
<1>5. vv[n] = UNION {wv[i] : i \in 1 .. n}
  BY <1>1, <1>2, <1>3, UnionOfParts
<1>6. {wt[i] : i \in 1 .. n} = {DOMAIN told[i].byType : i \in DOMAIN told}
      /\ {wv[i] : i \in 1 .. n} = {DOMAIN told[i].values : i \in DOMAIN told}
  BY <1>1 DEF wt, wv
<1> QED BY <1>1, <1>4, <1>5, <1>6 DEF vt, vv, n

\* Patterns add up in the order they are told.
LEMMA ChainPatterns ==
    ASSUME NEW told, NEW m, IsDeclared(told), Chain(told, m)
    PROVE  m[Len(told)].patterns = FlattenSeq([i \in DOMAIN told |-> told[i].patterns])
<1> DEFINE n == Len(told) - 1
           parts == [i \in 1 .. n + 1 |-> told[i].patterns]
<1>1. n \in Nat /\ DOMAIN told = 1 .. n + 1 /\ Len(told) = n + 1
  BY DEF IsDeclared
<1>2. parts = [i \in DOMAIN told |-> told[i].patterns] /\ parts = [i \in 1 .. n + 1 |-> parts[i]]
      /\ Len(parts) = n + 1
  BY <1>1
<1>3. \A i \in 1 .. n + 1 : parts[i] = told[i].patterns
  OBVIOUS
<1> HIDE DEF n, parts
<1>4. PICK p : /\ p[1] = parts[1]
               /\ \A k \in 2 .. n + 1 : p[k] = p[k - 1] \o parts[k]
               /\ FlattenSeq(parts) = p[n + 1]
  BY <1>1, <1>2, FlattenByParts
<1> DEFINE G == {k \in Nat : k + 1 <= n + 1 => m[k + 1].patterns = p[k + 1]}
<1>5. 0 \in G
  <2>1. 1 \in 1 .. n + 1
    BY <1>1
  <2> QED BY <2>1, <1>3, <1>4 DEF Chain
<1>6. ASSUME NEW k \in Nat, k \in G
      PROVE  k + 1 \in G
  <2> SUFFICES ASSUME k + 2 <= n + 1
               PROVE  m[k + 2].patterns = p[k + 2]
    OBVIOUS
  <2>1. k + 2 \in 2 .. n + 1 /\ k + 2 \in 1 .. n + 1 /\ (k + 2) - 1 = k + 1 /\ k + 1 <= n + 1
    BY <1>1
  <2>2. m[k + 2] = MergeWith(m[k + 1], told[k + 2])
    BY <1>1, <2>1 DEF Chain
  <2>3. MergeWith(m[k + 1], told[k + 2]).patterns = m[k + 1].patterns \o told[k + 2].patterns
    BY MergeFields
  <2>4. p[k + 2] = p[k + 1] \o parts[k + 2]
    BY <1>4, <2>1
  <2> QED BY <1>3, <1>6, <2>1, <2>2, <2>3, <2>4
<1> HIDE DEF G
<1>7. n \in G
  BY <1>1, <1>5, <1>6, Induction
<1> QED BY <1>1, <1>2, <1>4, <1>7 DEF G

-----------------------------------------------------------------------------
(* Names of file types, and what freezing makes of a draft. *)

\* Identifiers name the registered types they spell out, in full or by the local key.
LEMMA NamedFresh ==
    ASSUME RegistryTypeOK, ViewsAreCurrent, NEW ids, \A id \in ids : IsId(id)
    PROVE  NamedBy(ids) = {t \in FreshTypes : t \in ids \/ LocalId(t) \in ids}
<1>1. LocalTypes = FreshTypes /\ KnownTypes = FreshTypes /\ FreshTypes \in SUBSET FileTypes
  BY ViewsTell
<1>2. ASSUME NEW t \in FreshTypes, NEW id \in ids, t \in Named(id)
      PROVE  t \in ids \/ LocalId(t) \in ids
  <2>1. CASE id.ns = AnyNs
    <3>1. t.key = id.key
      BY <1>1, <1>2, <2>1 DEF Named
    <3>2. id = [ns |-> AnyNs, key |-> t.key]
      BY <2>1, <3>1 DEF IsId
    <3> QED BY <3>2 DEF LocalId
  <2>2. CASE id.ns # AnyNs
    BY <1>2, <2>2 DEF Named
  <2> QED BY <2>1, <2>2
<1>3. ASSUME NEW t \in FreshTypes, t \in ids
      PROVE  t \in Named(t)
  <2>1. t.ns # AnyNs
    BY <1>1, BaseAssumption
  <2> QED BY <1>1, <2>1 DEF Named
<1>4. ASSUME NEW t \in FreshTypes, LocalId(t) \in ids
      PROVE  t \in Named(LocalId(t))
  BY <1>1 DEF Named, LocalId
<1>5. ASSUME NEW id \in ids, NEW t \in Named(id)
      PROVE  t \in FreshTypes
  BY <1>1 DEF Named
<1> QED BY <1>2, <1>3, <1>4, <1>5 DEF NamedBy

\* A registered type is an identifier of its own, and never a local one.
LEMMA TypesAreIds ==
    ASSUME RegistryTypeOK, ViewsAreCurrent
    PROVE  \A t \in FreshTypes : /\ IsId(t) /\ t \in FileTypes
                                 /\ \A u \in FreshTypes : LocalId(u) # t
<1>1. FreshTypes \in SUBSET FileTypes
  BY ViewsTell
<1>2. \A t \in FileTypes : t \in [ns : {t.ns}, key : {t.key}] /\ t.ns # AnyNs
  BY BaseAssumption
<1>3. \A t \in FreshTypes : IsId(t) /\ t \in FileTypes /\ t.ns # AnyNs
  BY <1>1, <1>2 DEF IsId
<1>4. \A u : LocalId(u).ns = AnyNs
  BY DEF LocalId
<1>5. \A t, u \in FreshTypes : LocalId(u) # t
  BY <1>3, <1>4
<1> QED BY <1>3, <1>5

\* What names resolved to, they resolve to again.
LEMMA NamedAgain ==
    ASSUME RegistryTypeOK, ViewsAreCurrent, NEW ids \in SUBSET FreshTypes
    PROVE  NamedBy(ids) = ids
<1>1. \A id \in ids : IsId(id)
  BY TypesAreIds
<1>2. NamedBy(ids) = {t \in FreshTypes : t \in ids \/ LocalId(t) \in ids}
  BY <1>1, NamedFresh
<1> QED BY <1>2, TypesAreIds

\* A configuration all of whose policies are set, of registered types only.
IsFrozen(c) ==
    /\ IsTable(c)
    /\ \A f \in Fields : c.policy[f] # Unset
    /\ DOMAIN c.byType \subseteq FreshTypes
    /\ \A t \in DOMAIN c.byType : \A f \in Fields : c.byType[t][f] # Unset
    /\ c.include \subseteq FreshTypes /\ c.exclude \subseteq FreshTypes

\* z is c frozen; ll is the order of spellings.
Froze(c, ll, z) ==
    /\ z = [policy |-> z.policy, byType |-> z.byType, header |-> c.header,
            format |-> c.format, values |-> c.values, patterns |-> c.patterns,
            sources |-> z.sources, include |-> NamedBy(c.include),
            exclude |-> NamedBy(c.exclude), noted |-> z.noted]
    /\ z.policy = Overlay(PolicyDefaults, c.policy)
    /\ DOMAIN z.byType = NamedBy(DOMAIN c.byType)
    /\ z.byType = [t \in DOMAIN z.byType |-> z.byType[t]]
    /\ \A t \in DOMAIN z.byType : z.byType[t] = Overlay(z.policy, Entry(c.byType, t, ll))

\* What freezing changes, field by field.
LEMMA FreezeFields ==
    ASSUME NEW c, IsTable(c), NEW ll
    PROVE  Froze(c, ll, Freeze(c, ll))
<1> DEFINE s == Sanitize(c, ll)
           z == Freeze(c, ll)
           types == NamedBy(DOMAIN c.byType)
<1>1. c = [policy |-> c.policy, byType |-> c.byType, header |-> c.header, format |-> c.format,
           values |-> c.values, patterns |-> c.patterns, sources |-> c.sources,
           include |-> c.include, exclude |-> c.exclude, noted |-> c.noted]
  BY DEF IsTable
<1>2. \E sources, noted :
         s = [policy |-> c.policy, byType |-> [t \in types |-> Entry(c.byType, t, ll)],
              header |-> c.header, format |-> c.format, values |-> c.values,
              patterns |-> c.patterns, sources |-> sources, include |-> NamedBy(c.include),
              exclude |-> NamedBy(c.exclude), noted |-> noted]
  <2>1. \E sources, noted :
         s = [c EXCEPT !.include = NamedBy(c.include), !.exclude = NamedBy(c.exclude),
                       !.sources = sources, !.byType = [t \in types |-> Entry(c.byType, t, ll)],
                       !.noted = noted]
    BY DEF Sanitize
  <2> HIDE DEF s, types
  <2> QED BY <1>1, <2>1
<1>3. PICK sources, noted :
         s = [policy |-> c.policy, byType |-> [t \in types |-> Entry(c.byType, t, ll)],
              header |-> c.header, format |-> c.format, values |-> c.values,
              patterns |-> c.patterns, sources |-> sources, include |-> NamedBy(c.include),
              exclude |-> NamedBy(c.exclude), noted |-> noted]
  BY <1>2
<1> DEFINE policy == Overlay(PolicyDefaults, s.policy)
<1>4. z = [s EXCEPT !.policy = policy,
                    !.byType = [t \in DOMAIN s.byType |-> Overlay(policy, s.byType[t])]]
  BY DEF Freeze
<1> HIDE DEF s, z, types
<1>5. s.policy = c.policy /\ DOMAIN s.byType = types
      /\ \A t \in types : s.byType[t] = Entry(c.byType, t, ll)
  BY <1>3
<1>6. z = [policy |-> policy, byType |-> [t \in DOMAIN s.byType |-> Overlay(policy, s.byType[t])],
              header |-> c.header, format |-> c.format, values |-> c.values,
              patterns |-> c.patterns, sources |-> sources, include |-> NamedBy(c.include),
              exclude |-> NamedBy(c.exclude), noted |-> noted]
  <2> HIDE DEF policy
  <2> QED BY <1>3, <1>4
<1> HIDE DEF policy
<1>7. /\ z.policy = policy /\ DOMAIN z.byType = types
      /\ z.byType = [t \in DOMAIN z.byType |-> z.byType[t]]
      /\ \A t \in types : z.byType[t] = Overlay(policy, Entry(c.byType, t, ll))
  BY <1>5, <1>6
<1>8. policy = Overlay(PolicyDefaults, c.policy)
  BY <1>5 DEF policy
<1>9. z = [policy |-> z.policy, byType |-> z.byType, header |-> c.header,
                       format |-> c.format, values |-> c.values, patterns |-> c.patterns,
                       sources |-> z.sources, include |-> NamedBy(c.include),
                       exclude |-> NamedBy(c.exclude), noted |-> z.noted]
  BY <1>6
<1>10. Froze(c, ll, z)
  BY <1>7, <1>8, <1>9 DEF types, Froze
<1> QED BY <1>10 DEF z

\* An entry of a type, in whichever order its spellings meet, sets the policy fields.
LEMMA EntryTyped ==
    ASSUME NEW c, IsTable(c), NEW t, DOMAIN c.byType \cap {t, LocalId(t)} # {}, NEW ll
    PROVE  Entry(c.byType, t, ll) = [f \in Fields |-> Entry(c.byType, t, ll)[f]]
<1> DEFINE b == c.byType
           has == DOMAIN b \cap {t, LocalId(t)}
<1>1. \A id \in DOMAIN b : b[id] = [f \in Fields |-> b[id][f]]
  BY DEF IsTable
<1>2. CASE has = {t, LocalId(t)}
  <2>1. Entry(b, t, ll) = IF t \in ll THEN Overlay(b[t], b[LocalId(t)]) ELSE Overlay(b[LocalId(t)], b[t])
    BY <1>2 DEF Entry
  <2>2. DOMAIN b[t] = Fields /\ DOMAIN b[LocalId(t)] = Fields
    BY <1>1, <1>2
  <2> QED BY <2>1, <2>2 DEF Overlay
<1>3. CASE has # {t, LocalId(t)}
  <2>1. \E id \in DOMAIN b : Entry(b, t, ll) = b[id]
    <3>1. Entry(b, t, ll) = b[CHOOSE id \in has : TRUE]
      BY <1>3 DEF Entry
    <3>2. (CHOOSE id \in has : TRUE) \in has
      OBVIOUS
    <3> QED BY <3>1, <3>2
  <2> QED BY <1>1, <2>1
<1> QED BY <1>2, <1>3

\* Whatever draft is frozen, all policies are set and only registered types remain.
LEMMA FreezeGivesFrozen ==
    ASSUME RegistryTypeOK, ViewsAreCurrent, NEW c, IsTable(c), NEW ll
    PROVE  IsFrozen(Freeze(c, ll))
<1> DEFINE z == Freeze(c, ll)
<1>1. /\ z = [policy |-> z.policy, byType |-> z.byType, header |-> c.header,
              format |-> c.format, values |-> c.values, patterns |-> c.patterns,
              sources |-> z.sources, include |-> NamedBy(c.include),
              exclude |-> NamedBy(c.exclude), noted |-> z.noted]
      /\ z.policy = Overlay(PolicyDefaults, c.policy)
      /\ DOMAIN z.byType = NamedBy(DOMAIN c.byType)
      /\ z.byType = [t \in DOMAIN z.byType |-> z.byType[t]]
      /\ \A t \in DOMAIN z.byType : z.byType[t] = Overlay(z.policy, Entry(c.byType, t, ll))
  <2> Froze(c, ll, z)
    BY FreezeFields
  <2> HIDE DEF z
  <2> QED BY DEF Froze
<1> HIDE DEF z
<1>2. \A id \in c.include \cup c.exclude \cup DOMAIN c.byType : IsId(id)
  BY DEF IsTable
<1>3. \A ids : ids \subseteq c.include \cup c.exclude \cup DOMAIN c.byType => NamedBy(ids) \subseteq FreshTypes
  BY <1>2, NamedFresh
<1>4. z.include \subseteq FreshTypes /\ z.exclude \subseteq FreshTypes /\ DOMAIN z.byType \subseteq FreshTypes
  <2>1. z.include = NamedBy(c.include) /\ z.exclude = NamedBy(c.exclude)
    BY <1>1
  <2>2. NamedBy(c.include) \subseteq FreshTypes
    BY <1>3
  <2>3. NamedBy(c.exclude) \subseteq FreshTypes
    BY <1>3
  <2>4. NamedBy(DOMAIN c.byType) \subseteq FreshTypes
    BY <1>3
  <2> QED BY <1>1, <2>1, <2>2, <2>3, <2>4
<1>5. DOMAIN z.policy = Fields /\ z.policy = [f \in Fields |-> z.policy[f]] /\ \A f \in Fields : z.policy[f] # Unset
  <2>1. DOMAIN PolicyDefaults = Fields /\ \A f \in Fields : PolicyDefaults[f] # Unset
    BY DefaultsAssumption
  <2> QED BY <1>1, <2>1 DEF Overlay
<1>6. ASSUME NEW t \in DOMAIN z.byType
      PROVE  z.byType[t] = [f \in Fields |-> z.byType[t][f]] /\ \A f \in Fields : z.byType[t][f] # Unset
  <2> DEFINE e == Entry(c.byType, t, ll)
             x == z.byType[t]
             p == z.policy
  <2>1. x = [f \in DOMAIN p |-> IF e[f] = Unset THEN p[f] ELSE e[f]]
    BY <1>1 DEF Overlay
  <2>2. DOMAIN p = Fields /\ \A f \in Fields : p[f] # Unset
    BY <1>5
  <2> HIDE DEF e, x, p
  <2>3. x = [f \in Fields |-> x[f]] /\ \A f \in Fields : x[f] # Unset
    BY <2>1, <2>2
  <2> QED BY <2>3 DEF x
<1>7. IsTable(z)
  <2>1. z = [policy |-> z.policy, byType |-> z.byType, header |-> z.header, format |-> z.format,
            values |-> z.values, patterns |-> z.patterns, sources |-> z.sources,
            include |-> z.include, exclude |-> z.exclude, noted |-> z.noted]
    BY <1>1
  <2>2. z.format = c.format /\ z.values = c.values /\ z.patterns = c.patterns
    BY <1>1
  <2>3. z.byType = [t \in DOMAIN z.byType |-> [f \in Fields |-> z.byType[t][f]]]
    BY <1>1, <1>6
  <2>4. \A id \in z.include \cup z.exclude \cup DOMAIN z.byType : IsId(id)
    BY <1>4, TypesAreIds
  <2>5. /\ c.format = [k \in DOMAIN Defaults.format |-> c.format[k]]
        /\ c.values = [v \in DOMAIN c.values |-> c.values[v]]
        /\ c.patterns \in Seq({c.patterns[i] : i \in DOMAIN c.patterns})
    BY DEF IsTable
  <2> QED BY <1>5, <2>1, <2>2, <2>3, <2>4, <2>5 DEF IsTable
<1>8. IsFrozen(z)
  BY <1>4, <1>5, <1>6, <1>7 DEF IsFrozen
<1> QED BY <1>8 DEF z

\* z is c with the overrides o.
Applied(c, o, z) ==
    /\ z = [policy |-> Overlay(c.policy, o.policy), byType |-> z.byType,
            header |-> c.header, format |-> Overlay(c.format, o.format),
            values |-> c.values, patterns |-> Given(o.patterns, c.patterns),
            sources |-> c.sources, include |-> Given(o.include, c.include),
            exclude |-> Given(o.exclude, c.exclude), noted |-> z.noted]
    /\ DOMAIN z.byType = DOMAIN c.byType \cup DOMAIN o.byType
    /\ z.byType = [id \in DOMAIN z.byType |-> z.byType[id]]
    /\ \A id \in DOMAIN z.byType :
          z.byType[id] = IF id \notin DOMAIN c.byType THEN o.byType[id]
                         ELSE IF id \notin DOMAIN o.byType THEN c.byType[id]
                         ELSE Overlay(c.byType[id], o.byType[id])

\* What overrides change, field by field; and they leave a draft a draft.
LEMMA ApplyFields ==
    ASSUME NEW c, IsTable(c), NEW o, IsOverride(o)
    PROVE  Applied(c, o, ApplyOverrides(c, o))
<1> DEFINE z == ApplyOverrides(c, o)
           types == [id \in DOMAIN c.byType \cup DOMAIN o.byType |->
                       IF id \notin DOMAIN c.byType THEN o.byType[id]
                       ELSE IF id \notin DOMAIN o.byType THEN c.byType[id]
                       ELSE Overlay(c.byType[id], o.byType[id])]
<1>1. c = [policy |-> c.policy, byType |-> c.byType, header |-> c.header, format |-> c.format,
           values |-> c.values, patterns |-> c.patterns, sources |-> c.sources,
           include |-> c.include, exclude |-> c.exclude, noted |-> c.noted]
  BY DEF IsTable
<1>2. Union(c.byType, o.byType, Overlay) = types
  BY DEF Union
<1>3. Overlay(c.format, Accept(o.format)) = Overlay(c.format, o.format)
  <2>1. DOMAIN c.format = DOMAIN Defaults.format
    BY DEF IsTable
  <2>2. DOMAIN o.format = DOMAIN Defaults.format /\ \A k \in DOMAIN o.format : o.format[k] # Invalid
    BY DEF IsOverride, HasInvalid
  <2> QED BY <2>1, <2>2 DEF Overlay, Accept
<1>4. \E noted : z = [c EXCEPT !.policy = Overlay(c.policy, o.policy), !.byType = types,
                               !.format = Overlay(c.format, o.format),
                               !.patterns = Given(o.patterns, c.patterns),
                               !.include = Given(o.include, c.include),
                               !.exclude = Given(o.exclude, c.exclude),
                               !.noted = noted]
  <2>1. z = [c EXCEPT !.policy = Overlay(c.policy, o.policy), !.byType = Union(c.byType, o.byType, Overlay),
                      !.format = Overlay(c.format, Accept(o.format)),
                      !.patterns = Given(o.patterns, c.patterns),
                      !.include = Given(o.include, c.include),
                      !.exclude = Given(o.exclude, c.exclude),
                      !.noted = c.noted \cup (IF HasInvalid(o.format) THEN {"error"} ELSE {})]
    BY DEF ApplyOverrides
  <2> HIDE DEF z, types
  <2> QED BY <1>2, <1>3, <2>1
<1> HIDE DEF z, types
<1>5. z = [policy |-> Overlay(c.policy, o.policy), byType |-> types,
           header |-> c.header, format |-> Overlay(c.format, o.format),
           values |-> c.values, patterns |-> Given(o.patterns, c.patterns),
           sources |-> c.sources, include |-> Given(o.include, c.include),
           exclude |-> Given(o.exclude, c.exclude), noted |-> z.noted]
  BY <1>1, <1>4
<1>6. z.byType = types
  BY <1>5
<1>7. /\ DOMAIN types = DOMAIN c.byType \cup DOMAIN o.byType
      /\ types = [id \in DOMAIN types |-> types[id]]
      /\ \A id \in DOMAIN types :
            types[id] = IF id \notin DOMAIN c.byType THEN o.byType[id]
                        ELSE IF id \notin DOMAIN o.byType THEN c.byType[id]
                        ELSE Overlay(c.byType[id], o.byType[id])
  BY DEF types
<1>8. Applied(c, o, z)
  BY <1>5, <1>6, <1>7 DEF Applied
<1> QED BY <1>8 DEF z

LEMMA ApplyGivesTable ==
    ASSUME NEW c, IsTable(c), NEW o, IsOverride(o)
    PROVE  IsTable(ApplyOverrides(c, o))
<1> DEFINE z == ApplyOverrides(c, o)
<1>1. /\ z = [policy |-> Overlay(c.policy, o.policy), byType |-> z.byType,
              header |-> c.header, format |-> Overlay(c.format, o.format),
              values |-> c.values, patterns |-> Given(o.patterns, c.patterns),
              sources |-> c.sources, include |-> Given(o.include, c.include),
              exclude |-> Given(o.exclude, c.exclude), noted |-> z.noted]
      /\ DOMAIN z.byType = DOMAIN c.byType \cup DOMAIN o.byType
      /\ z.byType = [id \in DOMAIN z.byType |-> z.byType[id]]
      /\ \A id \in DOMAIN z.byType :
            z.byType[id] = IF id \notin DOMAIN c.byType THEN o.byType[id]
                           ELSE IF id \notin DOMAIN o.byType THEN c.byType[id]
                           ELSE Overlay(c.byType[id], o.byType[id])
  <2> Applied(c, o, z)
    BY ApplyFields
  <2> HIDE DEF z
  <2> QED BY DEF Applied
<1> HIDE DEF z
<1>2. z = [policy |-> z.policy, byType |-> z.byType, header |-> z.header, format |-> z.format,
           values |-> z.values, patterns |-> z.patterns, sources |-> z.sources,
           include |-> z.include, exclude |-> z.exclude, noted |-> z.noted]
  BY <1>1
<1>3. z.policy = [f \in Fields |-> z.policy[f]]
  <2>1. DOMAIN c.policy = Fields /\ z.policy = Overlay(c.policy, o.policy)
    BY <1>1 DEF IsTable
  <2> QED BY <2>1 DEF Overlay
<1>4. z.format = [k \in DOMAIN Defaults.format |-> z.format[k]]
  <2>1. DOMAIN c.format = DOMAIN Defaults.format /\ z.format = Overlay(c.format, o.format)
    BY <1>1 DEF IsTable
  <2> QED BY <2>1 DEF Overlay
<1>5. ASSUME NEW id \in DOMAIN z.byType
      PROVE  z.byType[id] = [f \in Fields |-> z.byType[id][f]]
  <2>1. \A i \in DOMAIN c.byType : c.byType[i] = [f \in Fields |-> c.byType[i][f]]
    BY DEF IsTable
  <2>2. \A i \in DOMAIN o.byType : o.byType[i] = [f \in Fields |-> o.byType[i][f]]
    BY DEF IsOverride
  <2>3. CASE id \notin DOMAIN c.byType
    <3>1. id \in DOMAIN o.byType /\ z.byType[id] = o.byType[id]
      BY <1>1, <2>3
    <3> QED BY <2>2, <3>1
  <2>4. CASE id \in DOMAIN c.byType /\ id \notin DOMAIN o.byType
    <3>1. z.byType[id] = c.byType[id]
      BY <1>1, <2>4
    <3> QED BY <2>1, <2>4, <3>1
  <2>5. CASE id \in DOMAIN c.byType /\ id \in DOMAIN o.byType
    <3>1. z.byType[id] = Overlay(c.byType[id], o.byType[id])
      BY <1>1, <2>5
    <3>2. DOMAIN c.byType[id] = Fields
      BY <2>1, <2>5
    <3> QED BY <3>1, <3>2 DEF Overlay
  <2> QED BY <2>3, <2>4, <2>5
<1>6. z.byType = [id \in DOMAIN z.byType |-> [f \in Fields |-> z.byType[id][f]]]
  BY <1>1, <1>5
<1>7. z.values = [v \in DOMAIN z.values |-> z.values[v]]
  <2>1. z.values = c.values
    BY <1>1
  <2> QED BY <2>1 DEF IsTable
<1>8. z.patterns \in Seq({z.patterns[i] : i \in DOMAIN z.patterns})
  <2>1. z.patterns = IF o.patterns.given THEN o.patterns.value ELSE c.patterns
    BY <1>1 DEF Given
  <2>2. c.patterns \in Seq({c.patterns[i] : i \in DOMAIN c.patterns})
    BY DEF IsTable
  <2>3. o.patterns.value \in Seq({o.patterns.value[i] : i \in DOMAIN o.patterns.value})
    BY DEF IsOverride
  <2>4. CASE o.patterns.given
    BY <2>1, <2>3, <2>4
  <2>5. CASE ~o.patterns.given
    BY <2>1, <2>2, <2>5
  <2> QED BY <2>4, <2>5
<1>9. \A id \in z.include \cup z.exclude \cup DOMAIN z.byType : IsId(id)
  <2>1. z.include \in {o.include.value, c.include} /\ z.exclude \in {o.exclude.value, c.exclude}
    BY <1>1 DEF Given
  <2> QED BY <1>1, <2>1 DEF IsTable, IsOverride
<1>10. IsTable(z)
  BY <1>2, <1>3, <1>4, <1>6, <1>7, <1>8, <1>9 DEF IsTable
<1> QED BY <1>10 DEF z

-----------------------------------------------------------------------------
(* What the layers and the overrides of a request say, and the draft that says it. *)

\* The last value told for a format option.
FormatOf(told, x) ==
    LastOf(told, LAMBDA d : d.format[x] # Unset, LAMBDA d : d.format[x], Unset)

\* What freezing leaves alone.
SaysRest(c) ==
    /\ c.header = LastOf(Declared, LAMBDA d : d.header # {}, LAMBDA d : d.header, {})
    /\ \A x \in DOMAIN Defaults.format :
          c.format[x] = FormatOf(Declared \o <<request.overrides>>, x)
    /\ DOMAIN c.values = UNION {DOMAIN Declared[i].values : i \in DOMAIN Declared}
    /\ \A x \in DOMAIN c.values :
          c.values[x] = LastOf(Declared, LAMBDA d : x \in DOMAIN d.values, LAMBDA d : d.values[x], Unset)
    /\ c.patterns = IF request.overrides.patterns.given THEN request.overrides.patterns.value
                    ELSE FlattenSeq([i \in DOMAIN Declared |-> Declared[i].patterns])

\* The last policy, and the last filters, that the layers tell.
OneOver(f) ==
    LastOf(Declared, LAMBDA d : d.policy[f] # Unset, LAMBDA d : d.policy[f], Unset)
RawInclude == LastOf(Declared, LAMBDA d : d.include # {}, LAMBDA d : d.include, {})
RawExclude == LastOf(Declared, LAMBDA d : d.exclude # {}, LAMBDA d : d.exclude, {})

\* A draft says what the layers and the overrides do.
DraftSays(d) ==
    /\ IsTable(d) /\ SaysRest(d)
    /\ \A f \in Fields : d.policy[f] = IF request.overrides.policy[f] # Unset
                                       THEN request.overrides.policy[f] ELSE OneOver(f)
    /\ DOMAIN d.byType = DeclaredEntries
    /\ \A id \in DeclaredEntries : \A f \in Fields : d.byType[id][f] = OwnOver(Declared, id, f)
    /\ d.include = Given(request.overrides.include, RawInclude)
    /\ d.exclude = Given(request.overrides.exclude, RawExclude)

\* One more that is told comes before the others.
LEMMA FormatAdded ==
    ASSUME NEW told, IsDeclared(told), NEW o, NEW x
    PROVE  FormatOf(told \o <<o>>, x) = IF o.format[x] # Unset THEN o.format[x]
                                         ELSE FormatOf(told, x)
<1> DEFINE n == Len(told)
           all == told \o <<o>>
           at == {i \in DOMAIN all : all[i].format[x] # Unset}
           w == [i \in DOMAIN all |-> all[i].format[x]]
<1>1. n \in Nat /\ DOMAIN told = 1 .. n /\ DOMAIN all = 1 .. n + 1
      /\ (\A i \in 1 .. n : all[i] = told[i]) /\ all[n + 1] = o
  <2>1. told \in Seq({told[i] : i \in 1 .. n} \cup {o}) /\ <<o>> \in Seq({told[i] : i \in 1 .. n} \cup {o})
    BY DEF IsDeclared
  <2> QED BY <2>1 DEF IsDeclared
<1> HIDE DEF all, n
<1>2. at \in SUBSET (1 .. n + 1) /\ (n + 1 \in at <=> o.format[x] # Unset) /\ w[n + 1] = o.format[x]
  BY <1>1
<1>3. at \cap (1 .. n) = {i \in DOMAIN told : told[i].format[x] # Unset}
  BY <1>1
<1>4. \A i \in 1 .. n : w[i] = told[i].format[x]
  BY <1>1
<1>5. \A i \in 1 .. n + 1 : w[i] = all[i].format[x]
  BY <1>1
<1>6. at # {} => Max(at) \in 1 .. n + 1
  BY <1>1, <1>2, MaxOfNumbers, n + 1 \in Nat
<1>7. at \cap (1 .. n) # {} => Max(at \cap (1 .. n)) \in 1 .. n
  BY <1>1, MaxOfNumbers
<1> HIDE DEF at, w
<1>8. LastAt(at, w, Unset) = IF n + 1 \in at THEN w[n + 1] ELSE LastAt(at \cap (1 .. n), w, Unset)
  BY <1>1, <1>2, LastAdded
<1>9. FormatOf(all, x) = LastAt(at, w, Unset)
  BY <1>5, <1>6 DEF FormatOf, LastOf, LastAt, at
<1>10. FormatOf(told, x) = LastAt(at \cap (1 .. n), w, Unset)
  BY <1>3, <1>4, <1>7 DEF FormatOf, LastOf, LastAt
<1> QED BY <1>2, <1>8, <1>9, <1>10 DEF all

\* What a first draft starts from is a chain over what was declared.
LEMMA WholeMerges ==
    ASSUME request \in Requests,
           NEW whole, whole = IF request.base = <<>>
                              THEN [MergeLayers(BuildLayers(Files)) EXCEPT !.noted = @ \cup Complaints(Files)]
                              ELSE MergeWith(Parse(Defaults), Parse(request.base[1]))
    PROVE  \E m, x : Chain(Declared, m) /\ whole = [m[Len(Declared)] EXCEPT !.noted = x]
<1>1. CASE request.base = <<>>
  <2>1. PICK m : Chain(Declared, m) /\ MergeLayers(BuildLayers(Files)) = m[Len(Declared)]
    BY <1>1, FilesMerge
  <2> DEFINE x == m[Len(Declared)].noted \cup Complaints(Files)
  <2>2. whole = [m[Len(Declared)] EXCEPT !.noted = x]
    BY <1>1, <2>1
  <2> HIDE DEF x
  <2> WITNESS m, x
  <2> QED BY <2>1, <2>2
<1>2. CASE request.base # <<>>
  <2> DEFINE first == Parse(Defaults)
             second == Parse(request.base[1])
             m == [k \in 1 .. 2 |-> IF k = 1 THEN first ELSE MergeWith(first, second)]
  <2>1. Declared = <<first, second>>
    BY <1>2 DEF Declared
  <2>2. Len(Declared) = 2 /\ Declared[1] = first /\ Declared[2] = second
    BY <2>1
  <2>3. m[1] = first /\ m[2] = MergeWith(first, second)
    OBVIOUS
  <2>4. whole = MergeWith(first, second)
    BY <1>2
  <2> HIDE DEF m, first, second
  <2>5. \A k \in 2 .. 2 : k = 2 /\ k - 1 = 1
    OBVIOUS
  <2>6. Chain(Declared, m)
    BY <2>2, <2>3, <2>5 DEF Chain
  <2>7. IsTable(m[2])
    BY <2>2, <2>6, ChainTables, DeclaredTables DEF IsDeclared
  <2>8. m[2] = [m[2] EXCEPT !.noted = m[2].noted]
    BY <2>7 DEF IsTable
  <2> DEFINE x == m[2].noted
  <2>9. whole = [m[Len(Declared)] EXCEPT !.noted = x]
    BY <2>2, <2>3, <2>4, <2>8
  <2> HIDE DEF x
  <2> QED BY <2>6, <2>9
<1> QED BY <1>1, <1>2

\* Overrides over a chain give a draft that says what was told.
LEMMA DraftTold ==
    ASSUME request \in Requests, NEW m, Chain(Declared, m), NEW x,
           NEW d, d = ApplyOverrides([m[Len(Declared)] EXCEPT !.noted = x], request.overrides)
    PROVE  DraftSays(d)
<1> DEFINE o == request.overrides
           c == m[Len(Declared)]
           b == [c EXCEPT !.noted = x]
<1>1. IsDeclared(Declared)
  BY DeclaredTables
<1>2. IsOverride(o) /\ o.byType = <<>>
  BY RequestsAssumption
<1>3. IsTable(c)
  <2>1. Len(Declared) \in 1 .. Len(Declared)
    BY <1>1 DEF IsDeclared
  <2> QED BY <1>1, <2>1, ChainTables DEF IsDeclared
<1>4. /\ c.header = LastOf(Declared, LAMBDA y : y.header # {}, LAMBDA y : y.header, {})
      /\ c.include = RawInclude /\ c.exclude = RawExclude
  BY <1>1, ChainHeader, ChainInclude, ChainExclude DEF RawInclude, RawExclude
<1>5. \A f \in Fields : c.policy[f] = OneOver(f)
  BY <1>1, ChainPolicy DEF OneOver
<1>6. \A k \in DOMAIN Defaults.format :
         c.format[k] = FormatOf(Declared, k)
  BY <1>1, ChainFormat DEF FormatOf
<1>7. \A id : \A f \in Fields : OwnBy(c, id, f) = OwnOver(Declared, id, f)
  <2> SUFFICES ASSUME NEW id, NEW f \in Fields
               PROVE  OwnBy(c, id, f) = OwnOver(Declared, id, f)
    OBVIOUS
  <2> QED BY <1>1, ChainOwn
<1>8. /\ DOMAIN c.byType = DeclaredEntries
      /\ DOMAIN c.values = UNION {DOMAIN Declared[i].values : i \in DOMAIN Declared}
  BY <1>1, ChainDomains DEF DeclaredEntries
<1>9. \A k : ValueBy(c, k) = ValueOver(Declared, k)
  <2> SUFFICES ASSUME NEW k
               PROVE  ValueBy(c, k) = ValueOver(Declared, k)
    OBVIOUS
  <2> QED BY <1>1, ChainValue
<1>10. c.patterns = FlattenSeq([i \in DOMAIN Declared |-> Declared[i].patterns])
  BY <1>1, ChainPatterns
<1> HIDE DEF c, o
<1>11. /\ IsTable(b) /\ b.policy = c.policy /\ b.byType = c.byType /\ b.header = c.header
       /\ b.format = c.format /\ b.values = c.values /\ b.patterns = c.patterns
       /\ b.include = c.include /\ b.exclude = c.exclude
  <2>1. c = [policy |-> c.policy, byType |-> c.byType, header |-> c.header, format |-> c.format,
            values |-> c.values, patterns |-> c.patterns, sources |-> c.sources,
            include |-> c.include, exclude |-> c.exclude, noted |-> c.noted]
    BY <1>3 DEF IsTable
  <2>2. b = [policy |-> c.policy, byType |-> c.byType, header |-> c.header, format |-> c.format,
            values |-> c.values, patterns |-> c.patterns, sources |-> c.sources,
            include |-> c.include, exclude |-> c.exclude, noted |-> x]
    BY <2>1
  <2> HIDE DEF b
  <2>3. /\ b.policy = c.policy /\ b.byType = c.byType /\ b.header = c.header
        /\ b.format = c.format /\ b.values = c.values /\ b.patterns = c.patterns
        /\ b.include = c.include /\ b.exclude = c.exclude
        /\ b = [policy |-> b.policy, byType |-> b.byType, header |-> b.header, format |-> b.format,
                values |-> b.values, patterns |-> b.patterns, sources |-> b.sources,
                include |-> b.include, exclude |-> b.exclude, noted |-> b.noted]
    BY <2>2
  <2>4. IsTable(b)
    BY <1>3, <2>3 DEF IsTable
  <2> QED BY <2>3, <2>4
<1> HIDE DEF b
<1>12. d = ApplyOverrides(b, o)
  BY DEF b, c, o
<1>13. IsTable(d)
  BY <1>2, <1>11, <1>12, ApplyGivesTable
<1>14. /\ d = [policy |-> Overlay(b.policy, o.policy), byType |-> d.byType,
               header |-> b.header, format |-> Overlay(b.format, o.format),
               values |-> b.values, patterns |-> Given(o.patterns, b.patterns),
               sources |-> b.sources, include |-> Given(o.include, b.include),
               exclude |-> Given(o.exclude, b.exclude), noted |-> d.noted]
       /\ DOMAIN d.byType = DOMAIN b.byType \cup DOMAIN o.byType
       /\ \A id \in DOMAIN d.byType :
             d.byType[id] = IF id \notin DOMAIN b.byType THEN o.byType[id]
                            ELSE IF id \notin DOMAIN o.byType THEN b.byType[id]
                            ELSE Overlay(b.byType[id], o.byType[id])
  <2> Applied(b, o, d)
    BY <1>2, <1>11, <1>12, ApplyFields
  <2> QED BY DEF Applied
<1>15. DOMAIN o.byType = {}
  BY <1>2
<1>16. /\ d.policy = Overlay(c.policy, o.policy) /\ d.header = c.header
       /\ d.format = Overlay(c.format, o.format) /\ d.values = c.values
       /\ d.patterns = Given(o.patterns, c.patterns)
       /\ d.include = Given(o.include, c.include) /\ d.exclude = Given(o.exclude, c.exclude)
  BY <1>11, <1>14
<1>17. DOMAIN d.byType = DOMAIN c.byType /\ \A id \in DOMAIN c.byType : d.byType[id] = c.byType[id]
  BY <1>11, <1>14, <1>15
<1>18. \A f \in Fields : d.policy[f] = IF o.policy[f] # Unset THEN o.policy[f] ELSE OneOver(f)
  <2>1. DOMAIN c.policy = Fields
    BY <1>3 DEF IsTable
  <2> QED BY <1>5, <1>16, <2>1 DEF Overlay
<1>19. \A id \in DeclaredEntries : \A f \in Fields : d.byType[id][f] = OwnOver(Declared, id, f)
  <2> SUFFICES ASSUME NEW id \in DeclaredEntries, NEW f \in Fields
               PROVE  d.byType[id][f] = OwnOver(Declared, id, f)
    OBVIOUS
  <2>1. d.byType[id][f] = OwnBy(c, id, f)
    BY <1>8, <1>17 DEF OwnBy
  <2> QED BY <1>7, <2>1
<1>20. \A k \in DOMAIN Defaults.format :
          d.format[k] = FormatOf(Declared \o <<o>>, k)
  <2> SUFFICES ASSUME NEW k \in DOMAIN Defaults.format
               PROVE  d.format[k] = FormatOf(Declared \o <<o>>, k)
    OBVIOUS
  <2>1. DOMAIN c.format = DOMAIN Defaults.format
    BY <1>3 DEF IsTable
  <2>2. d.format[k] = IF o.format[k] # Unset THEN o.format[k] ELSE c.format[k]
    BY <1>16, <2>1 DEF Overlay
  <2>3. FormatOf(Declared \o <<o>>, k)
        = IF o.format[k] # Unset THEN o.format[k]
          ELSE FormatOf(Declared, k)
    BY <1>1, FormatAdded
  <2>4. c.format[k] = FormatOf(Declared, k)
    BY <1>6
  <2> QED BY <2>2, <2>3, <2>4
<1>21. \A k \in DOMAIN d.values :
          d.values[k] = LastOf(Declared, LAMBDA y : k \in DOMAIN y.values, LAMBDA y : y.values[k], Unset)
  <2> SUFFICES ASSUME NEW k \in DOMAIN c.values
               PROVE  c.values[k] = LastOf(Declared, LAMBDA y : k \in DOMAIN y.values, LAMBDA y : y.values[k], Unset)
    BY <1>16
  <2> DEFINE at == {i \in DOMAIN Declared : k \in DOMAIN Declared[i].values}
  <2>1. c.values[k] = ValueOver(Declared, k)
    BY <1>9 DEF ValueBy
  <2>2. at # {} => Max(at) \in at
    <3>1. Len(Declared) \in Nat /\ at \in SUBSET (1 .. Len(Declared))
      BY <1>1 DEF IsDeclared
    <3> HIDE DEF at
    <3> QED BY <3>1, MaxOfNumbers
  <2>3. at # {} => ValueBy(Declared[Max(at)], k) = Declared[Max(at)].values[k]
    BY <2>2 DEF ValueBy
  <2> QED BY <2>1, <2>3 DEF ValueOver, LastOf
<1>22. SaysRest(d)
  <2>1. d.header = LastOf(Declared, LAMBDA y : y.header # {}, LAMBDA y : y.header, {})
    BY <1>4, <1>16
  <2>2. DOMAIN d.values = UNION {DOMAIN Declared[i].values : i \in DOMAIN Declared}
    BY <1>8, <1>16
  <2>3. d.patterns = IF o.patterns.given THEN o.patterns.value
                     ELSE FlattenSeq([i \in DOMAIN Declared |-> Declared[i].patterns])
    BY <1>10, <1>16 DEF Given
  <2> QED BY <1>20, <1>21, <2>1, <2>2, <2>3 DEF SaysRest, o
<1>23. d.include = Given(o.include, RawInclude) /\ d.exclude = Given(o.exclude, RawExclude)
  BY <1>4, <1>16
<1>24. DOMAIN d.byType = DeclaredEntries
  BY <1>8, <1>17
<1> QED BY <1>13, <1>18, <1>19, <1>22, <1>23, <1>24 DEF DraftSays, o

-----------------------------------------------------------------------------
(* Policies: what each type is told, of all that is told. *)

\* What c says of a field for a type by either spelling, the last that says something,
\* and the last that says something for all types.
OwnSet(c, t, f) == {c.byType[id][f] : id \in DOMAIN c.byType \cap {t, LocalId(t)}} \ {Unset}
TypeOver(told, t, f, otherwise) ==
    LastOf(told, LAMBDA c : OwnSet(c, t, f) # {}, LAMBDA c : CHOOSE v \in OwnSet(c, t, f) : TRUE, otherwise)
PolicyOver(told, f, otherwise) ==
    LastOf(told, LAMBDA c : c.policy[f] # Unset, LAMBDA c : c.policy[f], otherwise)

\* The declared policy, in these terms.
LEMMA DeclaredIsOver ==
    ASSUME NEW t, NEW f
    PROVE  DeclaredPolicy(t, f) = TypeOver(Told, t, f, PolicyOver(Told, f, PolicyDefaults[f]))
BY DEF DeclaredPolicy, TypeOver, PolicyOver, OwnSet

\* What is told: the declared drafts, the overrides, the overlay.
LEMMA ToldParts ==
    ASSUME request \in Requests
    PROVE  LET n == Len(Declared)
           IN  /\ n \in Nat /\ DOMAIN Declared = 1 .. n /\ DOMAIN Told = 1 .. n + 2
               /\ \A i \in 1 .. n : Told[i] = Declared[i]
               /\ Told[n + 1] = request.overrides /\ Told[n + 2] = request.overlay
<1> DEFINE S == {Declared[i] : i \in 1 .. Len(Declared)} \cup {request.overrides, request.overlay}
           two == <<request.overrides, request.overlay>>
<1>1. Len(Declared) \in Nat \ {0} /\ Declared = [i \in 1 .. Len(Declared) |-> Declared[i]]
  BY DeclaredTables DEF IsDeclared
<1>2. Declared \in Seq(S)
  BY <1>1
<1>3. two \in Seq(S) /\ Len(two) = 2 /\ two[1] = request.overrides /\ two[2] = request.overlay
  OBVIOUS
<1>4. Told = Declared \o two
  BY DEF Told
<1> HIDE DEF S, two
<1>5. /\ DOMAIN Told = 1 .. Len(Declared) + 2
      /\ \A i \in 1 .. Len(Declared) : Told[i] = Declared[i]
      /\ \A i \in 1 .. 2 : Told[Len(Declared) + i] = two[i]
  <2> DEFINE a == Declared
             c == Told
  <2>1. a \in Seq(S) /\ c = a \o two
    BY <1>2, <1>4
  <2> HIDE DEF a, c
  <2>2. /\ DOMAIN c = 1 .. Len(a) + Len(two)
        /\ \A i \in 1 .. Len(a) : c[i] = a[i]
        /\ \A i \in 1 .. Len(two) : c[Len(a) + i] = two[i]
    <3>1. two \in Seq(S)
      BY <1>3
    <3> QED BY <2>1, <3>1
  <2> QED BY <2>2, <1>3 DEF a, c
<1> QED BY <1>1, <1>3, <1>5

\* Overrides come before what is declared, and the overlay before both: for all types
\* and, as only the overlay has entries, for one.
LEMMA PolicyAdded ==
    ASSUME request \in Requests, NEW f \in Fields, NEW otherwise
    PROVE  PolicyOver(Told, f, otherwise) =
               IF request.overlay.policy[f] # Unset THEN request.overlay.policy[f]
               ELSE IF request.overrides.policy[f] # Unset THEN request.overrides.policy[f]
               ELSE PolicyOver(Declared, f, otherwise)
<1> DEFINE n == Len(Declared)
           at == {i \in DOMAIN Told : Told[i].policy[f] # Unset}
           w == [i \in DOMAIN Told |-> Told[i].policy[f]]
<1>1. /\ n \in Nat /\ DOMAIN Declared = 1 .. n /\ DOMAIN Told = 1 .. n + 2
      /\ \A i \in 1 .. n : Told[i] = Declared[i]
      /\ Told[n + 1] = request.overrides /\ Told[n + 2] = request.overlay
  BY ToldParts
<1> HIDE DEF n
<1>2. /\ at \in SUBSET (1 .. n + 2)
      /\ n + 1 \in at <=> request.overrides.policy[f] # Unset
      /\ n + 2 \in at <=> request.overlay.policy[f] # Unset
      /\ w[n + 1] = request.overrides.policy[f] /\ w[n + 2] = request.overlay.policy[f]
  BY <1>1
<1>3. at \cap (1 .. n) = {i \in DOMAIN Declared : Declared[i].policy[f] # Unset}
  BY <1>1
<1>4. \A i \in 1 .. n : w[i] = Declared[i].policy[f]
  BY <1>1
<1>5. \A i \in 1 .. n + 2 : w[i] = Told[i].policy[f]
  BY <1>1
<1>6. at # {} => Max(at) \in 1 .. n + 2
  BY <1>1, <1>2, MaxOfNumbers, n + 2 \in Nat
<1>7. at \cap (1 .. n) # {} => Max(at \cap (1 .. n)) \in 1 .. n
  BY <1>1, MaxOfNumbers
<1> HIDE DEF at, w
<1>8. LastAt(at, w, otherwise) = IF n + 2 \in at THEN w[n + 2]
                                 ELSE IF n + 1 \in at THEN w[n + 1]
                                 ELSE LastAt(at \cap (1 .. n), w, otherwise)
  BY <1>1, <1>2, LastAddedTwo
<1>9. PolicyOver(Told, f, otherwise) = LastAt(at, w, otherwise)
  BY <1>5, <1>6 DEF PolicyOver, LastOf, LastAt, at
<1>10. PolicyOver(Declared, f, otherwise) = LastAt(at \cap (1 .. n), w, otherwise)
  BY <1>3, <1>4, <1>7 DEF PolicyOver, LastOf, LastAt
<1> QED BY <1>2, <1>8, <1>9, <1>10

LEMMA TypeAdded ==
    ASSUME request \in Requests, NEW t, NEW f \in Fields, NEW otherwise
    PROVE  TypeOver(Told, t, f, otherwise) =
               IF OwnSet(request.overlay, t, f) # {}
               THEN CHOOSE v \in OwnSet(request.overlay, t, f) : TRUE
               ELSE TypeOver(Declared, t, f, otherwise)
<1> DEFINE n == Len(Declared)
           Choice(c) == CHOOSE v \in OwnSet(c, t, f) : TRUE
           at == {i \in DOMAIN Told : OwnSet(Told[i], t, f) # {}}
           w == [i \in DOMAIN Told |-> Choice(Told[i])]
<1>1. /\ n \in Nat /\ DOMAIN Declared = 1 .. n /\ DOMAIN Told = 1 .. n + 2
      /\ \A i \in 1 .. n : Told[i] = Declared[i]
      /\ Told[n + 1] = request.overrides /\ Told[n + 2] = request.overlay
  BY ToldParts
<1>2. OwnSet(request.overrides, t, f) = {}
  <2>1. request.overrides.byType = <<>>
    BY RequestsAssumption
  <2>2. DOMAIN request.overrides.byType = {}
    BY <2>1
  <2> QED BY <2>2 DEF OwnSet
<1> HIDE DEF n, Choice
<1>3. /\ at \in SUBSET (1 .. n + 2)
      /\ n + 1 \notin at
      /\ n + 2 \in at <=> OwnSet(request.overlay, t, f) # {}
      /\ w[n + 2] = Choice(request.overlay)
  BY <1>1, <1>2
<1>4. at \cap (1 .. n) = {i \in DOMAIN Declared : OwnSet(Declared[i], t, f) # {}}
  BY <1>1
<1>5. \A i \in 1 .. n : w[i] = Choice(Declared[i])
  BY <1>1
<1>6. \A i \in 1 .. n + 2 : w[i] = Choice(Told[i])
  BY <1>1
<1>7. at # {} => Max(at) \in 1 .. n + 2
  BY <1>1, <1>3, MaxOfNumbers, n + 2 \in Nat
<1>8. at \cap (1 .. n) # {} => Max(at \cap (1 .. n)) \in 1 .. n
  BY <1>1, MaxOfNumbers
<1> HIDE DEF at, w
<1>9. LastAt(at, w, otherwise) = IF n + 2 \in at THEN w[n + 2]
                                 ELSE IF n + 1 \in at THEN w[n + 1]
                                 ELSE LastAt(at \cap (1 .. n), w, otherwise)
  BY <1>1, <1>3, LastAddedTwo
<1>10. TypeOver(Told, t, f, otherwise) = IF at = {} THEN otherwise ELSE Choice(Told[Max(at)])
  BY DEF TypeOver, LastOf, at, Choice
<1>11. TypeOver(Declared, t, f, otherwise)
         = IF at \cap (1 .. n) = {} THEN otherwise ELSE Choice(Declared[Max(at \cap (1 .. n))])
  <2> DEFINE there == {i \in DOMAIN Declared : OwnSet(Declared[i], t, f) # {}}
  <2>1. TypeOver(Declared, t, f, otherwise) = IF there = {} THEN otherwise ELSE Choice(Declared[Max(there)])
    BY DEF TypeOver, LastOf, Choice
  <2> QED BY <2>1, <1>4
<1>12. TypeOver(Told, t, f, otherwise) = LastAt(at, w, otherwise)
  BY <1>6, <1>7, <1>10 DEF LastAt
<1>13. TypeOver(Declared, t, f, otherwise) = LastAt(at \cap (1 .. n), w, otherwise)
  BY <1>5, <1>8, <1>11 DEF LastAt
<1>14. TypeOver(Told, t, f, otherwise) = IF OwnSet(request.overlay, t, f) # {} THEN Choice(request.overlay)
                                         ELSE TypeOver(Declared, t, f, otherwise)
  BY <1>3, <1>9, <1>12, <1>13
<1> QED BY <1>14 DEF Choice

\* Where nothing is declared, the fallback stands.
LEMMA PolicyFallback ==
    ASSUME NEW f \in Fields, NEW otherwise, IsDeclared(Declared)
    PROVE  PolicyOver(Declared, f, otherwise) = IF OneOver(f) = Unset THEN otherwise ELSE OneOver(f)
<1> DEFINE at == {i \in DOMAIN Declared : Declared[i].policy[f] # Unset}
<1>1. at # {} => Max(at) \in at
  <2>1. Len(Declared) \in Nat /\ at \in SUBSET (1 .. Len(Declared))
    BY DEF IsDeclared
  <2> HIDE DEF at
  <2> QED BY <2>1, MaxOfNumbers
<1>2. at # {} => Declared[Max(at)].policy[f] # Unset
  BY <1>1
<1> QED BY <1>2 DEF PolicyOver, OneOver, LastOf

\* A type that is spelled in one way only.
LEMMA OneSpelling ==
    ASSUME IsDeclared(Declared), NEW t, NEW f \in Fields, NEW otherwise,
           NEW id, NEW other, {id, other} = {t, LocalId(t)}, other \notin DeclaredEntries
    PROVE  TypeOver(Declared, t, f, otherwise) = IF OwnOver(Declared, id, f) = Unset THEN otherwise
                                                 ELSE OwnOver(Declared, id, f)
<1> DEFINE at == {i \in DOMAIN Declared : OwnSet(Declared[i], t, f) # {}}
           Choice(c) == CHOOSE v \in OwnSet(c, t, f) : TRUE
<1>1. \A i \in DOMAIN Declared : OwnSet(Declared[i], t, f) = {OwnBy(Declared[i], id, f)} \ {Unset}
  <2> SUFFICES ASSUME NEW i \in DOMAIN Declared
               PROVE  OwnSet(Declared[i], t, f) = {OwnBy(Declared[i], id, f)} \ {Unset}
    OBVIOUS
  <2> DEFINE c == Declared[i]
  <2>1. other \notin DOMAIN c.byType
    BY DEF DeclaredEntries
  <2> HIDE DEF c
  <2>2. DOMAIN c.byType \cap {t, LocalId(t)} = DOMAIN c.byType \cap {id}
    BY <2>1
  <2>3. OwnSet(c, t, f) = {c.byType[x][f] : x \in DOMAIN c.byType \cap {id}} \ {Unset}
    BY <2>2 DEF OwnSet
  <2>4. OwnSet(c, t, f) = {OwnBy(c, id, f)} \ {Unset}
    BY <2>3 DEF OwnBy
  <2> QED BY <2>4 DEF c
<1>2. at = {i \in DOMAIN Declared : OwnBy(Declared[i], id, f) # Unset}
  BY <1>1
<1>3. at # {} => Max(at) \in at
  <2>1. Len(Declared) \in Nat /\ at \in SUBSET (1 .. Len(Declared))
    BY DEF IsDeclared
  <2> HIDE DEF at
  <2> QED BY <2>1, MaxOfNumbers
<1>4. \A i \in at : Choice(Declared[i]) = OwnBy(Declared[i], id, f) /\ OwnBy(Declared[i], id, f) # Unset
  <2> SUFFICES ASSUME NEW i \in at
               PROVE  Choice(Declared[i]) = OwnBy(Declared[i], id, f) /\ OwnBy(Declared[i], id, f) # Unset
    OBVIOUS
  <2>1. OwnSet(Declared[i], t, f) = {OwnBy(Declared[i], id, f)} /\ OwnBy(Declared[i], id, f) # Unset
    BY <1>1, <1>2
  <2>2. Choice(Declared[i]) \in OwnSet(Declared[i], t, f)
    BY <2>1
  <2> QED BY <2>1, <2>2
<1> HIDE DEF Choice
<1>5. TypeOver(Declared, t, f, otherwise) = IF at = {} THEN otherwise ELSE Choice(Declared[Max(at)])
  BY DEF TypeOver, LastOf, Choice
<1>6. OwnOver(Declared, id, f) = IF at = {} THEN Unset ELSE OwnBy(Declared[Max(at)], id, f)
  BY <1>2 DEF OwnOver, LastOf
<1> HIDE DEF at
<1> QED BY <1>3, <1>4, <1>5, <1>6

-----------------------------------------------------------------------------
(* Freezing a draft, and the overlays of an API run. *)

\* The filters of the run.
RunInclude == NamedBy(Given(request.overrides.include, RawInclude))
RunExclude == NamedBy(Given(request.overrides.exclude, RawExclude))

\* A frozen configuration says what the layers and the overrides do.
FrozenSays(c) ==
    /\ IsFrozen(c) /\ SaysRest(c)
    /\ \A f \in Fields : c.policy[f] = IF request.overrides.policy[f] # Unset
                                       THEN request.overrides.policy[f]
                                       ELSE PolicyOver(Declared, f, PolicyDefaults[f])
    /\ DOMAIN c.byType = {t \in FreshTypes : {t, LocalId(t)} \cap DeclaredEntries # {}}
    /\ \A t \in DOMAIN c.byType : \A f \in Fields :
          \/ {t, LocalId(t)} \subseteq DeclaredEntries
          \/ c.byType[t][f] = TypeOver(Declared, t, f, c.policy[f])
    /\ c.include = RunInclude /\ c.exclude = RunExclude

\* A configuration of the run says what the layers, the overrides and the overlay do.
RunSays(c) ==
    /\ IsFrozen(c) /\ SaysRest(c)
    /\ \A t \in FreshTypes : \A f \in Fields :
          Unordered(t) \/ EffectivePolicy(c, t)[f] = DeclaredPolicy(t, f)
    /\ c.include = RunInclude /\ c.exclude = RunExclude

\* A draft that says what was told, frozen in whichever order spellings meet, still does.
LEMMA FreezeSays ==
    ASSUME RegistryTypeOK, ViewsAreCurrent, request \in Requests,
           NEW d, DraftSays(d), NEW ll
    PROVE  FrozenSays(Freeze(d, ll))
<1> DEFINE z == Freeze(d, ll)
<1>1. IsDeclared(Declared)
  BY DeclaredTables
<1>2. IsTable(d)
  BY DEF DraftSays
<1>3. Froze(d, ll, z)
  BY <1>2, FreezeFields
<1>4. IsFrozen(z)
  BY <1>2, FreezeGivesFrozen
<1> HIDE DEF z
<1>5. /\ z.header = d.header /\ z.format = d.format /\ z.values = d.values
      /\ z.patterns = d.patterns /\ z.include = NamedBy(d.include) /\ z.exclude = NamedBy(d.exclude)
  BY <1>3 DEF Froze
<1>6. SaysRest(z)
  BY <1>5 DEF DraftSays, SaysRest
<1>7. z.include = RunInclude /\ z.exclude = RunExclude
  BY <1>5 DEF DraftSays, RunInclude, RunExclude
<1>8. \A f \in Fields : z.policy[f] = IF request.overrides.policy[f] # Unset
                                      THEN request.overrides.policy[f]
                                      ELSE PolicyOver(Declared, f, PolicyDefaults[f])
  <2> SUFFICES ASSUME NEW f \in Fields
               PROVE  z.policy[f] = IF request.overrides.policy[f] # Unset
                                    THEN request.overrides.policy[f]
                                    ELSE PolicyOver(Declared, f, PolicyDefaults[f])
    OBVIOUS
  <2>1. z.policy[f] = IF d.policy[f] = Unset THEN PolicyDefaults[f] ELSE d.policy[f]
    BY <1>3, DefaultsAssumption DEF Froze, Overlay
  <2>2. d.policy[f] = IF request.overrides.policy[f] # Unset
                      THEN request.overrides.policy[f] ELSE OneOver(f)
    BY DEF DraftSays
  <2>3. PolicyOver(Declared, f, PolicyDefaults[f])
          = IF OneOver(f) = Unset THEN PolicyDefaults[f] ELSE OneOver(f)
    BY <1>1, PolicyFallback
  <2> QED BY <2>1, <2>2, <2>3
<1>9. DOMAIN d.byType = DeclaredEntries
  BY DEF DraftSays
<1>10. DOMAIN z.byType = {t \in FreshTypes : {t, LocalId(t)} \cap DeclaredEntries # {}}
  <2>1. DOMAIN z.byType = NamedBy(DeclaredEntries)
    BY <1>3, <1>9 DEF Froze
  <2>2. \A id \in DeclaredEntries : IsId(id)
    BY <1>2, <1>9 DEF IsTable
  <2>3. NamedBy(DeclaredEntries) = {t \in FreshTypes : t \in DeclaredEntries \/ LocalId(t) \in DeclaredEntries}
    BY <2>2, NamedFresh
  <2> QED BY <2>1, <2>3
<1>11. ASSUME NEW t \in DOMAIN z.byType, NEW f \in Fields,
              ~({t, LocalId(t)} \subseteq DeclaredEntries)
       PROVE  z.byType[t][f] = TypeOver(Declared, t, f, z.policy[f])
  <2>1. PICK id, other : {id, other} = {t, LocalId(t)} /\ id \in DeclaredEntries /\ other \notin DeclaredEntries
    <3>1. t \in DeclaredEntries \/ LocalId(t) \in DeclaredEntries
      BY <1>10
    <3>2. CASE t \in DeclaredEntries
      BY <1>11, <3>2
    <3>3. CASE LocalId(t) \in DeclaredEntries
      BY <1>11, <3>3
    <3> QED BY <3>1, <3>2, <3>3
  <2>2. Entry(d.byType, t, ll) = d.byType[id]
    <3> DEFINE has == DOMAIN d.byType \cap {t, LocalId(t)}
    <3>1. has = {id} /\ has # {t, LocalId(t)}
      BY <1>9, <2>1
    <3>2. (CHOOSE x \in has : TRUE) = id
      BY <3>1
    <3> QED BY <3>1, <3>2 DEF Entry
  <2>3. z.byType[t] = Overlay(z.policy, d.byType[id])
    BY <1>3, <2>2 DEF Froze
  <2>4. DOMAIN z.policy = Fields
    BY <1>4 DEF IsFrozen, IsTable
  <2>5. z.byType[t][f] = IF d.byType[id][f] = Unset THEN z.policy[f] ELSE d.byType[id][f]
    BY <2>3, <2>4 DEF Overlay
  <2>6. d.byType[id][f] = OwnOver(Declared, id, f)
    BY <2>1 DEF DraftSays
  <2>7. TypeOver(Declared, t, f, z.policy[f]) = IF OwnOver(Declared, id, f) = Unset THEN z.policy[f]
                                                ELSE OwnOver(Declared, id, f)
    BY <1>1, <2>1, OneSpelling
  <2> QED BY <2>5, <2>6, <2>7
<1>12. FrozenSays(z)
  BY <1>4, <1>6, <1>7, <1>8, <1>10, <1>11 DEF FrozenSays
<1> QED BY <1>12 DEF z

\* A type without entry is told what all types are.
LEMMA NoSpelling ==
    ASSUME NEW t, NEW f, NEW otherwise, {t, LocalId(t)} \cap DeclaredEntries = {}
    PROVE  TypeOver(Declared, t, f, otherwise) = otherwise
<1>1. ASSUME NEW i \in DOMAIN Declared
      PROVE  OwnSet(Declared[i], t, f) = {}
  <2>1. DOMAIN Declared[i].byType \subseteq DeclaredEntries
    BY DEF DeclaredEntries
  <2> QED BY <2>1 DEF OwnSet
<1> QED BY <1>1 DEF TypeOver, LastOf

(* Without an overlay the frozen draft is the configuration of the run. *)
LEMMA NoOverlaySays ==
    ASSUME request \in Requests, request.overlay = NoOverrides, NEW c, FrozenSays(c)
    PROVE  RunSays(c)
<1>1. request.overlay.policy = AnyPolicy /\ request.overlay.byType = <<>>
  BY DEF NoOverrides
<1>2. ASSUME NEW t \in FreshTypes, NEW f \in Fields, ~Unordered(t)
      PROVE  EffectivePolicy(c, t)[f] = DeclaredPolicy(t, f)
  <2>1. c.policy[f] = PolicyOver(Told, f, PolicyDefaults[f])
    <3>1. request.overlay.policy[f] = Unset
      BY <1>1 DEF AnyPolicy
    <3> QED BY <3>1, PolicyAdded DEF FrozenSays
  <2>2. OwnSet(request.overlay, t, f) = {}
    <3>1. DOMAIN request.overlay.byType = {}
      BY <1>1
    <3> QED BY <3>1 DEF OwnSet
  <2>3. DeclaredPolicy(t, f) = TypeOver(Declared, t, f, c.policy[f])
    BY <2>1, <2>2, DeclaredIsOver, TypeAdded
  <2>4. CASE t \in DOMAIN c.byType
    <3>1. ~({t, LocalId(t)} \subseteq DeclaredEntries)
      BY <1>2 DEF Unordered
    <3> QED BY <2>3, <2>4, <3>1 DEF FrozenSays, EffectivePolicy
  <2>5. CASE t \notin DOMAIN c.byType
    <3>1. {t, LocalId(t)} \cap DeclaredEntries = {}
      BY <2>5 DEF FrozenSays
    <3> QED BY <2>3, <2>5, <3>1, NoSpelling DEF EffectivePolicy
  <2> QED BY <2>4, <2>5
<1> QED BY <1>2 DEF FrozenSays, RunSays

\* Of one spelling, what is told of a field is one value.
LEMMA OneEntry ==
    ASSUME NEW c, NEW t, NEW f, NEW id, NEW other,
           {id, other} = {t, LocalId(t)}, other \notin DOMAIN c.byType
    PROVE  /\ OwnSet(c, t, f) # {} <=> OwnBy(c, id, f) # Unset
           /\ OwnSet(c, t, f) # {} => (CHOOSE v \in OwnSet(c, t, f) : TRUE) = OwnBy(c, id, f)
<1>1. DOMAIN c.byType \cap {t, LocalId(t)} = DOMAIN c.byType \cap {id}
  OBVIOUS
<1>2. OwnSet(c, t, f) = {c.byType[x][f] : x \in DOMAIN c.byType \cap {id}} \ {Unset}
  BY <1>1 DEF OwnSet
<1>3. OwnSet(c, t, f) = {OwnBy(c, id, f)} \ {Unset}
  BY <1>2 DEF OwnBy
<1> QED BY <1>3

\* An overlay over the frozen configuration, frozen again, says what was told: to types
\* with an entry what the overlay has for them, to the others its general policy.
LEMMA OverlaySays ==
    ASSUME RegistryTypeOK, ViewsAreCurrent, request \in Requests,
           NEW c, FrozenSays(c), NEW ll, DOMAIN c.byType \subseteq ll
    PROVE  RunSays(Freeze(ApplyOverrides(c, request.overlay), ll))
<1> DEFINE o == request.overlay
           b == ApplyOverrides(c, o)
           e == Freeze(b, ll)
<1>1. IsTable(c) /\ IsFrozen(c) /\ SaysRest(c)
  BY DEF FrozenSays, IsFrozen
<1>2. IsOverride(o) /\ o = [NoOverrides EXCEPT !.policy = o.policy, !.byType = o.byType]
  BY RequestsAssumption
<1>3. Applied(c, o, b) /\ IsTable(b)
  BY <1>1, <1>2, ApplyFields, ApplyGivesTable
<1>4. Froze(b, ll, e) /\ IsFrozen(e)
  BY <1>3, FreezeFields, FreezeGivesFrozen
<1> HIDE DEF b, e
<1>5. /\ o.format = [k \in DOMAIN Defaults.format |-> Unset] /\ ~o.patterns.given
      /\ ~o.include.given /\ ~o.exclude.given
  <2> DEFINE none == NoOverrides
  <2>1. none.format = [k \in DOMAIN Defaults.format |-> Unset] /\ ~none.patterns.given
        /\ ~none.include.given /\ ~none.exclude.given
    BY DEF NoOverrides, NoOption
  <2> HIDE DEF o
  <2>2. PICK p, q : o = [none EXCEPT !.policy = p, !.byType = q]
    BY <1>2
  <2> HIDE DEF none
  <2>3. /\ o.format = none.format /\ o.patterns = none.patterns
        /\ o.include = none.include /\ o.exclude = none.exclude
    BY <2>2
  <2> QED BY <2>1, <2>3
<1> HIDE DEF o
<1>6. /\ e.header = c.header /\ e.format = Overlay(c.format, o.format) /\ e.values = c.values
      /\ e.patterns = c.patterns /\ e.include = NamedBy(c.include) /\ e.exclude = NamedBy(c.exclude)
  <2>1. /\ b.header = c.header /\ b.format = Overlay(c.format, o.format) /\ b.values = c.values
        /\ b.patterns = Given(o.patterns, c.patterns) /\ b.include = Given(o.include, c.include)
        /\ b.exclude = Given(o.exclude, c.exclude)
    BY <1>3 DEF Applied
  <2>2. /\ e.header = b.header /\ e.format = b.format /\ e.values = b.values
        /\ e.patterns = b.patterns /\ e.include = NamedBy(b.include) /\ e.exclude = NamedBy(b.exclude)
    BY <1>4 DEF Froze
  <2> QED BY <1>5, <2>1, <2>2 DEF Given
<1>7. e.include = RunInclude /\ e.exclude = RunExclude
  <2>1. c.include \in SUBSET FreshTypes /\ c.exclude \in SUBSET FreshTypes
    BY <1>1 DEF IsFrozen
  <2>2. NamedBy(c.include) = c.include /\ NamedBy(c.exclude) = c.exclude
    BY <2>1, NamedAgain
  <2> QED BY <1>6, <2>2 DEF FrozenSays
<1>8. SaysRest(e)
  <2>1. c.format = [k \in DOMAIN Defaults.format |-> c.format[k]]
    BY <1>1 DEF IsTable
  <2>2. e.format = c.format
    BY <1>5, <1>6, <2>1 DEF Overlay
  <2> QED BY <1>1, <1>6, <2>2 DEF SaysRest
<1>9. \A f \in Fields : e.policy[f] = IF o.policy[f] = Unset THEN c.policy[f] ELSE o.policy[f]
  <2> SUFFICES ASSUME NEW f \in Fields
               PROVE  e.policy[f] = IF o.policy[f] = Unset THEN c.policy[f] ELSE o.policy[f]
    OBVIOUS
  <2>1. b.policy = Overlay(c.policy, o.policy)
    BY <1>3 DEF Applied
  <2>2. e.policy = Overlay(PolicyDefaults, b.policy)
    BY <1>4 DEF Froze
  <2>3. DOMAIN c.policy = Fields /\ DOMAIN PolicyDefaults = Fields
    BY <1>1, DefaultsAssumption DEF IsTable
  <2>4. b.policy[f] = IF o.policy[f] = Unset THEN c.policy[f] ELSE o.policy[f]
    BY <2>1, <2>3 DEF Overlay
  <2>5. e.policy[f] = IF b.policy[f] = Unset THEN PolicyDefaults[f] ELSE b.policy[f]
    BY <2>2, <2>3 DEF Overlay
  <2>6. c.policy[f] # Unset
    BY <1>1 DEF IsFrozen
  <2> QED BY <2>4, <2>5, <2>6
<1>10. \A f \in Fields : e.policy[f] = PolicyOver(Told, f, PolicyDefaults[f])
  <2> SUFFICES ASSUME NEW f \in Fields
               PROVE  e.policy[f] = PolicyOver(Told, f, PolicyDefaults[f])
    OBVIOUS
  <2>1. c.policy[f] = IF request.overrides.policy[f] # Unset
                      THEN request.overrides.policy[f]
                      ELSE PolicyOver(Declared, f, PolicyDefaults[f])
    BY DEF FrozenSays
  <2> QED BY <1>9, <2>1, PolicyAdded DEF o
<1>11. DOMAIN e.byType = {t \in FreshTypes : t \in DOMAIN b.byType \/ LocalId(t) \in DOMAIN b.byType}
  <2>1. \A id \in DOMAIN b.byType : IsId(id)
    BY <1>3 DEF IsTable
  <2>2. DOMAIN e.byType = NamedBy(DOMAIN b.byType)
    BY <1>4 DEF Froze
  <2> QED BY <2>1, <2>2, NamedFresh
<1>12. ASSUME NEW t \in FreshTypes, NEW f \in Fields, ~Unordered(t)
       PROVE  EffectivePolicy(e, t)[f] = DeclaredPolicy(t, f)
  <2> DEFINE l == LocalId(t)
  <2>1. /\ DOMAIN b.byType = DOMAIN c.byType \cup DOMAIN o.byType
        /\ \A id \in DOMAIN b.byType :
              b.byType[id] = IF id \notin DOMAIN c.byType THEN o.byType[id]
                             ELSE IF id \notin DOMAIN o.byType THEN c.byType[id]
                             ELSE Overlay(c.byType[id], o.byType[id])
    BY <1>3 DEF Applied
  <2>2. l # t /\ l \notin DOMAIN c.byType
    BY <1>1, TypesAreIds DEF IsFrozen
  <2>3. ~({t, l} \subseteq DeclaredEntries) /\ ~({t, l} \subseteq DOMAIN o.byType)
        /\ ({t, l} \cap DeclaredEntries # {} => o.policy = AnyPolicy)
    BY <1>12 DEF Unordered, o
  <2> HIDE DEF l
  <2>4. PICK id, other : {id, other} = {t, l} /\ other \notin DOMAIN o.byType
    BY <2>3
  <2>5. id # other
    BY <2>2, <2>4
  <2>6. /\ OwnSet(o, t, f) # {} <=> OwnBy(o, id, f) # Unset
        /\ OwnSet(o, t, f) # {} => (CHOOSE v \in OwnSet(o, t, f) : TRUE) = OwnBy(o, id, f)
    BY <2>4, OneEntry DEF l
  <2>7. DeclaredPolicy(t, f) = IF OwnBy(o, id, f) # Unset THEN OwnBy(o, id, f)
                               ELSE TypeOver(Declared, t, f, e.policy[f])
    BY <1>10, <2>6, DeclaredIsOver, TypeAdded DEF o
  <2>8. \A x \in DOMAIN e.byType : e.byType[x] = Overlay(e.policy, Entry(b.byType, x, ll))
    BY <1>4 DEF Froze
  <2>9. DOMAIN e.policy = Fields
    BY <1>4 DEF IsFrozen, IsTable
  <2>10. CASE t \in DOMAIN c.byType
    <3>1. {t, l} \cap DeclaredEntries # {}
      BY <2>10 DEF FrozenSays, l
    <3>2. e.policy[f] = c.policy[f]
      BY <1>9, <2>3, <3>1 DEF AnyPolicy
    <3>3. c.byType[t][f] = TypeOver(Declared, t, f, e.policy[f])
      BY <2>3, <2>10, <3>2 DEF FrozenSays, l
    <3>4. t \in ll /\ t \in DOMAIN b.byType /\ t \in DOMAIN e.byType
      BY <1>11, <2>1, <2>10
    <3>5. DOMAIN c.byType[t] = Fields /\ c.byType[t][f] # Unset
      BY <1>1, <2>10 DEF IsFrozen, IsTable
    <3>6. Entry(b.byType, t, ll)[f] = IF OwnBy(o, id, f) # Unset THEN OwnBy(o, id, f) ELSE c.byType[t][f]
      <4>1. CASE l \in DOMAIN o.byType
        <5>1. id = l /\ t \notin DOMAIN o.byType
          BY <2>4, <2>3, <4>1
        <5>2. b.byType[t] = c.byType[t] /\ l \in DOMAIN b.byType /\ b.byType[l] = o.byType[l]
          BY <2>1, <2>2, <2>10, <4>1, <5>1
        <5>3. DOMAIN b.byType \cap {t, LocalId(t)} = {t, LocalId(t)}
          BY <3>4, <5>2 DEF l
        <5>4. Entry(b.byType, t, ll) = Overlay(b.byType[t], b.byType[l])
          BY <3>4, <5>3 DEF Entry, l
        <5> QED BY <3>5, <4>1, <5>1, <5>2, <5>4 DEF Overlay, OwnBy
      <4>2. CASE l \notin DOMAIN o.byType
        <5>1. l \notin DOMAIN b.byType
          BY <2>1, <2>2, <4>2
        <5> DEFINE has == DOMAIN b.byType \cap {t, LocalId(t)}
        <5>2. has = {t} /\ has # {t, LocalId(t)}
          BY <2>2, <3>4, <5>1 DEF l
        <5>3. (CHOOSE x \in has : TRUE) = t
          BY <5>2
        <5>4. Entry(b.byType, t, ll) = b.byType[t]
          BY <5>2, <5>3 DEF Entry
        <5>5. CASE t \in DOMAIN o.byType
          <6>1. id = t
            BY <2>4, <5>5
          <6>2. b.byType[t] = Overlay(c.byType[t], o.byType[t])
            BY <2>1, <2>10, <3>4, <5>5
          <6> QED BY <3>5, <5>4, <5>5, <6>1, <6>2 DEF Overlay, OwnBy
        <5>6. CASE t \notin DOMAIN o.byType
          <6>1. id \notin DOMAIN o.byType
            BY <2>4, <4>2, <5>6
          <6>2. b.byType[t] = c.byType[t]
            BY <2>1, <2>10, <3>4, <5>6
          <6> QED BY <5>4, <6>1, <6>2 DEF OwnBy
        <5> QED BY <5>5, <5>6
      <4> QED BY <4>1, <4>2
    <3>7. e.byType[t][f] = IF Entry(b.byType, t, ll)[f] = Unset THEN e.policy[f]
                           ELSE Entry(b.byType, t, ll)[f]
      BY <2>8, <2>9, <3>4 DEF Overlay
    <3> QED BY <2>7, <3>3, <3>4, <3>5, <3>6, <3>7 DEF EffectivePolicy
  <2>11. CASE t \notin DOMAIN c.byType
    <3>1. TypeOver(Declared, t, f, e.policy[f]) = e.policy[f]
      <4>1. {t, LocalId(t)} \cap DeclaredEntries = {}
        BY <2>11 DEF FrozenSays
      <4> QED BY <4>1, NoSpelling
    <3>2. CASE id \in DOMAIN o.byType
      <4>1. id \in DOMAIN b.byType /\ b.byType[id] = o.byType[id] /\ other \notin DOMAIN b.byType
        BY <2>1, <2>2, <2>4, <2>11, <3>2
      <4> DEFINE has == DOMAIN b.byType \cap {t, LocalId(t)}
      <4>2. has = {id} /\ has # {t, LocalId(t)}
        BY <2>4, <2>5, <4>1 DEF l
      <4>3. (CHOOSE x \in has : TRUE) = id
        BY <4>2
      <4>4. Entry(b.byType, t, ll) = o.byType[id]
        BY <4>1, <4>2, <4>3 DEF Entry
      <4>5. t \in DOMAIN e.byType
        BY <1>11, <2>4, <4>1 DEF l
      <4>6. e.byType[t][f] = IF o.byType[id][f] = Unset THEN e.policy[f] ELSE o.byType[id][f]
        <5>1. e.byType[t] = Overlay(e.policy, o.byType[id])
          BY <2>8, <4>4, <4>5
        <5> QED BY <2>9, <5>1 DEF Overlay
      <4> QED BY <2>7, <3>1, <3>2, <4>5, <4>6 DEF EffectivePolicy, OwnBy
    <3>3. CASE id \notin DOMAIN o.byType
      <4>1. t \notin DOMAIN b.byType /\ l \notin DOMAIN b.byType
        BY <2>1, <2>2, <2>4, <2>11, <3>3
      <4>2. t \notin DOMAIN e.byType
        BY <1>11, <4>1 DEF l
      <4> QED BY <2>7, <3>1, <3>3, <4>2 DEF EffectivePolicy, OwnBy
    <3> QED BY <3>2, <3>3
  <2> QED BY <2>10, <2>11
<1>13. RunSays(e)
  BY <1>4, <1>7, <1>8, <1>12 DEF RunSays
<1> QED BY <1>13 DEF e, b, o

-----------------------------------------------------------------------------
(* Running again with a frozen configuration finds the same. *)

\* No overrides are overrides, and change nothing.
LEMMA NothingOverrides ==
    /\ IsOverride(NoOverrides)
    /\ NoOverrides.policy = AnyPolicy /\ NoOverrides.byType = <<>>
    /\ NoOverrides.format = [k \in DOMAIN Defaults.format |-> Unset]
    /\ ~NoOverrides.patterns.given /\ ~NoOverrides.include.given /\ ~NoOverrides.exclude.given
<1> DEFINE none == NoOverrides
<1>1. /\ none.policy = AnyPolicy /\ none.byType = <<>>
      /\ none.format = [k \in DOMAIN Defaults.format |-> Unset]
      /\ none.patterns = [given |-> FALSE, value |-> <<>>]
      /\ none.include = [given |-> FALSE, value |-> {}] /\ none.exclude = [given |-> FALSE, value |-> {}]
  BY DEF NoOverrides, NoOption
<1> HIDE DEF none
<1>2. ~HasInvalid(none.format)
  BY <1>1 DEF HasInvalid, Unset, Invalid
<1>3. none.byType = [id \in DOMAIN none.byType |-> [f \in Fields |-> none.byType[id][f]]]
  <2>1. DOMAIN none.byType = {}
    BY <1>1
  <2>2. \A g : DOMAIN g = {} => [id \in DOMAIN g |-> [f \in Fields |-> g[id][f]]] = <<>>
    OBVIOUS
  <2> QED BY <1>1, <2>1, <2>2
<1>4. none.patterns.value \in Seq({none.patterns.value[i] : i \in DOMAIN none.patterns.value})
  BY <1>1
<1>5. \A id \in none.include.value \cup none.exclude.value \cup DOMAIN none.byType : IsId(id)
  BY <1>1
<1>6. none.policy = [f \in Fields |-> none.policy[f]]
  BY <1>1 DEF AnyPolicy
<1>7. none.format = [k \in DOMAIN Defaults.format |-> none.format[k]]
  BY <1>1
<1>8. IsOverride(none)
  BY <1>2, <1>3, <1>4, <1>5, <1>6, <1>7 DEF IsOverride
<1> QED BY <1>1, <1>8 DEF none

\* Where the layers end with nothing, the built-in one started with nothing.
LEMMA LastNothing ==
    ASSUME IsDeclared(Declared)
    PROVE  /\ LastOf(Declared, LAMBDA d : d.header # {}, LAMBDA d : d.header, {}) = {}
                => Parse(Defaults).header = {}
           /\ \A x : FormatOf(Declared, x) = Unset => Parse(Defaults).format[x] = Unset
<1>0. Declared[1] = Parse(Defaults) /\ 1 \in DOMAIN Declared /\ Len(Declared) \in Nat
      /\ DOMAIN Declared = 1 .. Len(Declared)
  BY DEF IsDeclared
<1>1. ASSUME Parse(Defaults).header # {}
      PROVE  LastOf(Declared, LAMBDA d : d.header # {}, LAMBDA d : d.header, {}) # {}
  <2> DEFINE at == {i \in DOMAIN Declared : Declared[i].header # {}}
  <2>1. at # {} /\ at \in SUBSET (1 .. Len(Declared))
    BY <1>0, <1>1
  <2>2. Max(at) \in at
    <3> HIDE DEF at
    <3> QED BY <1>0, <2>1, MaxOfNumbers
  <2> QED BY <2>1, <2>2 DEF LastOf
<1>2. ASSUME NEW x, Parse(Defaults).format[x] # Unset
      PROVE  FormatOf(Declared, x) # Unset
  <2> DEFINE at == {i \in DOMAIN Declared : Declared[i].format[x] # Unset}
  <2>1. at # {} /\ at \in SUBSET (1 .. Len(Declared))
    BY <1>0, <1>2
  <2>2. Max(at) \in at
    <3> HIDE DEF at
    <3> QED BY <1>0, <2>1, MaxOfNumbers
  <2> QED BY <2>1, <2>2 DEF LastOf, FormatOf
<1> QED BY <1>1, <1>2

\* z says of everything what c does.
SaysTheSame(c, z) ==
    /\ z.policy = c.policy /\ z.byType = c.byType /\ z.header = c.header /\ z.format = c.format
    /\ z.values = c.values /\ z.patterns = c.patterns
    /\ z.include = c.include /\ z.exclude = c.exclude

\* A frozen configuration merged into the built-in draft is as it was.
LEMMA MergedIntoDefaults ==
    ASSUME request \in Requests, NEW c, IsFrozen(c), SaysRest(c)
    PROVE  IsTable(MergeWith(Parse(Defaults), c)) /\ SaysTheSame(c, MergeWith(Parse(Defaults), c))
<1> DEFINE d == Parse(Defaults)
           w == MergeWith(d, c)
<1>1. IsDeclared(Declared)
  BY DeclaredTables
<1>2. IsTable(d) /\ IsTable(c) /\ d.byType = <<>> /\ d.patterns = <<>> /\ d.include = {} /\ d.exclude = {}
  BY DefaultsParsed DEF IsFrozen
<1>3. 1 \in DOMAIN Declared /\ Declared[1] = d
  BY <1>1 DEF IsDeclared
<1>4. /\ c.header = {} => d.header = {}
      /\ \A x \in DOMAIN Defaults.format : c.format[x] = Unset => d.format[x] = Unset
  <2>1. c.header = LastOf(Declared, LAMBDA y : y.header # {}, LAMBDA y : y.header, {})
    BY DEF SaysRest
  <2>2. c.header = {} => d.header = {}
    BY <1>1, <2>1, LastNothing
  <2>3. ASSUME NEW x \in DOMAIN Defaults.format, c.format[x] = Unset
        PROVE  d.format[x] = Unset
    <3>1. c.format[x] = FormatOf(Declared \o <<request.overrides>>, x)
      BY DEF SaysRest
    <3>2. FormatOf(Declared \o <<request.overrides>>, x)
            = IF request.overrides.format[x] # Unset THEN request.overrides.format[x]
              ELSE FormatOf(Declared, x)
      BY <1>1, FormatAdded
    <3>3. FormatOf(Declared, x) = Unset
      BY <2>3, <3>1, <3>2
    <3> QED BY <1>1, <3>3, LastNothing
  <2> QED BY <2>2, <2>3
<1>5. DOMAIN d.values \subseteq DOMAIN c.values
  BY <1>3 DEF SaysRest
<1>6. \A f \in Fields : c.policy[f] # Unset
  BY DEF IsFrozen
<1> HIDE DEF d
<1>7. IsTable(w)
  BY <1>2, MergeGivesTable
<1>8. w = [policy |-> Overlay(d.policy, c.policy), byType |-> Union(d.byType, c.byType, Overlay),
           header |-> OrElse(c.header, d.header), format |-> Overlay(d.format, c.format),
           values |-> Union(d.values, c.values, Latter), patterns |-> d.patterns \o c.patterns,
           sources |-> d.sources \o c.sources, include |-> OrElse(c.include, d.include),
           exclude |-> OrElse(c.exclude, d.exclude), noted |-> d.noted \cup c.noted]
  BY DEF MergeWith
<1> HIDE DEF w
<1>9. /\ c.policy = [f \in Fields |-> c.policy[f]] /\ DOMAIN d.policy = Fields
      /\ c.format = [x \in DOMAIN Defaults.format |-> c.format[x]] /\ DOMAIN d.format = DOMAIN Defaults.format
      /\ c.values = [v \in DOMAIN c.values |-> c.values[v]]
      /\ c.byType = [id \in DOMAIN c.byType |-> [f \in Fields |-> c.byType[id][f]]]
      /\ c.patterns \in Seq({c.patterns[i] : i \in DOMAIN c.patterns})
  BY <1>2 DEF IsTable
<1>10. w.policy = c.policy
  BY <1>6, <1>8, <1>9 DEF Overlay
<1>11. w.format = c.format
  <2>1. w.format = [x \in DOMAIN Defaults.format |-> IF c.format[x] = Unset THEN d.format[x] ELSE c.format[x]]
    BY <1>8, <1>9 DEF Overlay
  <2>2. \A x \in DOMAIN Defaults.format : (IF c.format[x] = Unset THEN d.format[x] ELSE c.format[x]) = c.format[x]
    BY <1>4
  <2> QED BY <1>9, <2>1, <2>2
<1>12. w.values = c.values
  <2>1. w.values = [v \in DOMAIN c.values |-> c.values[v]]
    BY <1>5, <1>8 DEF Union, Latter
  <2> QED BY <1>9, <2>1
<1>13. w.byType = c.byType
  <2>1. DOMAIN d.byType = {}
    BY <1>2
  <2>2. w.byType = [id \in DOMAIN c.byType |-> c.byType[id]]
    BY <1>8, <2>1 DEF Union
  <2>3. c.byType = [id \in DOMAIN c.byType |-> c.byType[id]]
    BY <1>9
  <2> QED BY <2>2, <2>3
<1>14. w.header = c.header /\ w.include = c.include /\ w.exclude = c.exclude
  BY <1>2, <1>4, <1>8 DEF OrElse
<1>15. w.patterns = c.patterns
  BY <1>2, <1>8, <1>9
<1>16. SaysTheSame(c, w)
  BY <1>10, <1>11, <1>12, <1>13, <1>14, <1>15 DEF SaysTheSame
<1> QED BY <1>7, <1>16 DEF w, d

\* With no overrides it stays so.
LEMMA NothingApplied ==
    ASSUME NEW w, IsTable(w)
    PROVE  IsTable(ApplyOverrides(w, NoOverrides)) /\ SaysTheSame(w, ApplyOverrides(w, NoOverrides))
<1> DEFINE o == NoOverrides
           b == ApplyOverrides(w, o)
<1>1. /\ IsOverride(o) /\ o.policy = [f \in Fields |-> Unset] /\ o.byType = <<>>
      /\ o.format = [x \in DOMAIN Defaults.format |-> Unset]
      /\ ~o.patterns.given /\ ~o.include.given /\ ~o.exclude.given
  BY NothingOverrides DEF AnyPolicy
<1> HIDE DEF o
<1>2. IsTable(b) /\ Applied(w, o, b)
  BY <1>1, ApplyGivesTable, ApplyFields
<1> HIDE DEF b
<1>3. /\ w.policy = [f \in Fields |-> w.policy[f]]
      /\ w.format = [x \in DOMAIN Defaults.format |-> w.format[x]]
      /\ w.byType = [id \in DOMAIN w.byType |-> [f \in Fields |-> w.byType[id][f]]]
  BY DEF IsTable
<1>4. b.policy = w.policy
  BY <1>1, <1>2, <1>3 DEF Applied, Overlay
<1>5. b.format = w.format
  <2>1. b.format = Overlay(w.format, o.format)
    BY <1>2 DEF Applied
  <2>2. DOMAIN w.format = DOMAIN Defaults.format
    BY <1>3
  <2>3. b.format = [x \in DOMAIN Defaults.format |-> w.format[x]]
    BY <1>1, <2>1, <2>2 DEF Overlay
  <2> QED BY <1>3, <2>3
<1>6. b.byType = w.byType
  <2>1. DOMAIN o.byType = {}
    BY <1>1
  <2>2. DOMAIN b.byType = DOMAIN w.byType /\ b.byType = [id \in DOMAIN b.byType |-> b.byType[id]]
        /\ \A id \in DOMAIN w.byType : b.byType[id] = w.byType[id]
    BY <1>2, <2>1 DEF Applied
  <2>3. w.byType = [id \in DOMAIN w.byType |-> w.byType[id]]
    BY <1>3
  <2> QED BY <2>2, <2>3
<1>7. b.header = w.header /\ b.values = w.values /\ b.patterns = w.patterns
      /\ b.include = w.include /\ b.exclude = w.exclude
  BY <1>1, <1>2 DEF Applied, Given
<1>8. SaysTheSame(w, b)
  BY <1>4, <1>5, <1>6, <1>7 DEF SaysTheSame
<1> QED BY <1>2, <1>8 DEF b, o

\* And freezing it again finds every type it names, and no policy unset.
LEMMA FrozenAgain ==
    ASSUME RegistryTypeOK, ViewsAreCurrent, NEW c, IsFrozen(c),
           NEW b, IsTable(b), SaysTheSame(c, b), NEW ll
    PROVE  IsFrozen(Freeze(b, ll)) /\ SaysTheSame(c, Freeze(b, ll))
<1> DEFINE z == Freeze(b, ll)
<1>1. IsFrozen(z) /\ Froze(b, ll, z)
  BY FreezeGivesFrozen, FreezeFields
<1> HIDE DEF z
<1>2. /\ b.policy = c.policy /\ b.byType = c.byType /\ b.header = c.header /\ b.format = c.format
      /\ b.values = c.values /\ b.patterns = c.patterns
      /\ b.include = c.include /\ b.exclude = c.exclude
  BY DEF SaysTheSame
<1>3. NamedBy(c.include) = c.include /\ NamedBy(c.exclude) = c.exclude /\ NamedBy(DOMAIN c.byType) = DOMAIN c.byType
  <2>1. c.include \in SUBSET FreshTypes /\ c.exclude \in SUBSET FreshTypes /\ DOMAIN c.byType \in SUBSET FreshTypes
    BY DEF IsFrozen
  <2> QED BY <2>1, NamedAgain
<1>4. z.header = c.header /\ z.format = c.format /\ z.values = c.values /\ z.patterns = c.patterns
      /\ z.include = c.include /\ z.exclude = c.exclude
  BY <1>1, <1>2, <1>3 DEF Froze
<1>5. /\ c.policy = [f \in Fields |-> c.policy[f]] /\ DOMAIN PolicyDefaults = Fields
      /\ \A f \in Fields : c.policy[f] # Unset
  BY DefaultsAssumption DEF IsFrozen, IsTable
<1>6. z.policy = c.policy
  BY <1>1, <1>2, <1>5 DEF Froze, Overlay
<1>7. /\ DOMAIN z.byType = DOMAIN c.byType
      /\ z.byType = [t \in DOMAIN z.byType |-> z.byType[t]]
      /\ \A t \in DOMAIN z.byType : z.byType[t] = Overlay(z.policy, Entry(c.byType, t, ll))
  BY <1>1, <1>2, <1>3 DEF Froze
<1>8. ASSUME NEW t \in DOMAIN c.byType
      PROVE  z.byType[t] = c.byType[t]
  <2> DEFINE has == DOMAIN c.byType \cap {t, LocalId(t)}
  <2>1. LocalId(t) \notin DOMAIN c.byType /\ LocalId(t) # t
    BY TypesAreIds DEF IsFrozen
  <2>2. has = {t} /\ has # {t, LocalId(t)}
    BY <2>1
  <2>3. (CHOOSE id \in has : TRUE) = t
    BY <2>2
  <2>4. Entry(c.byType, t, ll) = c.byType[t]
    BY <2>2, <2>3 DEF Entry
  <2>5. /\ c.byType[t] = [f \in Fields |-> c.byType[t][f]]
        /\ \A f \in Fields : c.byType[t][f] # Unset
    BY DEF IsFrozen, IsTable
  <2>6. z.byType[t] = [f \in Fields |-> IF c.byType[t][f] = Unset THEN z.policy[f] ELSE c.byType[t][f]]
    <3>1. DOMAIN z.policy = Fields
      BY <1>5, <1>6
    <3> QED BY <1>7, <2>4, <3>1 DEF Overlay
  <2> QED BY <2>5, <2>6
<1>9. z.byType = c.byType
  <2>1. c.byType = [id \in DOMAIN c.byType |-> c.byType[id]]
    BY DEF IsFrozen, IsTable
  <2> QED BY <1>7, <1>8, <2>1
<1>10. SaysTheSame(c, z)
  BY <1>4, <1>6, <1>9 DEF SaysTheSame
<1> QED BY <1>1, <1>10 DEF z

\* What says the same, says what was told.
LEMMA SameSays ==
    ASSUME NEW c, RunSays(c), NEW z, IsFrozen(z), SaysTheSame(c, z)
    PROVE  RunSays(z)
<1>1. /\ z.policy = c.policy /\ z.byType = c.byType /\ z.header = c.header /\ z.format = c.format
      /\ z.values = c.values /\ z.patterns = c.patterns
      /\ z.include = c.include /\ z.exclude = c.exclude
  BY DEF SaysTheSame
<1>2. \A t : EffectivePolicy(z, t) = EffectivePolicy(c, t)
  BY <1>1 DEF EffectivePolicy
<1>3. SaysRest(z)
  BY <1>1 DEF RunSays, SaysRest
<1> QED BY <1>1, <1>2, <1>3 DEF RunSays

(* A run with a frozen configuration as its base finds what that configuration says. *)
LEMMA AgainSays ==
    ASSUME RegistryTypeOK, ViewsAreCurrent, request \in Requests, NEW c, RunSays(c), NEW ll
    PROVE  RunSays(Freeze(ApplyOverrides(MergeWith(Parse(Defaults), c), NoOverrides), ll))
<1> DEFINE w == MergeWith(Parse(Defaults), c)
           b == ApplyOverrides(w, NoOverrides)
           z == Freeze(b, ll)
<1>1. IsFrozen(c) /\ SaysRest(c)
  BY DEF RunSays
<1>2. IsTable(w) /\ SaysTheSame(c, w)
  BY <1>1, MergedIntoDefaults
<1> HIDE DEF w
<1>3. IsTable(b) /\ SaysTheSame(w, b)
  BY <1>2, NothingApplied
<1> HIDE DEF b
<1>4. SaysTheSame(c, b)
  BY <1>2, <1>3 DEF SaysTheSame
<1>5. IsFrozen(z) /\ SaysTheSame(c, z)
  BY <1>1, <1>3, <1>4, FrozenAgain
<1> HIDE DEF z
<1>6. RunSays(z)
  BY <1>5, SameSays
<1> QED BY <1>6 DEF w, b, z

-----------------------------------------------------------------------------
(* What a step leaves in place. *)

(* What was told depends on the request alone. *)
LEMMA ToldStays ==
    ASSUME request' = request
    PROVE  /\ Declared' = Declared /\ Told' = Told /\ DeclaredEntries' = DeclaredEntries
           /\ RawInclude' = RawInclude /\ RawExclude' = RawExclude
           /\ \A f : OneOver(f)' = OneOver(f)
           /\ \A t : Unordered(t)' <=> Unordered(t)
           /\ \A t, f : DeclaredPolicy(t, f)' = DeclaredPolicy(t, f)
<1> DEFINE DeclaredOf(r) ==
               IF r.base # <<>> THEN <<Parse(Defaults), Parse(r.base[1])>>
               ELSE [i \in DOMAIN BuildLayers(Sources(r.user, r.dirs, r.extra, r.noConfig)) |->
                       BuildLayers(Sources(r.user, r.dirs, r.extra, r.noConfig))[i].config]
           EntriesOf(told) == UNION {DOMAIN told[i].byType : i \in DOMAIN told}
           IncludeOf(told) == LET at == {i \in DOMAIN told : told[i].include # {}}
                              IN  IF at = {} THEN {} ELSE told[Max(at)].include
           ExcludeOf(told) == LET at == {i \in DOMAIN told : told[i].exclude # {}}
                              IN  IF at = {} THEN {} ELSE told[Max(at)].exclude
           OneOf(told, f) == LET at == {i \in DOMAIN told : told[i].policy[f] # Unset}
                             IN  IF at = {} THEN Unset ELSE told[Max(at)].policy[f]
<1>1. Declared = DeclaredOf(request) /\ Declared' = DeclaredOf(request')
  BY DEF Declared, Files
<1>2. DeclaredEntries = EntriesOf(Declared) /\ DeclaredEntries' = EntriesOf(Declared')
  BY DEF DeclaredEntries
<1>3. /\ RawInclude = IncludeOf(Declared) /\ RawInclude' = IncludeOf(Declared')
      /\ RawExclude = ExcludeOf(Declared) /\ RawExclude' = ExcludeOf(Declared')
  BY DEF RawInclude, RawExclude, LastOf
<1>4. \A f : OneOver(f) = OneOf(Declared, f) /\ OneOver(f)' = OneOf(Declared', f)
  BY DEF OneOver, LastOf
<1> HIDE DEF DeclaredOf, EntriesOf, IncludeOf, ExcludeOf, OneOf
<1>5. Declared' = Declared
  BY <1>1
<1>6. Told' = Told
  BY <1>5 DEF Told
<1>7. DeclaredEntries' = DeclaredEntries
  BY <1>2, <1>5
<1>8. \A t : Unordered(t)' <=> Unordered(t)
  BY <1>7 DEF Unordered
<1>9. ASSUME NEW t, NEW f
      PROVE  DeclaredPolicy(t, f)' = DeclaredPolicy(t, f)
  <2>1. DeclaredPolicy(t, f) = TypeOver(Told, t, f, PolicyOver(Told, f, PolicyDefaults[f]))
    BY DeclaredIsOver
  <2>2. DeclaredPolicy(t, f)' = TypeOver(Told', t, f, PolicyOver(Told', f, PolicyDefaults[f]))
    BY DEF DeclaredPolicy, TypeOver, PolicyOver, OwnSet, LastOf
  <2> QED BY <1>6, <2>1, <2>2
<1> QED BY <1>3, <1>4, <1>5, <1>6, <1>7, <1>8, <1>9

\* What is said of a draft or a configuration stays said when it is carried over.
LEMMA RestStays ==
    ASSUME request' = request
    PROVE  /\ SaysRest(draft') => SaysRest(draft)'
           /\ SaysRest(config') => SaysRest(config)'
<1> DEFINE Rest(c, told, r) ==
               /\ LET at == {i \in DOMAIN told : told[i].header # {}}
                  IN  c.header = IF at = {} THEN {} ELSE told[Max(at)].header
               /\ \A x \in DOMAIN Defaults.format :
                     c.format[x] = FormatOf(told \o <<r.overrides>>, x)
               /\ DOMAIN c.values = UNION {DOMAIN told[i].values : i \in DOMAIN told}
               /\ \A x \in DOMAIN c.values :
                     LET at == {i \in DOMAIN told : x \in DOMAIN told[i].values}
                     IN  c.values[x] = IF at = {} THEN Unset ELSE told[Max(at)].values[x]
               /\ c.patterns = IF r.overrides.patterns.given THEN r.overrides.patterns.value
                               ELSE FlattenSeq([i \in DOMAIN told |-> told[i].patterns])
<1>1. Declared' = Declared
  BY ToldStays
<1>2. SaysRest(draft') <=> Rest(draft', Declared, request)
  BY DEF SaysRest, LastOf
<1>3. SaysRest(draft)' <=> Rest(draft', Declared', request')
  BY DEF SaysRest, LastOf
<1>4. SaysRest(config') <=> Rest(config', Declared, request)
  BY DEF SaysRest, LastOf
<1>5. SaysRest(config)' <=> Rest(config', Declared', request')
  BY DEF SaysRest, LastOf
<1> HIDE DEF Rest
<1> QED BY <1>1, <1>2, <1>3, <1>4, <1>5

LEMMA DraftStays ==
    ASSUME request' = request, DraftSays(draft')
    PROVE  DraftSays(draft)'
<1>1. SaysRest(draft)'
  BY RestStays DEF DraftSays
<1>2. /\ Declared' = Declared /\ DeclaredEntries' = DeclaredEntries
      /\ RawInclude' = RawInclude /\ RawExclude' = RawExclude
      /\ \A f : OneOver(f)' = OneOver(f)
  BY ToldStays
<1> QED BY <1>1, <1>2 DEF DraftSays

\* While nobody changes the file types, names resolve to the same.
LEMMA NamesStay ==
    ASSUME RegistryTypeOK, ViewsAreCurrent, RegistryTypeOK', ViewsAreCurrent',
           UNCHANGED <<typeAdded, typeRemoved>>
    PROVE  /\ FreshTypes' = FreshTypes
           /\ \A ids : NamedBy(ids)' = NamedBy(ids)
<1>1. FreshTypes' = FreshTypes
  BY DEF FreshTypes
<1>2. LocalTypes = FreshTypes /\ KnownTypes = FreshTypes
  BY ViewsTell
<1>3. LocalTypes' = FreshTypes' /\ KnownTypes' = FreshTypes'
  BY <1>1, <1>2 DEF LocalTypes, KnownTypes, ViewsAreCurrent, FreshTypes
<1> DEFINE NamedOf(id, types) ==
             IF id.ns = AnyNs THEN {t \in types : t.key = id.key} ELSE types \cap {id}
<1>4. \A id : Named(id) = NamedOf(id, FreshTypes) /\ Named(id)' = NamedOf(id, FreshTypes')
  BY <1>2, <1>3 DEF Named
<1> HIDE DEF NamedOf
<1>5. \A id : Named(id)' = Named(id)
  BY <1>1, <1>4
<1>6. \A ids : NamedBy(ids)' = NamedBy(ids)
  BY <1>5 DEF NamedBy
<1> QED BY <1>1, <1>6

\* So what a configuration says, it still says after the step.
LEMMA ConfigStays ==
    ASSUME request' = request, FreshTypes' = FreshTypes, \A ids : NamedBy(ids)' = NamedBy(ids)
    PROVE  /\ FrozenSays(config') => FrozenSays(config)'
           /\ RunSays(config') => RunSays(config)'
<1>1. SaysRest(config') => SaysRest(config)'
  BY RestStays
<1>2. IsFrozen(config') => IsFrozen(config)'
  BY DEF IsFrozen
<1>3. /\ Declared' = Declared /\ DeclaredEntries' = DeclaredEntries
      /\ RawInclude' = RawInclude /\ RawExclude' = RawExclude
      /\ \A t : Unordered(t)' <=> Unordered(t)
      /\ \A t, f : DeclaredPolicy(t, f)' = DeclaredPolicy(t, f)
  BY ToldStays
<1>4. RunInclude' = RunInclude /\ RunExclude' = RunExclude
  BY <1>3 DEF RunInclude, RunExclude
<1>5. FrozenSays(config') => FrozenSays(config)'
  BY <1>1, <1>2, <1>3, <1>4 DEF FrozenSays
<1>6. RunSays(config') => RunSays(config)'
  BY <1>1, <1>2, <1>3, <1>4 DEF RunSays
<1> QED BY <1>5, <1>6

-----------------------------------------------------------------------------
(* The stages of a run say what it was told. *)

(* What the run holds at each of its stages says what it was told, as long as nobody
   changes the registries. *)
StagesSay ==
    /\ request \in Requests /\ round \in {1, 2}
    /\ phase = "frozen" => round = 1
    /\ steady =>
         /\ round = 1 /\ phase = "drafted" => DraftSays(draft)
         /\ phase = "frozen" => FrozenSays(config)
         /\ phase \in {"settled", "scoping", "running", "done"} \/ round = 2 => RunSays(config)
         /\ round = 2 /\ phase = "drafted" =>
               draft = ApplyOverrides(MergeWith(Parse(Defaults), config), NoOverrides)

\* At the start nothing is said.
LEMMA StagesStart == Init => StagesSay
BY DEF Init, StagesSay

\* Draft says what the request tells, or repeats what the base configuration says.
LEMMA DraftStage ==
    ASSUME StagesSay, Draft,
           FreshTypes' = FreshTypes, \A ids : NamedBy(ids)' = NamedBy(ids)
    PROVE  StagesSay'
<1>1. /\ request' = request /\ config' = config /\ round' = round
      /\ phase = "start" /\ phase' = "drafted" /\ steady' = (round = 1 \/ steady)
      /\ request \in Requests /\ round \in {1, 2}
  BY DEF Draft, StagesSay
<1>2. CASE round = 1
  <2> DEFINE whole == IF request.base = <<>>
                      THEN [MergeLayers(BuildLayers(Files)) EXCEPT !.noted = @ \cup Complaints(Files)]
                      ELSE MergeWith(Parse(Defaults), Parse(request.base[1]))
  <2>1. draft' = ApplyOverrides(whole, request.overrides)
    <3>1. CASE request.base = <<>>
      <4>1. draft' = ApplyOverrides([MergeLayers(BuildLayers(Files)) EXCEPT !.noted = @ \cup Complaints(Files)],
                                    request.overrides)
        BY <1>2, <3>1 DEF Draft, Discovers, Overrides
      <4> QED BY <3>1, <4>1
    <3>2. CASE request.base # <<>>
      <4>1. draft' = ApplyOverrides(MergeWith(Parse(Defaults), Parse(request.base[1])), request.overrides)
        BY <1>2, <3>2 DEF Draft, Discovers, Overrides
      <4> QED BY <3>2, <4>1
    <3> QED BY <3>1, <3>2
  <2>2. \E m, x : Chain(Declared, m) /\ whole = [m[Len(Declared)] EXCEPT !.noted = x]
    BY <1>1, WholeMerges
  <2> HIDE DEF whole
  <2>3. PICK m, x : Chain(Declared, m) /\ whole = [m[Len(Declared)] EXCEPT !.noted = x]
    BY <2>2
  <2>4. \A d : d = ApplyOverrides([m[Len(Declared)] EXCEPT !.noted = x], request.overrides) => DraftSays(d)
    BY <1>1, <2>3, DraftTold
  <2>5. DraftSays(draft')
    BY <2>1, <2>3, <2>4
  <2>6. DraftSays(draft)'
    BY <1>1, <2>5, DraftStays
  <2> QED BY <1>1, <1>2, <2>6 DEF StagesSay
<1>3. CASE round = 2
  <2>1. steady => RunSays(config')
    BY <1>1, <1>3 DEF StagesSay
  <2>2. steady => RunSays(config)'
    BY <1>1, <2>1, ConfigStays
  <2>3. draft' = ApplyOverrides(MergeWith(Parse(Defaults), config), NoOverrides)
    BY <1>3 DEF Draft, Discovers, Overrides
  <2>4. draft' = ApplyOverrides(MergeWith(Parse(Defaults), config'), NoOverrides)
    BY <1>1, <2>3
  <2>5. steady' => steady
    <3>1. steady' <=> (round = 1 \/ steady)
      BY DEF Draft
    <3> QED BY <1>3, <3>1
  <2> QED BY <1>1, <1>3, <2>2, <2>4, <2>5 DEF StagesSay
<1> QED BY <1>1, <1>2, <1>3

\* FreezeDraft says what the draft does, unless an overlay is to come.
LEMMA FreezeStage ==
    ASSUME RegistryTypeOK, ViewsAreCurrent, StagesSay, FreezeDraft,
           FreshTypes' = FreshTypes, \A ids : NamedBy(ids)' = NamedBy(ids)
    PROVE  StagesSay'
<1>1. /\ request' = request /\ draft' = draft /\ round' = round /\ steady' = steady
      /\ phase = "drafted" /\ request \in Requests /\ round \in {1, 2}
      /\ phase' \in {"refused", "frozen", "settled"}
      /\ phase' = "frozen" => Overlays # NoOverrides
      /\ phase' = "settled" => Overlays = NoOverrides
  BY DEF FreezeDraft, StagesSay
<1>2. PICK ll : config' = Freeze(draft, ll)
  BY DEF FreezeDraft
<1>3. CASE ~steady
  <2>1. phase' = "frozen" => round = 1
    BY <1>1 DEF Overlays
  <2> QED BY <1>1, <1>3, <2>1 DEF StagesSay
<1>4. CASE steady /\ round = 1
  <2>1. DraftSays(draft)
    BY <1>1, <1>4 DEF StagesSay
  <2>2. FrozenSays(config')
    BY <1>1, <1>2, <2>1, FreezeSays
  <2>3. phase' = "settled" => RunSays(config')
    <3>1. phase' = "settled" => request.overlay = NoOverrides
      BY <1>1, <1>4 DEF Overlays
    <3> QED BY <1>1, <2>2, <3>1, NoOverlaySays
  <2>4. FrozenSays(config)' /\ (phase' = "settled" => RunSays(config)')
    BY <1>1, <2>2, <2>3, ConfigStays
  <2> QED BY <1>1, <1>4, <2>4 DEF StagesSay
<1>5. CASE steady /\ round = 2
  <2>1. RunSays(config) /\ draft = ApplyOverrides(MergeWith(Parse(Defaults), config), NoOverrides)
    BY <1>1, <1>5 DEF StagesSay
  <2>2. RunSays(config')
    BY <1>1, <1>2, <2>1, AgainSays
  <2>3. RunSays(config)'
    BY <1>1, <2>2, ConfigStays
  <2>4. phase' # "frozen"
    BY <1>1, <1>5 DEF Overlays
  <2> QED BY <1>1, <1>5, <2>3, <2>4 DEF StagesSay
<1> QED BY <1>1, <1>3, <1>4, <1>5

\* OverlayPolicy says what the overlay adds.
LEMMA OverlayStage ==
    ASSUME RegistryTypeOK, ViewsAreCurrent, StagesSay, OverlayPolicy,
           FreshTypes' = FreshTypes, \A ids : NamedBy(ids)' = NamedBy(ids)
    PROVE  StagesSay'
<1>1. /\ request' = request /\ round' = round /\ steady' = steady
      /\ phase = "frozen" /\ phase' = "settled" /\ round = 1 /\ request \in Requests
  BY DEF OverlayPolicy, StagesSay
<1>2. PICK ll : /\ DOMAIN config.byType \subseteq ll
                /\ config' = Freeze(ApplyOverrides(config, request.overlay), ll)
  BY <1>1 DEF OverlayPolicy, Overlays
<1>3. steady => RunSays(config')
  <2>1. steady => FrozenSays(config)
    BY <1>1 DEF StagesSay
  <2> QED BY <1>1, <1>2, <2>1, OverlaySays
<1>4. steady => RunSays(config)'
  BY <1>1, <1>3, ConfigStays
<1> QED BY <1>1, <1>4 DEF StagesSay

\* Later stages, and a step that touches neither, keep what is said.
LEMMA LaterStage ==
    ASSUME StagesSay, UNCHANGED <<request, config>>,
           FreshTypes' = FreshTypes, \A ids : NamedBy(ids)' = NamedBy(ids),
           \/ UNCHANGED <<round, steady, draft, phase>>
           \/ /\ UNCHANGED <<round, steady>>
              /\ phase \in {"settled", "scoping", "running"}
              /\ phase' \in {"settled", "scoping", "running", "done"}
           \/ phase = "done" /\ phase' = "start" /\ round' = 2 /\ UNCHANGED steady
    PROVE  StagesSay'
<1>1. /\ FrozenSays(config) => FrozenSays(config)'
      /\ RunSays(config) => RunSays(config)'
  BY ConfigStays
<1>2. CASE UNCHANGED <<round, steady, draft, phase>>
  <2>1. DraftSays(draft) => DraftSays(draft)'
    BY <1>2, DraftStays
  <2> QED BY <1>1, <1>2, <2>1 DEF StagesSay
<1>3. CASE /\ UNCHANGED <<round, steady>>
           /\ phase \in {"settled", "scoping", "running"}
           /\ phase' \in {"settled", "scoping", "running", "done"}
  BY <1>1, <1>3 DEF StagesSay
<1>4. CASE phase = "done" /\ phase' = "start" /\ round' = 2 /\ UNCHANGED steady
  BY <1>1, <1>4 DEF StagesSay
<1> QED BY <1>2, <1>3, <1>4

\* Resolving names changes no registration.
LEMMA NamingReads ==
    ASSUME NEW ids, SeeNamed(ids)
    PROVE  UNCHANGED <<typeAdded, typeRemoved>>
BY DEF SeeNamed, SeeTypes, SeeLocalTypes, typeVars

\* No step of a run changes the registrations.
LEMMA RunReads ==
    ASSUME [Next]_vars, ~(Disturb \/ Proceed)
    PROVE  UNCHANGED <<typeAdded, typeRemoved>>
<1>1. CASE Draft \/ RunAgain \/ UNCHANGED vars
  BY <1>1 DEF Draft, RunAgain, vars, registryVars, typeVars
<1>2. CASE FreezeDraft \/ OverlayPolicy \/ Select \/ ScopePath
  <2>1. \E ids : SeeNamed(ids)
    BY <1>2 DEF FreezeDraft, OverlayPolicy, Select, ScopePath
  <2> QED BY <2>1, NamingReads
<1>3. CASE ProbePath \/ ResolvePath
  <2>1. SeeTypes \/ SeeBindings
    BY <1>3 DEF ProbePath, ResolvePath, SeeProcessor
  <2> QED BY <2>1 DEF SeeTypes, SeeBindings, typeVars
<1> QED BY <1>1, <1>2, <1>3 DEF Next

\* Every step keeps what the stages say, the steps of other threads included.
LEMMA StagesStep ==
    RegistryTypeOK /\ ViewsAreCurrent /\ RegistryTypeOK' /\ ViewsAreCurrent'
        /\ StagesSay /\ [Next]_vars => StagesSay'
<1> SUFFICES ASSUME RegistryTypeOK, ViewsAreCurrent, RegistryTypeOK', ViewsAreCurrent',
                    StagesSay, [Next]_vars
             PROVE  StagesSay'
  OBVIOUS
<1>1. CASE Disturb \/ Proceed
  <2>1. steady' = FALSE /\ UNCHANGED <<request, round, phase>>
    BY <1>1 DEF Disturb, Proceed
  <2> QED BY <2>1 DEF StagesSay
<1>2. CASE UNCHANGED <<typeAdded, typeRemoved>>
  <2>0. FreshTypes' = FreshTypes /\ \A ids : NamedBy(ids)' = NamedBy(ids)
    BY <1>2, NamesStay
  <2>1. CASE Draft
    BY <2>0, <2>1, DraftStage
  <2>2. CASE FreezeDraft
    BY <2>0, <2>2, FreezeStage
  <2>3. CASE OverlayPolicy
    BY <2>0, <2>3, OverlayStage
  <2>4. CASE Select
    BY <2>0, <2>4, LaterStage DEF Select
  <2>5. CASE ScopePath
    BY <2>0, <2>5, LaterStage DEF ScopePath
  <2>6. CASE ProbePath
    <3>1. UNCHANGED <<request, round, steady, draft, config>> /\ phase = "running"
          /\ (UNCHANGED phase \/ phase' \in {"done", "running"})
      BY <2>6 DEF ProbePath, Ends
    <3> QED BY <2>0, <3>1, LaterStage
  <2>7. CASE ResolvePath
    <3>1. UNCHANGED <<request, round, steady, draft, config>> /\ phase = "running"
          /\ phase' \in {"done", "running"}
      BY <2>7 DEF ResolvePath, Ends
    <3> QED BY <2>0, <3>1, LaterStage
  <2>8. CASE RunAgain
    BY <2>0, <2>8, LaterStage DEF RunAgain
  <2>9. CASE UNCHANGED vars
    BY <2>0, <2>9, LaterStage DEF vars, runVars
  <2> QED BY <1>1, <2>1, <2>2, <2>3, <2>4, <2>5, <2>6, <2>7, <2>8, <2>9 DEF Next
<1>3. ~(Disturb \/ Proceed) => UNCHANGED <<typeAdded, typeRemoved>>
  BY RunReads
<1> QED BY <1>1, <1>2, <1>3

\* So the stages of every run say what it was told.
LEMMA StagesAlwaysSay == Spec => [](RegistryTypeOK /\ ViewsAreCurrent /\ StagesSay)
<1>1. Spec => []RegistryTypeOK
  BY RunsUseTheRegistries, RegistryTypes, PTL
<1> QED BY <1>1, StagesStart, StagesStep, RunSeesCurrentViews, PTL DEF Spec

\* A configuration that says what was told has the closest settings.
LEMMA SaysIsClosest ==
    ASSUME StagesSay
    PROVE  ClosestLayerWins
<1> SUFFICES ASSUME Configured, steady
             PROVE  /\ \A t \in FreshTypes : \A f \in Fields :
                          Unordered(t) \/ EffectivePolicy(config, t)[f] = DeclaredPolicy(t, f)
                    /\ config.header = LastOf(Declared, LAMBDA c : c.header # {}, LAMBDA c : c.header, {})
                    /\ \A k \in DOMAIN config.format :
                          config.format[k] = LastOf(Declared \o <<request.overrides>>,
                              LAMBDA c : c.format[k] # Unset, LAMBDA c : c.format[k], Unset)
                    /\ \A v \in UNION {DOMAIN Declared[i].values : i \in DOMAIN Declared} :
                          config.values[v] = LastOf(Declared, LAMBDA c : v \in DOMAIN c.values,
                                                    LAMBDA c : c.values[v], Unset)
                    /\ config.patterns = IF request.overrides.patterns.given THEN request.overrides.patterns.value
                                         ELSE FlattenSeq([i \in DOMAIN Declared |-> Declared[i].patterns])
                    /\ config.include = DeclaredFilter(LAMBDA c : c.include, request.overrides.include)
                    /\ config.exclude = DeclaredFilter(LAMBDA c : c.exclude, request.overrides.exclude)
  BY DEF ClosestLayerWins
<1>1. RunSays(config)
  BY DEF StagesSay, Configured
<1>2. /\ \A t \in FreshTypes : \A f \in Fields :
            Unordered(t) \/ EffectivePolicy(config, t)[f] = DeclaredPolicy(t, f)
      /\ config.include = RunInclude /\ config.exclude = RunExclude
  BY <1>1 DEF RunSays
<1>3. /\ RunInclude = DeclaredFilter(LAMBDA c : c.include, request.overrides.include)
      /\ RunExclude = DeclaredFilter(LAMBDA c : c.exclude, request.overrides.exclude)
  BY DEF RunInclude, RunExclude, RawInclude, RawExclude, DeclaredFilter, Given
<1>4. config.header = LastOf(Declared, LAMBDA c : c.header # {}, LAMBDA c : c.header, {})
  BY <1>1 DEF RunSays, SaysRest
<1>5. \A k \in DOMAIN config.format :
         config.format[k] = LastOf(Declared \o <<request.overrides>>,
             LAMBDA c : c.format[k] # Unset, LAMBDA c : c.format[k], Unset)
  <2>1. DOMAIN config.format = DOMAIN Defaults.format
    BY <1>1 DEF RunSays, IsFrozen, IsTable
  <2>2. \A k \in DOMAIN config.format :
           config.format[k] = FormatOf(Declared \o <<request.overrides>>, k)
    BY <1>1, <2>1 DEF RunSays, SaysRest
  <2> QED BY <2>2 DEF FormatOf, LastOf
<1>6. \A v \in UNION {DOMAIN Declared[i].values : i \in DOMAIN Declared} :
         config.values[v] = LastOf(Declared, LAMBDA c : v \in DOMAIN c.values,
                                   LAMBDA c : c.values[v], Unset)
  BY <1>1 DEF RunSays, SaysRest
<1>7. config.patterns = IF request.overrides.patterns.given THEN request.overrides.patterns.value
                        ELSE FlattenSeq([i \in DOMAIN Declared |-> Declared[i].patterns])
  BY <1>1 DEF RunSays, SaysRest
<1> QED BY <1>2, <1>3, <1>4, <1>5, <1>6, <1>7

(* Whatever the layers, overrides and overlays, and however other threads' changes
   come before or after it, a run nobody disturbs works with the closest setting of
   every field, for every type, and so does the run on its frozen configuration. *)
THEOREM ClosestSettingCounts == Spec => []ClosestLayerWins
<1>1. StagesSay => ClosestLayerWins
  BY SaysIsClosest
<1> QED BY <1>1, StagesAlwaysSay, PTL

-----------------------------------------------------------------------------
(* The layers an API run keeps: only their filters are ever rewritten. *)

\* Layers merge into a draft.
LEMMA MergedIsTable ==
    ASSUME NEW S, NEW stack \in Seq(S), stack # <<>>,
           \A i \in 1 .. Len(stack) : IsTable(stack[i].config)
    PROVE  IsTable(MergeLayers(stack))
<1> DEFINE n == Len(stack)
           told == [i \in 1 .. n |-> stack[i].config]
<1>1. n \in Nat \ {0}
  OBVIOUS
<1>2. PICK m : /\ m[1] = stack[1].config
               /\ \A k \in 2 .. Len(stack) : m[k] = MergeWith(m[k - 1], stack[k].config)
               /\ MergeLayers(stack) = m[Len(stack)]
  BY MergeByLayers
<1>3. Len(told) = n /\ \A i \in 1 .. n : told[i] = stack[i].config
  BY <1>1
<1> HIDE DEF told
<1>4. Chain(told, m)
  <2>1. 1 \in 1 .. n /\ \A k \in 2 .. n : k \in 1 .. n
    BY <1>1
  <2> HIDE DEF n
  <2>2. Len(stack) = n
    BY DEF n
  <2>3. m[1] = told[1] /\ \A k \in 2 .. Len(told) : m[k] = MergeWith(m[k - 1], told[k])
    BY <1>2, <1>3, <2>1, <2>2
  <2> QED BY <2>3 DEF Chain
<1>5. \A k \in 1 .. n : IsTable(m[k])
  BY <1>1, <1>3, <1>4, ChainTables
<1> QED BY <1>1, <1>2, <1>5

\* l is l0 with filters of its own.
LayerLike(l, l0) ==
    /\ l = [scope |-> l0.scope, config |-> l.config] /\ IsTable(l.config)
    /\ l.config = [l0.config EXCEPT !.include = l.config.include, !.exclude = l.config.exclude]

\* The layers of one stack and of another, but for the filters.
StackLike(stack, whole) ==
    /\ Len(stack) = Len(whole) /\ Len(stack) \in Nat \ {0}
    /\ stack = [i \in 1 .. Len(stack) |-> stack[i]]
    /\ \A i \in 1 .. Len(stack) : LayerLike(stack[i], whole[i])

\* A stack is like itself.
LEMMA StackIsLike ==
    ASSUME NEW stack, IsStack(stack)
    PROVE  StackLike(stack, stack)
<1> SUFFICES ASSUME NEW i \in 1 .. Len(stack)
             PROVE  LayerLike(stack[i], stack[i])
  BY DEF IsStack, StackLike
<1> DEFINE l == stack[i]
           c == l.config
<1>1. l = [scope |-> l.scope, config |-> l.config] /\ IsTable(c)
  BY DEF IsStack
<1> HIDE DEF l
<1>2. c = [c EXCEPT !.include = c.include, !.exclude = c.exclude]
  BY <1>1 DEF IsTable
<1>3. LayerLike(l, l)
  BY <1>1, <1>2 DEF LayerLike
<1> QED BY <1>3 DEF l

\* A draft with other filters is a draft.
Filtered(c, X, Y) == [c EXCEPT !.include = X, !.exclude = Y]

LEMMA FilteredIsTable ==
    ASSUME NEW c, IsTable(c), NEW X, NEW Y, \A id \in X \cup Y : IsId(id)
    PROVE  /\ IsTable(Filtered(c, X, Y))
           /\ Filtered(c, X, Y).include = X /\ Filtered(c, X, Y).exclude = Y
<1> DEFINE z == Filtered(c, X, Y)
<1>0. z = [c EXCEPT !.include = X, !.exclude = Y]
  BY DEF Filtered
<1> HIDE DEF z
<1>1. c = [policy |-> c.policy, byType |-> c.byType, header |-> c.header, format |-> c.format,
           values |-> c.values, patterns |-> c.patterns, sources |-> c.sources,
           include |-> c.include, exclude |-> c.exclude, noted |-> c.noted]
  BY DEF IsTable
<1>4. z = [policy |-> c.policy, byType |-> c.byType, header |-> c.header, format |-> c.format,
           values |-> c.values, patterns |-> c.patterns, sources |-> c.sources,
           include |-> X, exclude |-> Y, noted |-> c.noted]
  BY <1>0, <1>1
<1>2. /\ z.policy = c.policy /\ z.byType = c.byType /\ z.header = c.header
      /\ z.format = c.format /\ z.values = c.values /\ z.patterns = c.patterns
      /\ z.include = X /\ z.exclude = Y
      /\ z = [policy |-> z.policy, byType |-> z.byType, header |-> z.header, format |-> z.format,
              values |-> z.values, patterns |-> z.patterns, sources |-> z.sources,
              include |-> z.include, exclude |-> z.exclude, noted |-> z.noted]
  BY <1>4
<1>3. IsTable(z)
  BY <1>2 DEF IsTable
<1> QED BY <1>2, <1>3 DEF z

\* Rewriting the filters of a layer keeps the likeness.
LEMMA RewrittenLayer ==
    ASSUME NEW l, NEW l0, LayerLike(l, l0), IsTable(l0.config),
           NEW X, NEW Y, \A id \in X \cup Y : IsId(id)
    PROVE  LET z == WithFilters(l, X, Y)
           IN  LayerLike(z, l0) /\ z.config.include = X /\ z.config.exclude = Y
<1> DEFINE z == WithFilters(l, X, Y)
           c == l.config
           d == Filtered(c, X, Y)
           c0 == l0.config
<1>1. l = [scope |-> l0.scope, config |-> c] /\ IsTable(c) /\ IsTable(c0)
      /\ c = [c0 EXCEPT !.include = c.include, !.exclude = c.exclude]
  BY DEF LayerLike
<1>2. IsTable(d) /\ d.include = X /\ d.exclude = Y
  BY <1>1, FilteredIsTable
<1>3. d = [c0 EXCEPT !.include = X, !.exclude = Y]
  <2>1. c0 = [policy |-> c0.policy, byType |-> c0.byType, header |-> c0.header, format |-> c0.format,
             values |-> c0.values, patterns |-> c0.patterns, sources |-> c0.sources,
             include |-> c0.include, exclude |-> c0.exclude, noted |-> c0.noted]
    BY <1>1 DEF IsTable
  <2> HIDE DEF c0
  <2>2. \A x, y : [[c0 EXCEPT !.include = x, !.exclude = y] EXCEPT !.include = X, !.exclude = Y]
                    = [c0 EXCEPT !.include = X, !.exclude = Y]
    BY <2>1
  <2> HIDE DEF c
  <2> QED BY <1>1, <2>2 DEF d, Filtered
<1> HIDE DEF d, c, c0
<1>7. z = [l EXCEPT !.config = d]
  BY DEF z, d, c, WithFilters, Filtered
<1> HIDE DEF z
<1>4. z = [scope |-> l0.scope, config |-> d]
  BY <1>1, <1>7
<1>5. z.scope = l0.scope /\ z.config = d
  BY <1>4
<1>6. LayerLike(z, l0)
  BY <1>2, <1>3, <1>4, <1>5 DEF LayerLike, c0
<1> QED BY <1>2, <1>5, <1>6 DEF z, d, c

\* Freezing for a path rewrites only filters, and those to what they name.
LEMMA NormalizedIsLike ==
    ASSUME RegistryTypeOK, ViewsAreCurrent, NEW whole, StackLike(layers, whole), NEW p,
           \A i \in 1 .. Len(whole) : IsTable(whole[i].config)
    PROVE  /\ StackLike(Normalized(p), whole)
           /\ \A i \in 1 .. Len(whole) : \A x \in {"include", "exclude"} :
                 Normalized(p)[i].config[x] \in {layers[i].config[x], NamedBy(layers[i].config[x])}
<1> DEFINE z == Normalized(p)
           X(i) == IF i = Owner(p, "include") THEN NamedBy(layers[i].config.include)
                   ELSE layers[i].config.include
           Y(i) == IF i = Owner(p, "exclude") THEN NamedBy(layers[i].config.exclude)
                   ELSE layers[i].config.exclude
<1>1. /\ Len(layers) = Len(whole) /\ Len(layers) \in Nat \ {0}
      /\ DOMAIN layers = 1 .. Len(layers)
      /\ \A i \in 1 .. Len(layers) : LayerLike(layers[i], whole[i])
  BY DEF StackLike
<1>2. /\ DOMAIN z = 1 .. Len(layers) /\ z = [i \in 1 .. Len(layers) |-> z[i]]
      /\ Len(z) = Len(layers)
      /\ \A i \in 1 .. Len(layers) :
            z[i] = WithFilters(layers[i], X(i), Y(i))
  <2>1. z = [i \in DOMAIN layers |-> WithFilters(layers[i], X(i), Y(i))]
    BY DEF Normalized
  <2> HIDE DEF z, X, Y
  <2> QED BY <1>1, <2>1
<1>3. ASSUME NEW i \in 1 .. Len(layers)
      PROVE  \A id \in X(i) \cup Y(i) : IsId(id)
  <2>1. \A id \in layers[i].config.include \cup layers[i].config.exclude : IsId(id)
    BY <1>1 DEF LayerLike, IsTable
  <2>2. NamedBy(layers[i].config.include) \subseteq FreshTypes
        /\ NamedBy(layers[i].config.exclude) \subseteq FreshTypes
    BY <2>1, NamedFresh
  <2> QED BY <2>1, <2>2, TypesAreIds
<1>4. \A i \in 1 .. Len(layers) :
         /\ X(i) \in {layers[i].config.include, NamedBy(layers[i].config.include)}
         /\ Y(i) \in {layers[i].config.exclude, NamedBy(layers[i].config.exclude)}
  OBVIOUS
<1> HIDE DEF z, X, Y
<1>5. \A i \in 1 .. Len(layers) : LayerLike(z[i], whole[i])
                                  /\ z[i].config.include = X(i) /\ z[i].config.exclude = Y(i)
  <2> SUFFICES ASSUME NEW i \in 1 .. Len(layers)
               PROVE  LayerLike(z[i], whole[i])
                      /\ z[i].config.include = X(i) /\ z[i].config.exclude = Y(i)
    OBVIOUS
  <2> DEFINE y == WithFilters(layers[i], X(i), Y(i))
  <2>1. LayerLike(y, whole[i]) /\ y.config.include = X(i) /\ y.config.exclude = Y(i)
    BY <1>1, <1>3, RewrittenLayer
  <2> HIDE DEF y
  <2>2. z[i] = y
    BY <1>2 DEF y
  <2> QED BY <2>1, <2>2
<1>6. StackLike(z, whole)
  BY <1>1, <1>2, <1>5 DEF StackLike
<1>7. \A i \in 1 .. Len(whole) : \A x \in {"include", "exclude"} :
         z[i].config[x] \in {layers[i].config[x], NamedBy(layers[i].config[x])}
  BY <1>1, <1>4, <1>5
<1> QED BY <1>6, <1>7 DEF z

\* What the layers of a path merge into, and its configuration.
MergedIn(stack, p) == MergeLayers(Applicable(stack, p))
MergedFor(p) == MergedIn(layers, p)

\* The positions of the layers that apply to a path.
Around(stack, p) == {i \in DOMAIN stack : Applies(stack[i], p)}

\* The layers of a path are at least the built-in one, at the same positions of stacks
\* that are alike.
LEMMA AroundPaths ==
    ASSUME NEW stack, NEW whole, StackLike(stack, whole), IsStack(whole), NEW p
    PROVE  LET some == Applicable(stack, p)
               S == {stack[i] : i \in 1 .. Len(stack)}
           IN  /\ stack \in Seq(S) /\ some \in Seq(S) /\ some # <<>>
               /\ Len(some) = Cardinality(Around(stack, p))
               /\ Around(stack, p) = Around(whole, p) /\ Around(stack, p) \in SUBSET (1 .. Len(stack))
               /\ some = Picked(stack, Around(stack, p))
               /\ \A i \in 1 .. Len(some) : IsTable(some[i].config)
<1> DEFINE S == {stack[i] : i \in 1 .. Len(stack)}
           at == Around(stack, p)
           some == Picked(stack, at)
<1>1. Len(stack) = Len(whole) /\ Len(stack) \in Nat \ {0} /\ stack = [i \in 1 .. Len(stack) |-> stack[i]]
      /\ \A i \in 1 .. Len(stack) : LayerLike(stack[i], whole[i])
  BY DEF StackLike
<1>2. stack \in Seq(S) /\ DOMAIN stack = 1 .. Len(stack) /\ 1 \in DOMAIN stack
  BY <1>1
<1>3. at = Around(whole, p)
  <2>1. DOMAIN whole = 1 .. Len(stack)
    BY <1>1 DEF IsStack
  <2>2. \A l, l0 : LayerLike(l, l0) => l.scope = l0.scope
    BY DEF LayerLike
  <2>3. \A i \in DOMAIN stack : stack[i].scope = whole[i].scope
    BY <1>1, <1>2, <2>2
  <2> QED BY <1>2, <2>1, <2>3 DEF Around, Applies
<1>4. 1 \in at
  <2>1. whole[1].scope = Everywhere /\ 1 \in DOMAIN whole
    BY DEF IsStack
  <2> QED BY <1>3, <2>1 DEF Around, Applies
<1>5. at \in SUBSET DOMAIN stack
  BY DEF Around
<1>6. \A l \in S : IsTable(l.config)
  BY <1>1 DEF LayerLike
<1> HIDE DEF S, at
<1>7. some \in Seq(S) /\ Len(some) = Cardinality(at)
      /\ \A i \in at : \E k \in 1 .. Cardinality(at) : TRUE
  BY <1>2, <1>5, PickedInOrder
<1>8. some # <<>>
  <2>1. Cardinality(at) # 0
    BY <1>4, <1>7
  <2> QED BY <1>7, <2>1
<1>9. some = Applicable(stack, p)
  BY DEF Applicable, some, at, Around
<1> HIDE DEF some
<1>10. \A i \in 1 .. Len(some) : IsTable(some[i].config)
  BY <1>6, <1>7
<1> QED BY <1>2, <1>3, <1>5, <1>7, <1>8, <1>9, <1>10 DEF S, at, some

\* They merge into a draft.
LEMMA MergedInIsTable ==
    ASSUME NEW stack, NEW whole, StackLike(stack, whole), IsStack(whole), NEW p
    PROVE  IsTable(MergedIn(stack, p))
<1> DEFINE some == Applicable(stack, p)
           S == {stack[i] : i \in 1 .. Len(stack)}
<1>1. some \in Seq(S) /\ some # <<>> /\ \A i \in 1 .. Len(some) : IsTable(some[i].config)
  BY AroundPaths
<1> HIDE DEF some, S
<1>2. IsTable(MergeLayers(some))
  BY <1>1, MergedIsTable
<1> QED BY <1>2 DEF MergedIn, some

LEMMA MergedForIsTable ==
    ASSUME NEW whole, StackLike(layers, whole), IsStack(whole), NEW p
    PROVE  IsTable(MergedFor(p))
BY MergedInIsTable DEF MergedFor

-----------------------------------------------------------------------------
(* The shape of a run's state, and where the run is among its paths. *)

\* The stages before paths are at hand.
Early == {"start", "drafted", "refused", "frozen", "settled"}

\* What every stage leaves, whatever happens to the registries.
StagesTyped ==
    /\ phase \in Early \cup {"scoping", "running", "done"}
    /\ IsTable(draft) /\ IsTable(config)
    /\ config.include \subseteq FileTypes /\ config.exclude \subseteq FileTypes
    /\ selected \in Seq(Paths)
    /\ layers # <<>> => /\ round = 1 /\ request.base = <<>>
                        /\ StackLike(layers, BuildLayers(Files))
    /\ \A p \in DOMAIN pathConfigs :
          /\ pathConfigs[p].include \subseteq FileTypes /\ pathConfigs[p].exclude \subseteq FileTypes
          /\ pathConfigs[p].policy = config.policy /\ pathConfigs[p].byType = config.byType
    /\ DOMAIN outcomes \subseteq DOMAIN pathConfigs

\* Where the run is among its paths.
PathsInOrder ==
    /\ phase \in Early => next = 1 /\ DOMAIN pathConfigs = {} /\ DOMAIN outcomes = {}
    /\ phase # "running" => probe = <<>>
    /\ phase = "scoping" => /\ next \in 1 .. Len(selected) /\ DOMAIN outcomes = {} /\ layers # <<>>
                            /\ DOMAIN pathConfigs = {selected[i] : i \in 1 .. next - 1}
    /\ phase = "running" => /\ next \in 1 .. Len(selected)
                            /\ DOMAIN pathConfigs = {selected[i] : i \in 1 .. Len(selected)}

\* The layers of the request stay those of the request.
LEMMA FilesStay ==
    ASSUME request' = request
    PROVE  BuildLayers(Files)' = BuildLayers(Files)
<1>1. Files' = Files
  BY DEF Files
<1> QED BY <1>1

\* A frozen draft is a configuration of file types.
LEMMA FrozenIsTyped ==
    ASSUME RegistryTypeOK, ViewsAreCurrent, NEW c, IsTable(c), NEW ll
    PROVE  /\ IsTable(Freeze(c, ll))
           /\ Freeze(c, ll).include \subseteq FileTypes /\ Freeze(c, ll).exclude \subseteq FileTypes
<1>1. FreshTypes \subseteq FileTypes
  BY ViewsTell
<1>2. IsFrozen(Freeze(c, ll))
  BY FreezeGivesFrozen
<1> QED BY <1>1, <1>2 DEF IsFrozen

\* The shape of the state at the start, and after each stage.
LEMMA TypedStart == Init => StagesTyped /\ PathsInOrder
<1> SUFFICES ASSUME Init PROVE StagesTyped /\ PathsInOrder
  OBVIOUS
<1>1. IsTable(Parse(Defaults)) /\ Parse(Defaults).include = {} /\ Parse(Defaults).exclude = {}
  BY DefaultsParsed
<1>2. DOMAIN pathConfigs = {} /\ DOMAIN outcomes = {} /\ selected \in Seq(Paths)
  BY DEF Init
<1>3. phase \in {"start", "done"}
  BY DEF Init
<1> QED BY <1>1, <1>2, <1>3 DEF Init, StagesTyped, PathsInOrder, Early

LEMMA DraftIsTyped ==
    ASSUME StagesSay, StagesTyped, PathsInOrder, Draft
    PROVE  StagesTyped' /\ PathsInOrder'
<1>1. /\ UNCHANGED <<request, round, config, pathConfigs, selected, next, probe, outcomes>>
      /\ phase = "start" /\ phase' = "drafted" /\ request \in Requests /\ round \in {1, 2}
      /\ layers' = IF request.via = "api" /\ Discovers THEN BuildLayers(Files) ELSE <<>>
  BY DEF Draft, StagesSay
<1>2. IsTable(draft')
  <2>1. IsTable(Parse(Defaults)) /\ IsTable(config)
    BY DefaultsParsed DEF StagesTyped
  <2>2. IsOverride(Overrides)
    BY <1>1, NothingOverrides, RequestsAssumption DEF Overrides
  <2>3. CASE round = 2
    <3>1. draft' = ApplyOverrides(MergeWith(Parse(Defaults), config), Overrides)
      BY <2>3 DEF Draft, Discovers
    <3> QED BY <2>1, <2>2, <3>1, MergeGivesTable, ApplyGivesTable
  <2>4. CASE round = 1
    <3> DEFINE whole == IF request.base = <<>>
                        THEN [MergeLayers(BuildLayers(Files)) EXCEPT !.noted = @ \cup Complaints(Files)]
                        ELSE MergeWith(Parse(Defaults), Parse(request.base[1]))
    <3>1. draft' = ApplyOverrides(whole, request.overrides)
      <4>1. CASE request.base = <<>>
        <5>1. draft' = ApplyOverrides([MergeLayers(BuildLayers(Files)) EXCEPT !.noted = @ \cup Complaints(Files)],
                                      request.overrides)
          BY <2>4, <4>1 DEF Draft, Discovers, Overrides
        <5> QED BY <4>1, <5>1
      <4>2. CASE request.base # <<>>
        <5>1. draft' = ApplyOverrides(MergeWith(Parse(Defaults), Parse(request.base[1])), request.overrides)
          BY <2>4, <4>2 DEF Draft, Discovers, Overrides
        <5> QED BY <4>2, <5>1
      <4> QED BY <4>1, <4>2
    <3>2. \E m, x : Chain(Declared, m) /\ whole = [m[Len(Declared)] EXCEPT !.noted = x]
      BY <1>1, WholeMerges
    <3> HIDE DEF whole
    <3>3. PICK m, x : Chain(Declared, m) /\ whole = [m[Len(Declared)] EXCEPT !.noted = x]
      BY <3>2
    <3>4. \A d : d = ApplyOverrides([m[Len(Declared)] EXCEPT !.noted = x], request.overrides) => DraftSays(d)
      BY <1>1, <3>3, DraftTold
    <3> QED BY <3>1, <3>3, <3>4 DEF DraftSays
  <2> QED BY <1>1, <2>3, <2>4
<1>3. layers' # <<>> => /\ round = 1 /\ request.base = <<>>
                        /\ StackLike(layers', BuildLayers(Files))
  <2> SUFFICES ASSUME layers' # <<>>
               PROVE  /\ round = 1 /\ request.base = <<>>
                      /\ StackLike(layers', BuildLayers(Files))
    OBVIOUS
  <2>1. layers' = BuildLayers(Files) /\ Discovers
    BY <1>1
  <2>2. IsStack(BuildLayers(Files))
    BY <1>1, LayersOfRequest
  <2> QED BY <2>1, <2>2, StackIsLike DEF Discovers
<1>4. (layers # <<>> => /\ round = 1 /\ request.base = <<>> /\ StackLike(layers, BuildLayers(Files)))'
  BY <1>1, <1>3, FilesStay
<1> QED BY <1>1, <1>2, <1>4 DEF StagesTyped, PathsInOrder, Early

LEMMA FreezingIsTyped ==
    ASSUME RegistryTypeOK, ViewsAreCurrent, StagesSay, StagesTyped, PathsInOrder,
           FreezeDraft \/ OverlayPolicy
    PROVE  StagesTyped' /\ PathsInOrder'
<1>1. /\ UNCHANGED <<request, round, layers, draft, pathConfigs, selected, next, probe, outcomes>>
      /\ phase \in {"drafted", "frozen"} /\ phase' \in {"refused", "frozen", "settled"}
      /\ request \in Requests /\ round \in {1, 2}
  BY DEF FreezeDraft, OverlayPolicy, StagesSay
<1>2. \E c, ll : IsTable(c) /\ config' = Freeze(c, ll)
  <2>1. CASE FreezeDraft
    BY <2>1 DEF FreezeDraft, StagesTyped
  <2>2. CASE OverlayPolicy
    <3>1. \E ll : config' = Freeze(ApplyOverrides(config, Overlays), ll)
      BY <2>2 DEF OverlayPolicy
    <3>2. IsOverride(Overlays)
      BY <1>1, NothingOverrides, RequestsAssumption DEF Overlays
    <3>3. IsTable(ApplyOverrides(config, Overlays))
      BY <3>2, ApplyGivesTable DEF StagesTyped
    <3> QED BY <3>1, <3>3
  <2> QED BY <2>1, <2>2
<1>3. PICK c, ll : IsTable(c) /\ config' = Freeze(c, ll)
  BY <1>2
<1>4. IsTable(config') /\ config'.include \subseteq FileTypes /\ config'.exclude \subseteq FileTypes
  BY <1>3, FrozenIsTyped
<1>5. DOMAIN pathConfigs = {}
  BY <1>1 DEF PathsInOrder, Early
<1>6. BuildLayers(Files)' = BuildLayers(Files)
  BY <1>1, FilesStay
<1>7. StagesTyped'
  BY <1>1, <1>4, <1>5, <1>6 DEF StagesTyped, Early
<1> QED BY <1>1, <1>7 DEF PathsInOrder, Early

LEMMA SelectIsTyped ==
    ASSUME StagesSay, StagesTyped, PathsInOrder, Select
    PROVE  StagesTyped' /\ PathsInOrder'
<1>1. /\ UNCHANGED <<request, round, layers, draft, config, next, probe, outcomes>>
      /\ phase = "settled" /\ request \in Requests
      /\ phase' = IF selected' = <<>> THEN "done" ELSE IF layers # <<>> THEN "scoping" ELSE "running"
      /\ pathConfigs' = IF layers # <<>> THEN <<>> ELSE [p \in ToSet(selected') |-> config]
  BY DEF Select, StagesSay
<1>2. selected' \in Seq(Paths)
  <2>1. request.paths \in Seq(Paths)
    BY <1>1, RequestsAssumption
  <2> DEFINE at == {i \in DOMAIN request.paths :
                     KeptByType(request.paths[i], config.include,
                                NamedBy(config.include), NamedBy(config.exclude))}
  <2>2. selected' = Picked(request.paths, at) /\ at \in SUBSET DOMAIN request.paths
    BY DEF Select
  <2> HIDE DEF at
  <2> QED BY <2>1, <2>2, PickedSeq
<1>3. Len(selected') \in Nat /\ (selected' # <<>> => 1 \in 1 .. Len(selected'))
      /\ DOMAIN selected' = 1 .. Len(selected')
  BY <1>2
<1>4. BuildLayers(Files)' = BuildLayers(Files)
  BY <1>1, FilesStay
<1>5. next = 1 /\ DOMAIN outcomes = {} /\ probe = <<>>
  BY <1>1 DEF PathsInOrder, Early
<1>6. CASE layers # <<>>
  <2>1. DOMAIN pathConfigs' = {} /\ phase' \in {"done", "scoping"}
        /\ {selected'[i] : i \in 1 .. 1 - 1} = {}
    BY <1>1, <1>6
  <2> QED BY <1>1, <1>2, <1>3, <1>4, <1>5, <1>6, <2>1 DEF StagesTyped, PathsInOrder, Early
<1>7. CASE layers = <<>>
  <2>1. /\ DOMAIN pathConfigs' = {selected'[i] : i \in 1 .. Len(selected')}
        /\ \A p \in DOMAIN pathConfigs' : pathConfigs'[p] = config
        /\ phase' \in {"done", "running"} /\ (phase' = "running" => selected' # <<>>)
    BY <1>1, <1>3, <1>7 DEF ToSet
  <2> QED BY <1>1, <1>2, <1>3, <1>4, <1>5, <1>7, <2>1 DEF StagesTyped, PathsInOrder, Early
<1> QED BY <1>6, <1>7

\* The configuration of a path, as ScopePath finds it.
OwnConfig(p) == [Freeze(MergedFor(p), {}) EXCEPT !.policy = config.policy, !.byType = config.byType]

\* With policies of its own a configuration keeps its other fields.
LEMMA OwnFields ==
    ASSUME NEW z, IsTable(z), NEW X, NEW Y
    PROVE  LET c == [z EXCEPT !.policy = X, !.byType = Y]
           IN  c = [policy |-> X, byType |-> Y, header |-> z.header, format |-> z.format,
                    values |-> z.values, patterns |-> z.patterns, sources |-> z.sources,
                    include |-> z.include, exclude |-> z.exclude, noted |-> z.noted]
<1>1. z = [policy |-> z.policy, byType |-> z.byType, header |-> z.header, format |-> z.format,
           values |-> z.values, patterns |-> z.patterns, sources |-> z.sources,
           include |-> z.include, exclude |-> z.exclude, noted |-> z.noted]
  BY DEF IsTable
<1> DEFINE c == [z EXCEPT !.policy = X, !.byType = Y]
<1>2. c = [z EXCEPT !.policy = X, !.byType = Y]
  OBVIOUS
<1> HIDE DEF c
<1>3. c = [policy |-> X, byType |-> Y, header |-> z.header, format |-> z.format,
           values |-> z.values, patterns |-> z.patterns, sources |-> z.sources,
           include |-> z.include, exclude |-> z.exclude, noted |-> z.noted]
  BY <1>1, <1>2
<1> QED BY <1>3 DEF c

\* The configuration of a path has the policies of the run, and filters of file types.
LEMMA OwnIsTyped ==
    ASSUME RegistryTypeOK, ViewsAreCurrent, StagesSay, StagesTyped, layers # <<>>, NEW p
    PROVE  /\ OwnConfig(p).include \subseteq FileTypes /\ OwnConfig(p).exclude \subseteq FileTypes
           /\ OwnConfig(p).policy = config.policy /\ OwnConfig(p).byType = config.byType
<1> DEFINE z == Freeze(MergedFor(p), {})
<1>1. IsStack(BuildLayers(Files)) /\ StackLike(layers, BuildLayers(Files))
  BY LayersOfRequest DEF StagesSay, StagesTyped
<1>2. IsTable(MergedFor(p))
  <2> DEFINE whole == BuildLayers(Files)
  <2> HIDE DEF whole
  <2>1. IsStack(whole) /\ StackLike(layers, whole)
    BY <1>1 DEF whole
  <2> QED BY <2>1, MergedForIsTable
<1>3. IsTable(z) /\ z.include \subseteq FileTypes /\ z.exclude \subseteq FileTypes
  BY <1>2, FrozenIsTyped
<1>4. OwnConfig(p) = [z EXCEPT !.policy = config.policy, !.byType = config.byType]
  BY DEF OwnConfig
<1> HIDE DEF z
<1>5. OwnConfig(p) = [policy |-> config.policy, byType |-> config.byType, header |-> z.header,
                      format |-> z.format, values |-> z.values, patterns |-> z.patterns,
                      sources |-> z.sources, include |-> z.include, exclude |-> z.exclude,
                      noted |-> z.noted]
  BY <1>3, <1>4, OwnFields
<1> QED BY <1>3, <1>5

\* Configuring a path keeps the shape, and goes on to the next one.
LEMMA ScopeIsTyped ==
    ASSUME RegistryTypeOK, ViewsAreCurrent, StagesSay, StagesTyped, PathsInOrder, ScopePath
    PROVE  StagesTyped' /\ PathsInOrder'
<1> DEFINE p == selected[next]
<1>1. /\ UNCHANGED <<request, round, draft, config, selected, probe, outcomes>>
      /\ phase = "scoping"
      /\ IF next < Len(selected) THEN next' = next + 1 /\ UNCHANGED phase
         ELSE next' = 1 /\ phase' = "running"
      /\ layers' = Normalized(p)
      /\ pathConfigs' = [q \in DOMAIN pathConfigs \cup {p} |->
                           IF q = p THEN OwnConfig(p) ELSE pathConfigs[q]]
  BY DEF ScopePath, OwnConfig, MergedFor, MergedIn
<1>2. /\ next \in 1 .. Len(selected) /\ DOMAIN outcomes = {} /\ layers # <<>> /\ probe = <<>>
      /\ DOMAIN pathConfigs = {selected[i] : i \in 1 .. next - 1}
      /\ Len(selected) \in Nat
  BY <1>1 DEF PathsInOrder, StagesTyped
<1>3. /\ OwnConfig(p).include \subseteq FileTypes /\ OwnConfig(p).exclude \subseteq FileTypes
      /\ OwnConfig(p).policy = config.policy /\ OwnConfig(p).byType = config.byType
  BY <1>2, OwnIsTyped
<1>4. round = 1 /\ request.base = <<>> /\ StackLike(layers', BuildLayers(Files)) /\ layers' # <<>>
  <2> DEFINE whole == BuildLayers(Files)
  <2>1. IsStack(whole) /\ StackLike(layers, whole) /\ round = 1 /\ request.base = <<>>
    BY <1>2, LayersOfRequest DEF StagesSay, StagesTyped
  <2> HIDE DEF whole, p
  <2>2. \A i \in 1 .. Len(whole) : IsTable(whole[i].config)
    BY <2>1 DEF IsStack
  <2>3. StackLike(Normalized(p), whole)
    BY <2>1, <2>2, NormalizedIsLike
  <2>4. StackLike(layers', whole)
    BY <1>1, <2>3 DEF p
  <2>5. layers' # <<>>
    BY <2>4 DEF StackLike
  <2> QED BY <2>1, <2>4, <2>5 DEF whole
<1>5. (layers # <<>> /\ round = 1 /\ request.base = <<>> /\ StackLike(layers, BuildLayers(Files)))'
  BY <1>1, <1>4, FilesStay
<1>6. DOMAIN pathConfigs' = {selected[i] : i \in 1 .. next}
  <2>1. DOMAIN pathConfigs' = DOMAIN pathConfigs \cup {p}
    BY <1>1
  <2>2. 1 .. next = (1 .. next - 1) \cup {next}
    BY <1>2
  <2> QED BY <1>2, <2>1, <2>2
<1>7. \A q \in DOMAIN pathConfigs' :
          /\ pathConfigs'[q].include \subseteq FileTypes /\ pathConfigs'[q].exclude \subseteq FileTypes
          /\ pathConfigs'[q].policy = config.policy /\ pathConfigs'[q].byType = config.byType
  <2> HIDE DEF p
  <2> QED BY <1>1, <1>3 DEF StagesTyped
<1> HIDE DEF p
<1>8. phase' \in {"scoping", "running"}
  BY <1>1
<1>9. StagesTyped'
  BY <1>1, <1>2, <1>5, <1>7, <1>8 DEF StagesTyped
<1>10. PathsInOrder'
  <2>1. CASE next < Len(selected)
    <3>1. next' = next + 1 /\ phase' = "scoping" /\ next' \in 1 .. Len(selected) /\ next' - 1 = next
      BY <1>1, <1>2, <2>1
    <3> QED BY <1>1, <1>2, <1>5, <1>6, <3>1 DEF PathsInOrder, Early
  <2>2. CASE ~(next < Len(selected))
    <3>1. next' = 1 /\ phase' = "running" /\ next = Len(selected) /\ 1 \in 1 .. Len(selected)
      BY <1>1, <1>2, <2>2
    <3> QED BY <1>1, <1>2, <1>6, <3>1 DEF PathsInOrder, Early
  <2> QED BY <2>1, <2>2
<1> QED BY <1>9, <1>10

\* A path that ends adds its outcome, and the run goes on to the next one.
LEMMA EndsIsTyped ==
    ASSUME StagesTyped, PathsInOrder, phase = "running", NEW outcome, Ends(outcome),
           UNCHANGED <<request, round, layers, draft, config, pathConfigs, selected>>
    PROVE  StagesTyped' /\ PathsInOrder'
<1>1. /\ next \in 1 .. Len(selected) /\ Len(selected) \in Nat
      /\ DOMAIN pathConfigs = {selected[i] : i \in 1 .. Len(selected)}
  BY DEF PathsInOrder, StagesTyped
<1>2. BuildLayers(Files)' = BuildLayers(Files)
  BY FilesStay
<1>3. phase' \in {"running", "done"} /\ probe' = <<>> /\ next' = next + 1
      /\ (phase' = "running" => next # Len(selected))
  BY DEF Ends
<1>4. DOMAIN outcomes' \subseteq DOMAIN pathConfigs
  BY <1>1 DEF Ends, Recorded, StagesTyped
<1>5. StagesTyped'
  BY <1>2, <1>3, <1>4 DEF StagesTyped
<1> QED BY <1>1, <1>3, <1>5 DEF PathsInOrder, Early

LEMMA ProbeIsTyped ==
    ASSUME StagesTyped, PathsInOrder, ProbePath
    PROVE  StagesTyped' /\ PathsInOrder'
<1>1. UNCHANGED <<request, round, layers, draft, config, pathConfigs, selected>> /\ phase = "running"
  BY DEF ProbePath
<1>2. (\E outcome : Ends(outcome)) \/ UNCHANGED <<outcomes, next, phase>>
  BY DEF ProbePath
<1>3. CASE UNCHANGED <<outcomes, next, phase>>
  <2>1. BuildLayers(Files)' = BuildLayers(Files)
    BY <1>1, FilesStay
  <2>2. StagesTyped'
    BY <1>1, <1>3, <2>1 DEF StagesTyped
  <2> QED BY <1>1, <1>3, <2>2 DEF PathsInOrder, Early
<1> QED BY <1>1, <1>2, <1>3, EndsIsTyped

LEMMA ResolveIsTyped ==
    ASSUME StagesTyped, PathsInOrder, ResolvePath
    PROVE  StagesTyped' /\ PathsInOrder'
<1>1. UNCHANGED <<request, round, layers, draft, config, pathConfigs, selected>> /\ phase = "running"
  BY DEF ResolvePath
<1>2. \E outcome : Ends(outcome)
  BY DEF ResolvePath
<1> QED BY <1>1, <1>2, EndsIsTyped

\* Every step keeps the shape of the state.
LEMMA StepIsTyped ==
    RegistryTypeOK /\ ViewsAreCurrent /\ StagesSay /\ StagesTyped /\ PathsInOrder /\ [Next]_vars
        => StagesTyped' /\ PathsInOrder'
<1> SUFFICES ASSUME RegistryTypeOK, ViewsAreCurrent, StagesSay, StagesTyped, PathsInOrder, [Next]_vars
             PROVE  StagesTyped' /\ PathsInOrder'
  OBVIOUS
<1>1. CASE UNCHANGED <<request, round, phase, layers, draft, config, pathConfigs, selected, next,
                       probe, outcomes>>
  <2>1. BuildLayers(Files)' = BuildLayers(Files)
    BY <1>1, FilesStay
  <2>2. StagesTyped'
    BY <1>1, <2>1 DEF StagesTyped
  <2> QED BY <1>1, <2>2 DEF PathsInOrder
<1>2. CASE Disturb \/ Proceed \/ UNCHANGED vars
  BY <1>1, <1>2 DEF Disturb, Proceed, vars, runVars
<1>3. CASE RunAgain
  <2>1. /\ phase' = "start" /\ next' = 1 /\ DOMAIN pathConfigs' = {} /\ DOMAIN outcomes' = {}
        /\ layers' = <<>> /\ UNCHANGED <<draft, config, selected, probe>> /\ phase = "done"
    BY <1>3 DEF RunAgain
  <2> QED BY <2>1 DEF StagesTyped, PathsInOrder, Early
<1> QED BY <1>2, <1>3, DraftIsTyped, FreezingIsTyped, SelectIsTyped, ScopeIsTyped, ProbeIsTyped,
           ResolveIsTyped DEF Next

\* So every run has this shape, and says what it was told.
LEMMA StagesAlwaysTyped ==
    Spec => [](RegistryTypeOK /\ ViewsAreCurrent /\ StagesSay /\ StagesTyped /\ PathsInOrder)
<1> QED BY TypedStart, StepIsTyped, StagesAlwaysSay, PTL DEF Spec

-----------------------------------------------------------------------------
(* Scores and kinds: the best of the candidates has the best claim. *)

\* The highest of four scores is one of them, and none is higher.
LEMMA HighestOfFour ==
    ASSUME NEW a \in Nat, NEW b \in Nat, NEW c \in Nat, NEW d \in Nat
    PROVE  LET h == Highest({a, b, c, d})
           IN  h \in {a, b, c, d} /\ a <= h /\ b <= h /\ c <= h /\ d <= h
<1>1. \E s \in {a, b, c, d} : \A other \in {a, b, c, d} : other <= s
  <2>1. \E s \in {a, b} : a <= s /\ b <= s
    OBVIOUS
  <2>2. \E s \in {c, d} : c <= s /\ d <= s
    OBVIOUS
  <2>3. PICK s \in {a, b} : a <= s /\ b <= s
    BY <2>1
  <2>4. PICK z \in {c, d} : c <= z /\ d <= z
    BY <2>2
  <2>5. CASE s <= z
    <3>1. \A other \in {a, b, c, d} : other <= z
      BY <2>3, <2>4, <2>5
    <3> QED BY <3>1
  <2>6. CASE ~(s <= z)
    <3>1. \A other \in {a, b, c, d} : other <= s
      BY <2>3, <2>4, <2>6
    <3> QED BY <3>1
  <2> QED BY <2>5, <2>6
<1> QED BY <1>1 DEF Highest

\* The scores of each kind of claim: no two kinds overlap, whatever the lengths.
Band(kind) == CASE kind = 4 -> 101 .. 201
                [] kind = 3 -> 90 .. 91
                [] kind = 2 -> 70 .. 71
                [] kind = 1 -> 51 .. 61
                [] OTHER    -> 0 .. 1

\* A score lies in the band of the best kind of claim the type has.
LEMMA ScoreInBand ==
    ASSUME NEW t \in FileTypes, NEW p \in Paths
    PROVE  Score(t, p) \in Band(Kind(t, p)) /\ Kind(t, p) \in 0 .. 4
<1> DEFINE n == Rules[t][p].filename
           e == Rules[t][p].extension
           a == Points(ByFilename(t, p), 100 + Capped(n, 100))
           b == Points(Hit(t, p), 90)
           c == Points(ByPattern(t, p), 70)
           d == Points(ByExtension(t, p), 50 + Capped(e, 10))
           h == Highest({a, b, c, d})
           more == Points(~Traits[t].skip, 1)
<1>1. n \in Nat /\ e \in Nat
  <2>1. Rules[t][p] \in [extension : Nat, filename : Nat, pattern : BOOLEAN]
    BY TraitsAssumption
  <2> QED BY <2>1
<1>2. Capped(n, 100) \in 0 .. 100 /\ (n > 0 => Capped(n, 100) > 0)
  BY <1>1 DEF Capped
<1>3. Capped(e, 10) \in 0 .. 10 /\ (e > 0 => Capped(e, 10) > 0)
  BY <1>1 DEF Capped
<1>4. IF ByFilename(t, p) THEN a \in 101 .. 200 ELSE a = 0
  BY <1>2 DEF ByFilename, Points
<1>5. IF Hit(t, p) THEN b = 90 ELSE b = 0
  BY DEF Points
<1>6. IF ByPattern(t, p) THEN c = 70 ELSE c = 0
  BY DEF Points
<1>7. IF ByExtension(t, p) THEN d \in 51 .. 60 ELSE d = 0
  BY <1>3 DEF ByExtension, Points
<1>8. more \in {0, 1}
  BY DEF Points
<1>9. Score(t, p) = h + more
  BY DEF Score
<1> HIDE DEF a, b, c, d, more
<1>10. a \in Nat /\ b \in Nat /\ c \in Nat /\ d \in Nat
  BY <1>4, <1>5, <1>6, <1>7
<1>11. h \in {a, b, c, d} /\ a <= h /\ b <= h /\ c <= h /\ d <= h
  BY <1>10, HighestOfFour
<1> HIDE DEF h
<1>12. CASE ByFilename(t, p)
  BY <1>4, <1>5, <1>6, <1>7, <1>8, <1>9, <1>11, <1>12 DEF Band, Kind
<1>13. CASE ~ByFilename(t, p) /\ Hit(t, p)
  BY <1>4, <1>5, <1>6, <1>7, <1>8, <1>9, <1>11, <1>13 DEF Band, Kind
<1>14. CASE ~ByFilename(t, p) /\ ~Hit(t, p) /\ ByPattern(t, p)
  BY <1>4, <1>5, <1>6, <1>7, <1>8, <1>9, <1>11, <1>14 DEF Band, Kind
<1>15. CASE ~ByFilename(t, p) /\ ~Hit(t, p) /\ ~ByPattern(t, p)
  BY <1>4, <1>5, <1>6, <1>7, <1>8, <1>9, <1>11, <1>15 DEF Band, Kind
<1> QED BY <1>12, <1>13, <1>14, <1>15

\* So a higher score is never a worse kind.
LEMMA ScoreRanks ==
    ASSUME NEW t \in FileTypes, NEW u \in FileTypes, NEW p \in Paths, Score(u, p) <= Score(t, p)
    PROVE  Kind(u, p) <= Kind(t, p)
BY ScoreInBand DEF Band

\* Of any candidates there is a first, and none of the others scores higher.
LEMMA BestScores ==
    ASSUME NEW S \in SUBSET FileTypes, S # {}, NEW p \in Paths
    PROVE  Best(S, p) \in S /\ \A u \in S : Score(u, p) <= Score(Best(S, p), p)
<1>1. \A t \in S : Score(t, p) \in 0 .. 201
  <2> TAKE t \in S
  <2>1. Score(t, p) \in Band(Kind(t, p)) /\ Kind(t, p) \in 0 .. 4
    BY ScoreInBand
  <2> DEFINE kind == Kind(t, p)
             score == Score(t, p)
  <2> HIDE DEF kind, score
  <2>2. score \in Band(kind) /\ kind \in 0 .. 4
    BY <2>1 DEF kind, score
  <2>3. score \in 0 .. 201
    BY <2>2 DEF Band
  <2> QED BY <2>3 DEF score
<1> DEFINE scores == {Score(t, p) + 1 : t \in S}
<1>2. scores \in SUBSET (1 .. 202) /\ scores # {}
  BY <1>1
<1>3. \E s \in scores : \A x \in scores : x <= s
  <2> HIDE DEF scores
  <2> QED BY <1>2, MaxOfNumbers
<1>4. PICK best \in S : \A t \in S : Score(t, p) <= Score(best, p)
  <2>1. PICK best \in S : \A x \in scores : x <= Score(best, p) + 1
    BY <1>3
  <2>2. \A t \in S : Score(t, p) + 1 <= Score(best, p) + 1
    BY <2>1
  <2>3. \A t \in S : Score(t, p) <= Score(best, p)
    <3> TAKE t \in S
    <3> DEFINE score == Score(t, p)
               top == Score(best, p)
    <3>1. score \in Nat /\ top \in Nat /\ score + 1 <= top + 1
      BY <1>1, <2>2
    <3> HIDE DEF score, top
    <3>2. score <= top
      BY <3>1
    <3> QED BY <3>2 DEF score, top
  <2> QED BY <2>3
<1> DEFINE tops == {t \in S : Score(t, p) = Score(best, p)}
           places == {Place[t] : t \in tops}
<1>5. \A t \in FileTypes : Place[t] \in Nat
  BY TraitsAssumption
<1>6. places \in SUBSET Nat /\ places # {}
  BY <1>5
<1>7. \E x \in places : \A y \in places : x <= y
  <2> HIDE DEF places
  <2> QED BY <1>6, LeastOfNumbers
<1>8. PICK first \in tops : \A u \in tops : Place[first] <= Place[u]
  BY <1>7
<1>9. \A u \in S \ {first} : \/ Score(first, p) > Score(u, p)
                             \/ Score(first, p) = Score(u, p) /\ Place[first] < Place[u]
  <2> SUFFICES ASSUME NEW u \in S \ {first}, ~(Score(first, p) > Score(u, p))
               PROVE  Score(first, p) = Score(u, p) /\ Place[first] < Place[u]
    OBVIOUS
  <2>1. Score(first, p) = Score(best, p) /\ Score(u, p) <= Score(best, p) /\ first \in S
    BY <1>4
  <2>2. Score(u, p) = Score(first, p) /\ u \in tops
    BY <1>1, <2>1
  <2>3. Place[first] # Place[u]
    BY TraitsAssumption, <2>1
  <2> QED BY <1>5, <1>8, <2>1, <2>2, <2>3
<1>10. \A u \in S \ {Best(S, p)} : \/ Score(Best(S, p), p) > Score(u, p)
                                   \/ Score(Best(S, p), p) = Score(u, p) /\ Place[Best(S, p)] < Place[u]
  BY <1>8, <1>9 DEF Best
<1>11. Best(S, p) \in S
  BY <1>8, <1>9 DEF Best
<1> QED BY <1>1, <1>10, <1>11

-----------------------------------------------------------------------------
(* What a path gets: the type that is chosen, and its policy. *)

\* A file type the filters of a path allow, and none that they allow has a better claim.
Chosen(p, t) ==
    /\ t \in FileTypes /\ Allowed(pathConfigs[p], t)
    /\ steady => \A u \in FreshTypes :
          Allowed(pathConfigs[p], u) /\ ShouldInclude(u, p) => Kind(u, p) <= Kind(t, p)

\* An outcome whose type is chosen, under the policy that was declared for it.
AnswerIsRight(p, o) ==
    /\ o.type # Nothing => Chosen(p, o.type)
    /\ steady /\ o.status = "RESOLVED" =>
         \A f \in Fields : Unordered(o.type) \/ o.policy[f] = DeclaredPolicy(o.type, f)

\* The probe at hand, and all that has been recorded.
AnswersAreRight ==
    /\ probe # <<>> => Chosen(selected[next], probe[1].type)
    /\ \A p \in DOMAIN outcomes : AnswerIsRight(p, outcomes[p])

\* Resolved filters name types in full: the candidates are the types they allow.
LEMMA CandidatesAllowed ==
    ASSUME NEW types \in SUBSET FileTypes, NEW p, NEW c,
           c.include \subseteq FileTypes, c.exclude \subseteq FileTypes
    PROVE  Candidates(types, p, c.include, c.exclude) =
               {t \in types : Allowed(c, t) /\ ShouldInclude(t, p)}
<1>1. \A t \in FileTypes : LocalId(t) \notin FileTypes
  BY BaseAssumption DEF LocalId
<1>2. \A t \in types : /\ PassesFilter(t, c.include) <=> t \in c.include
                       /\ PassesFilter(t, c.exclude) <=> t \in c.exclude
  BY <1>1 DEF PassesFilter
<1> QED BY <1>2 DEF Candidates, Allowed

\* The best of the candidates is chosen in this sense.
LEMMA BestIsChosen ==
    ASSUME RegistryTypeOK, ViewsAreCurrent, StagesTyped, NEW p \in DOMAIN pathConfigs, p \in Paths,
           NEW candidates, candidates # {},
           candidates = Candidates(KnownTypes, p, pathConfigs[p].include, pathConfigs[p].exclude)
    PROVE  Chosen(p, Best(candidates, p))
<1> DEFINE c == pathConfigs[p]
<1>1. KnownTypes = FreshTypes /\ FreshTypes \in SUBSET FileTypes
  BY ViewsTell
<1>2. c.include \subseteq FileTypes /\ c.exclude \subseteq FileTypes
  BY DEF StagesTyped
<1>3. candidates = {t \in FreshTypes : Allowed(c, t) /\ ShouldInclude(t, p)}
  <2> HIDE DEF c
  <2>1. candidates = Candidates(FreshTypes, p, c.include, c.exclude)
    BY <1>1 DEF c
  <2> QED BY <1>1, <1>2, <2>1, CandidatesAllowed
<1> DEFINE best == Best(candidates, p)
<1>4. candidates \in SUBSET FileTypes
  BY <1>1, <1>3
<1>5. best \in candidates /\ \A u \in candidates : Score(u, p) <= Score(best, p)
  BY <1>4, BestScores
<1> HIDE DEF best
<1>6. \A u \in candidates : Kind(u, p) <= Kind(best, p)
  BY <1>4, <1>5, ScoreRanks
<1>7. best \in FileTypes /\ Allowed(pathConfigs[p], best)
  BY <1>3, <1>4, <1>5
<1>8. \A u \in FreshTypes : Allowed(pathConfigs[p], u) /\ ShouldInclude(u, p) => Kind(u, p) <= Kind(best, p)
  BY <1>3, <1>6
<1> QED BY <1>7, <1>8 DEF Chosen, best

\* A path that ends with a right answer leaves all answers right.
LEMMA EndsIsRight ==
    ASSUME AnswersAreRight, NEW outcome, Ends(outcome), AnswerIsRight(selected[next], outcome),
           UNCHANGED <<request, steady, pathConfigs, selected>>, FreshTypes' = FreshTypes
    PROVE  AnswersAreRight'
<1>1. /\ \A t : Unordered(t)' <=> Unordered(t)
      /\ \A t, f : DeclaredPolicy(t, f)' = DeclaredPolicy(t, f)
  BY ToldStays
<1>2. \A p, t : Chosen(p, t) => Chosen(p, t)'
  BY DEF Chosen
<1>3. \A p, o : AnswerIsRight(p, o) => AnswerIsRight(p, o)'
  BY <1>1, <1>2 DEF AnswerIsRight
<1>4. \A p \in DOMAIN outcomes' : AnswerIsRight(p, outcomes'[p])
  BY DEF AnswersAreRight, Ends, Recorded
<1>5. \A p \in DOMAIN outcomes' : AnswerIsRight(p, outcomes[p])'
  BY <1>3, <1>4
<1> QED BY <1>5 DEF AnswersAreRight, Ends

\* Probing a path finds a type that is chosen, or ends without one.
LEMMA ProbeIsRight ==
    ASSUME RegistryTypeOK, ViewsAreCurrent, StagesTyped, PathsInOrder, AnswersAreRight, ProbePath,
           FreshTypes' = FreshTypes
    PROVE  AnswersAreRight'
<1> DEFINE p == selected[next]
           candidates == Candidates(KnownTypes, p, pathConfigs[p].include, pathConfigs[p].exclude)
<1>1. UNCHANGED <<request, steady, pathConfigs, selected>> /\ phase = "running"
  BY DEF ProbePath
<1>2. p \in DOMAIN pathConfigs /\ p \in Paths
  BY <1>1 DEF PathsInOrder, StagesTyped
<1>3. AnswerIsRight(p, Unsupported) /\ AnswerIsRight(p, Raised)
  BY DEF AnswerIsRight, Unsupported, Raised, NoOutcome
<1>4. CASE Ends(Unsupported) \/ Ends(Raised)
  BY <1>1, <1>3, <1>4, EndsIsRight
<1>5. CASE /\ candidates # {} /\ UNCHANGED <<outcomes, next>>
           /\ probe' = <<[type |-> Best(candidates, p), proc |-> BindingOf(Best(candidates, p))]>>
  <2>1. Chosen(p, Best(candidates, p))
    BY <1>2, <1>5, BestIsChosen
  <2>2. Chosen(p, probe'[1].type)
    BY <1>5, <2>1
  <2>3. \A q, t : Chosen(q, t) => Chosen(q, t)'
    BY <1>1 DEF Chosen
  <2>4. Chosen(selected[next], probe[1].type)'
    BY <1>1, <1>5, <2>2, <2>3
  <2>5. /\ \A t : Unordered(t)' <=> Unordered(t)
        /\ \A t, f : DeclaredPolicy(t, f)' = DeclaredPolicy(t, f)
    BY <1>1, ToldStays
  <2>6. \A q, o : AnswerIsRight(q, o) => AnswerIsRight(q, o)'
    BY <1>1, <2>3, <2>5 DEF AnswerIsRight
  <2> QED BY <1>5, <2>4, <2>6 DEF AnswersAreRight
<1>6. \/ Ends(Unsupported) \/ Ends(Raised)
      \/ /\ candidates # {} /\ UNCHANGED <<outcomes, next>>
         /\ probe' = <<[type |-> Best(candidates, p), proc |-> BindingOf(Best(candidates, p))]>>
  BY DEF ProbePath
<1> QED BY <1>4, <1>5, <1>6

\* Looking the probe's type up again keeps it or loses it, and never finds another.
LEMMA ResolveIsRight ==
    ASSUME RegistryTypeOK, ViewsAreCurrent, StagesSay, StagesTyped, PathsInOrder, AnswersAreRight,
           ResolvePath, FreshTypes' = FreshTypes
    PROVE  AnswersAreRight'
<1> DEFINE p == selected[next]
           t == probe[1].type
           known == t \in KnownTypes
           Status(s) == [NoOutcome EXCEPT !.status = s, !.type = IF known THEN t ELSE Nothing]
           policy == EffectivePolicy(pathConfigs[p], t)
           resolved == [Status("RESOLVED") EXCEPT !.proc = BindingOf(t), !.policy = policy]
<1>1. UNCHANGED <<request, steady, pathConfigs, selected>> /\ phase = "running" /\ probe # <<>>
  BY DEF ResolvePath
<1>2. p \in DOMAIN pathConfigs /\ p \in Paths
  BY <1>1 DEF PathsInOrder, StagesTyped
<1>3. Chosen(p, t)
  BY <1>1 DEF AnswersAreRight
<1>4. ASSUME NEW s, s # "RESOLVED" PROVE AnswerIsRight(p, Status(s))
  <2>1. Status(s).status = s /\ Status(s).type \in {t, Nothing}
    BY DEF NoOutcome
  <2> HIDE DEF Status
  <2> QED BY <1>3, <1>4, <2>1 DEF AnswerIsRight
<1>5. AnswerIsRight(p, Raised)
  BY DEF AnswerIsRight, Raised, NoOutcome
<1>6. ASSUME known PROVE AnswerIsRight(p, resolved)
  <2>1. resolved.type = t /\ resolved.policy = policy
    BY <1>6 DEF NoOutcome
  <2>2. policy = EffectivePolicy(config, t)
    BY <1>2 DEF StagesTyped, EffectivePolicy
  <2>3. t \in FreshTypes
    BY <1>6, ViewsTell
  <2>4. steady => \A f \in Fields : Unordered(t) \/ policy[f] = DeclaredPolicy(t, f)
    BY <1>1, <2>2, <2>3 DEF StagesSay, RunSays
  <2> HIDE DEF resolved, policy, t
  <2> QED BY <1>3, <2>1, <2>4 DEF AnswerIsRight
<1>7. \E outcome : Ends(outcome) /\ AnswerIsRight(p, outcome)
  <2>1. CASE ~known \/ Traits[t].skip \/ probe[1].proc = Nothing
    <3>1. Ends(Status(IF known /\ Traits[t].skip THEN "HEADERS_UNSUPPORTED" ELSE "NO_PROCESSOR"))
      BY <2>1 DEF ResolvePath
    <3> HIDE DEF Status
    <3> QED BY <1>4, <3>1
  <2>2. CASE ~(~known \/ Traits[t].skip \/ probe[1].proc = Nothing)
    <3>1. Ends(IF Dangling # {} THEN Raised
               ELSE IF BindingOf(t) = Nothing THEN Status("NO_PROCESSOR") ELSE resolved)
      BY <2>2 DEF ResolvePath
    <3>2. known
      BY <2>2
    <3> HIDE DEF Status, resolved
    <3> QED BY <1>4, <1>5, <1>6, <3>1, <3>2
  <2> QED BY <2>1, <2>2
<1> QED BY <1>1, <1>7, EndsIsRight

\* Every step keeps the answers right.
LEMMA StepIsRight ==
    RegistryTypeOK /\ ViewsAreCurrent /\ StagesSay /\ StagesTyped /\ PathsInOrder
        /\ PathsInOrder' /\ AnswersAreRight /\ [Next]_vars => AnswersAreRight'
<1> SUFFICES ASSUME RegistryTypeOK, ViewsAreCurrent, StagesSay, StagesTyped, PathsInOrder,
                    PathsInOrder', AnswersAreRight, [Next]_vars
             PROVE  AnswersAreRight'
  OBVIOUS
<1>1. ASSUME DOMAIN outcomes' = {}, probe' = <<>>
      PROVE  AnswersAreRight'
  BY <1>1 DEF AnswersAreRight
<1>2. CASE Disturb \/ Proceed
  <2>1. steady' = FALSE /\ UNCHANGED <<probe, outcomes, selected, next, pathConfigs>>
    BY <1>2 DEF Disturb, Proceed
  <2> QED BY <2>1 DEF AnswersAreRight, AnswerIsRight, Chosen
<1>3. CASE Draft \/ FreezeDraft \/ OverlayPolicy \/ Select \/ ScopePath
  <2>1. phase \in Early \cup {"scoping"} /\ phase # "running" /\ UNCHANGED <<probe, outcomes>>
    BY <1>3 DEF Draft, FreezeDraft, OverlayPolicy, Select, ScopePath, Early
  <2>2. DOMAIN outcomes' = {} /\ probe' = <<>>
    BY <2>1 DEF PathsInOrder
  <2> QED BY <1>1, <2>2
<1>4. CASE RunAgain
  <2>1. DOMAIN outcomes' = {} /\ probe' = <<>>
    BY <1>4 DEF RunAgain, PathsInOrder
  <2> QED BY <1>1, <2>1
<1>5. CASE ~(Disturb \/ Proceed) /\ (ProbePath \/ ResolvePath \/ UNCHANGED vars)
  <2>1. FreshTypes' = FreshTypes
    BY <1>5, RunReads DEF FreshTypes
  <2>2. CASE UNCHANGED vars
    <3>1. UNCHANGED <<request, steady, pathConfigs, selected, next, probe, outcomes>>
      BY <2>2 DEF vars, runVars
    <3>2. /\ \A t : Unordered(t)' <=> Unordered(t)
          /\ \A t, f : DeclaredPolicy(t, f)' = DeclaredPolicy(t, f)
      BY <3>1, ToldStays
    <3>3. \A q, t : Chosen(q, t) => Chosen(q, t)'
      BY <2>1, <3>1 DEF Chosen
    <3>4. \A q, o : AnswerIsRight(q, o) => AnswerIsRight(q, o)'
      BY <3>1, <3>2, <3>3 DEF AnswerIsRight
    <3> QED BY <3>1, <3>3, <3>4 DEF AnswersAreRight
  <2> QED BY <1>5, <2>1, <2>2, ProbeIsRight, ResolveIsRight
<1> QED BY <1>2, <1>3, <1>4, <1>5 DEF Next

\* Right answers are what the property asks for.
LEMMA RightAnswers ==
    ASSUME RaisesAreExplained, AnswersAreRight
    PROVE  FileGetsItsTypeAndPolicy
BY DEF AnswersAreRight, AnswerIsRight, Chosen, FileGetsItsTypeAndPolicy

(* A file gets a type that its filters allow, and while nobody changes the registries
   none of a better kind is allowed, and the policy it is processed under is the one
   declared for that type: for any rules, lengths of names and order of types. *)
THEOREM FilesGetTheirTypes == Spec => []FileGetsItsTypeAndPolicy
<1>1. Init => AnswersAreRight
  BY DEF Init, AnswersAreRight
<1>2. Spec => []AnswersAreRight
  BY <1>1, StepIsRight, StagesAlwaysTyped, PTL DEF Spec
<1>3. RaisesAreExplained /\ AnswersAreRight => FileGetsItsTypeAndPolicy
  BY RightAnswers
<1> QED BY <1>2, <1>3, LookupsDoNotRaise, PTL

-----------------------------------------------------------------------------
(* Layers that name the same types freeze to the same configuration. *)

\* The pattern sources that freezing keeps.
Unglobbed(sources) == Picked(sources, {i \in DOMAIN sources : sources[i] \notin Globs})

\* Freezing keeps the pattern sources without glob characters.
LEMMA FrozenSources ==
    ASSUME NEW c, IsTable(c), NEW ll
    PROVE  Freeze(c, ll).sources = Unglobbed(c.sources)
<1> DEFINE s == Sanitize(c, ll)
           kept == Unglobbed(c.sources)
           types == NamedBy(DOMAIN c.byType)
           entries == [t \in types |-> Entry(c.byType, t, ll)]
           include == NamedBy(c.include)
           exclude == NamedBy(c.exclude)
<1>1. c = [policy |-> c.policy, byType |-> c.byType, header |-> c.header, format |-> c.format,
           values |-> c.values, patterns |-> c.patterns, sources |-> c.sources,
           include |-> c.include, exclude |-> c.exclude, noted |-> c.noted]
  BY DEF IsTable
<1>2. \E noted : s = [c EXCEPT !.include = include, !.exclude = exclude, !.sources = kept,
                               !.byType = entries, !.noted = noted]
  BY DEF Sanitize, Unglobbed
<1> HIDE DEF s, kept, types, entries, include, exclude
<1>3. /\ s = [policy |-> s.policy, byType |-> s.byType, header |-> s.header, format |-> s.format,
              values |-> s.values, patterns |-> s.patterns, sources |-> s.sources,
              include |-> s.include, exclude |-> s.exclude, noted |-> s.noted]
      /\ s.sources = kept
  BY <1>1, <1>2
<1> DEFINE policy == Overlay(PolicyDefaults, s.policy)
           z == Freeze(c, ll)
<1>4. \E x : z = [s EXCEPT !.policy = policy, !.byType = x]
  BY DEF Freeze, s
<1> HIDE DEF policy, z
<1>5. z.sources = s.sources
  BY <1>3, <1>4
<1> QED BY <1>3, <1>5 DEF z, kept

\* What c and d are frozen into differs at most in what is noted.
Similar(c, d) ==
    /\ c.policy = d.policy /\ c.byType = d.byType /\ c.header = d.header /\ c.format = d.format
    /\ c.values = d.values /\ c.patterns = d.patterns /\ c.sources = d.sources
    /\ (c.include = {} <=> d.include = {}) /\ NamedBy(c.include) = NamedBy(d.include)
    /\ (c.exclude = {} <=> d.exclude = {}) /\ NamedBy(c.exclude) = NamedBy(d.exclude)

\* Similar drafts over similar drafts merge into similar ones, one layer or many.
LEMMA MergeIsSimilar ==
    ASSUME NEW a, NEW b, NEW c, NEW d, Similar(a, b), Similar(c, d)
    PROVE  Similar(MergeWith(a, c), MergeWith(b, d))
<1> DEFINE x == MergeWith(a, c)
           y == MergeWith(b, d)
<1>1. /\ x.policy = Overlay(a.policy, c.policy) /\ y.policy = Overlay(b.policy, d.policy)
      /\ x.byType = Union(a.byType, c.byType, Overlay) /\ y.byType = Union(b.byType, d.byType, Overlay)
      /\ x.header = OrElse(c.header, a.header) /\ y.header = OrElse(d.header, b.header)
      /\ x.format = Overlay(a.format, c.format) /\ y.format = Overlay(b.format, d.format)
      /\ x.values = Union(a.values, c.values, Latter) /\ y.values = Union(b.values, d.values, Latter)
      /\ x.patterns = a.patterns \o c.patterns /\ y.patterns = b.patterns \o d.patterns
      /\ x.sources = a.sources \o c.sources /\ y.sources = b.sources \o d.sources
      /\ x.include = OrElse(c.include, a.include) /\ y.include = OrElse(d.include, b.include)
      /\ x.exclude = OrElse(c.exclude, a.exclude) /\ y.exclude = OrElse(d.exclude, b.exclude)
  BY DEF MergeWith
<1> HIDE DEF x, y
<1>2. /\ x.policy = y.policy /\ x.header = y.header /\ x.format = y.format
      /\ x.patterns = y.patterns /\ x.sources = y.sources
  BY <1>1 DEF Similar
<1>3. x.byType = y.byType /\ x.values = y.values
  BY <1>1 DEF Similar, Union
<1>4. (x.include = {} <=> y.include = {}) /\ NamedBy(x.include) = NamedBy(y.include)
  BY <1>1 DEF Similar, OrElse
<1>5. (x.exclude = {} <=> y.exclude = {}) /\ NamedBy(x.exclude) = NamedBy(y.exclude)
  BY <1>1 DEF Similar, OrElse
<1> QED BY <1>2, <1>3, <1>4, <1>5 DEF Similar, x, y

LEMMA MergesAreSimilar ==
    ASSUME NEW S, NEW s \in Seq(S), NEW T, NEW t \in Seq(T), s # <<>>, Len(t) = Len(s),
           \A i \in 1 .. Len(s) : Similar(s[i].config, t[i].config)
    PROVE  Similar(MergeLayers(s), MergeLayers(t))
<1>0. t # <<>> /\ Len(s) \in Nat \ {0}
  OBVIOUS
<1>1. PICK m : /\ m[1] = s[1].config
               /\ \A k \in 2 .. Len(s) : m[k] = MergeWith(m[k - 1], s[k].config)
               /\ MergeLayers(s) = m[Len(s)]
  BY MergeByLayers
<1>2. PICK w : /\ w[1] = t[1].config
               /\ \A k \in 2 .. Len(t) : w[k] = MergeWith(w[k - 1], t[k].config)
               /\ MergeLayers(t) = w[Len(t)]
  BY <1>0, MergeByLayers
<1> DEFINE G == {k \in Nat : k + 1 \in 1 .. Len(s) => Similar(m[k + 1], w[k + 1])}
<1>3. 0 \in G
  BY <1>0, <1>1, <1>2
<1>4. ASSUME NEW k \in Nat, k \in G PROVE k + 1 \in G
  <2> DEFINE n == k + 1 + 1
  <2>1. SUFFICES ASSUME n \in 1 .. Len(s) PROVE Similar(m[n], w[n])
    OBVIOUS
  <2>2. n \in 2 .. Len(s) /\ n - 1 = k + 1 /\ k + 1 \in 1 .. Len(s)
    BY <1>0, <2>1
  <2>3. Similar(m[n - 1], w[n - 1])
    BY <1>4, <2>2
  <2> HIDE DEF n
  <2>4. m[n] = MergeWith(m[n - 1], s[n].config) /\ w[n] = MergeWith(w[n - 1], t[n].config)
    BY <1>1, <1>2, <2>2
  <2> QED BY <2>1, <2>3, <2>4, MergeIsSimilar
<1>5. \A k \in Nat : k \in G
  <2> HIDE DEF G
  <2> QED BY <1>3, <1>4, Induction
<1> DEFINE n == Len(s)
<1>6. n - 1 \in Nat /\ n - 1 + 1 = n /\ n \in 1 .. n
  BY <1>0
<1>7. n - 1 \in G
  <2> HIDE DEF G, n
  <2> QED BY <1>5, <1>6
<1>8. Similar(m[n], w[n])
  <2>1. n - 1 + 1 \in 1 .. Len(s) => Similar(m[n - 1 + 1], w[n - 1 + 1])
    BY <1>7
  <2>2. Len(s) = n
    OBVIOUS
  <2> HIDE DEF n
  <2> QED BY <1>6, <2>1, <2>2
<1> QED BY <1>1, <1>2, <1>8

\* Every filter of the layers is what the files say, or what that names.
FiltersKept(stack, whole) ==
    \A i \in 1 .. Len(whole) : \A x \in {"include", "exclude"} :
        stack[i].config[x] \in {whole[i].config[x], NamedBy(whole[i].config[x])}

\* A layer whose filters were rewritten to what they name is similar to what it was.
LEMMA LayersAreSimilar ==
    ASSUME RegistryTypeOK, ViewsAreCurrent,
           NEW stack, NEW whole, StackLike(stack, whole), IsStack(whole), FiltersKept(stack, whole),
           \A i \in 1 .. Len(whole) : \A x \in {"include", "exclude"} :
               whole[i].config[x] # {} => NamedBy(whole[i].config[x]) # {},
           NEW i \in 1 .. Len(whole)
    PROVE  Similar(stack[i].config, whole[i].config)
<1> DEFINE c == stack[i].config
           d == whole[i].config
<1>1. c = [d EXCEPT !.include = c.include, !.exclude = c.exclude] /\ IsTable(d)
  BY DEF StackLike, LayerLike, IsStack
<1>2. \A x \in {"include", "exclude"} : c[x] \in {d[x], NamedBy(d[x])} /\ (d[x] # {} => NamedBy(d[x]) # {})
  BY DEF FiltersKept
<1> HIDE DEF c, d
<1>3. \A id \in d.include \cup d.exclude : IsId(id)
  BY <1>1 DEF IsTable
<1>4. \A x \in {"include", "exclude"} :
         /\ NamedBy(NamedBy(d[x])) = NamedBy(d[x]) /\ (d[x] = {} => NamedBy(d[x]) = {})
  <2> SUFFICES ASSUME NEW x \in {"include", "exclude"}
               PROVE  NamedBy(NamedBy(d[x])) = NamedBy(d[x]) /\ (d[x] = {} => NamedBy(d[x]) = {})
    OBVIOUS
  <2> DEFINE ids == d[x]
             named == NamedBy(ids)
  <2>1. \A id \in ids : IsId(id)
    BY <1>3
  <2> HIDE DEF ids
  <2>2. named = {t \in FreshTypes : t \in ids \/ LocalId(t) \in ids}
    BY <2>1, NamedFresh
  <2>3. named \in SUBSET FreshTypes /\ (ids = {} => named = {})
    BY <2>2
  <2> HIDE DEF named
  <2>4. NamedBy(named) = named
    BY <2>3, NamedAgain
  <2> QED BY <2>3, <2>4 DEF ids, named
<1>5. \A x \in {"include", "exclude"} : (c[x] = {} <=> d[x] = {}) /\ NamedBy(c[x]) = NamedBy(d[x])
  BY <1>2, <1>4
<1>6. /\ c.policy = d.policy /\ c.byType = d.byType /\ c.header = d.header /\ c.format = d.format
      /\ c.values = d.values /\ c.patterns = d.patterns /\ c.sources = d.sources
  <2>1. d = [policy |-> d.policy, byType |-> d.byType, header |-> d.header, format |-> d.format,
             values |-> d.values, patterns |-> d.patterns, sources |-> d.sources,
             include |-> d.include, exclude |-> d.exclude, noted |-> d.noted]
    BY <1>1 DEF IsTable
  <2> DEFINE X == c.include
             Y == c.exclude
  <2>2. c = [d EXCEPT !.include = X, !.exclude = Y]
    BY <1>1
  <2> HIDE DEF X, Y
  <2> QED BY <2>1, <2>2
<1>7. Similar(c, d)
  BY <1>5, <1>6 DEF Similar
<1> QED BY <1>7 DEF c, d

\* So are the merged layers of a path.
LEMMA MergedAreSimilar ==
    ASSUME RegistryTypeOK, ViewsAreCurrent,
           NEW stack, NEW whole, StackLike(stack, whole), IsStack(whole), FiltersKept(stack, whole),
           \A i \in 1 .. Len(whole) : \A x \in {"include", "exclude"} :
               whole[i].config[x] # {} => NamedBy(whole[i].config[x]) # {},
           NEW p
    PROVE  Similar(MergedIn(stack, p), MergedIn(whole, p))
<1> DEFINE I == Around(whole, p)
           s == Applicable(stack, p)
           t == Applicable(whole, p)
           S == {stack[i] : i \in 1 .. Len(stack)}
           T == {whole[i] : i \in 1 .. Len(whole)}
<1>1. /\ s \in Seq(S) /\ s # <<>> /\ Len(s) = Cardinality(I) /\ s = Picked(stack, I)
      /\ I \in SUBSET (1 .. Len(stack))
  BY AroundPaths
<1>2. /\ t \in Seq(T) /\ Len(t) = Cardinality(I) /\ t = Picked(whole, I)
  BY AroundPaths, StackIsLike
<1>3. Len(whole) \in Nat /\ Len(stack) = Len(whole)
  BY DEF StackLike
<1> HIDE DEF I, s, t, S, T
<1>4. \A i \in 1 .. Len(whole) : Similar(stack[i].config, whole[i].config)
  BY LayersAreSimilar
<1>5. \A k \in 1 .. Len(s) : Similar(s[k].config, t[k].config)
  <2> SUFFICES ASSUME NEW k \in 1 .. Len(s) PROVE Similar(s[k].config, t[k].config)
    OBVIOUS
  <2>1. PICK i \in I : s[k] = stack[i] /\ t[k] = whole[i]
    <3>1. /\ Len(whole) \in Nat /\ I \in SUBSET (1 .. Len(whole)) /\ k \in 1 .. Cardinality(I)
          /\ s = Picked(stack, I) /\ t = Picked(whole, I)
      BY <1>1, <1>2, <1>3
    <3>2. \E i \in I : Picked(stack, I)[k] = stack[i] /\ Picked(whole, I)[k] = whole[i]
      <4> DEFINE n == Len(whole)
      <4>1. n \in Nat /\ I \in SUBSET (1 .. n) /\ k \in 1 .. Cardinality(I)
        BY <3>1
      <4> HIDE DEF n
      <4>2. \A x \in 1 .. Cardinality(I) :
               \E i \in I : Picked(stack, I)[x] = stack[i] /\ Picked(whole, I)[x] = whole[i]
        BY <4>1, PickedAlike
      <4> QED BY <4>1, <4>2
    <3> QED BY <3>1, <3>2
  <2> QED BY <1>1, <1>3, <1>4, <2>1
<1>6. Similar(MergeLayers(s), MergeLayers(t))
  BY <1>1, <1>2, <1>5, MergesAreSimilar
<1> QED BY <1>6 DEF MergedIn, s, t

-----------------------------------------------------------------------------
(* Path configurations are made of the path's own layers. *)

\* z is what freezing makes of the layers of a path, under the policies of the run.
IsOwn(p, z) ==
    LET merged == MergedIn(BuildLayers(Files), p)
    IN  z = [policy |-> config.policy, byType |-> config.byType, header |-> merged.header,
             format |-> merged.format, values |-> merged.values, patterns |-> merged.patterns,
             sources |-> Unglobbed(merged.sources), include |-> NamedBy(merged.include),
             exclude |-> NamedBy(merged.exclude), noted |-> z.noted]

\* While the registries are left alone, layers keep what they name, and the paths
\* configured so far have what their own layers make of them.
ScopesAreOwn ==
    layers # <<>> /\ steady /\ FiltersNameTypes =>
        /\ FiltersKept(layers, BuildLayers(Files))
        /\ \A p \in DOMAIN pathConfigs : IsOwn(p, pathConfigs[p])

\* The filters of the layers name something where the declared ones do.
LEMMA LayersAreNamed ==
    ASSUME request.base = <<>>, FiltersNameTypes, IsStack(BuildLayers(Files))
    PROVE  \A i \in 1 .. Len(BuildLayers(Files)) : \A x \in {"include", "exclude"} :
               BuildLayers(Files)[i].config[x] # {} => NamedBy(BuildLayers(Files)[i].config[x]) # {}
<1> DEFINE whole == BuildLayers(Files)
<1>1. Declared = [i \in DOMAIN whole |-> whole[i].config]
  BY DEF Declared
<1>2. DOMAIN whole = 1 .. Len(whole)
  BY DEF IsStack
<1> HIDE DEF whole
<1>3. \A i \in 1 .. Len(whole) : \A x \in {"include", "exclude"} :
         whole[i].config[x] # {} => NamedBy(whole[i].config[x]) # {}
  BY <1>1, <1>2 DEF FiltersNameTypes
<1> QED BY <1>3 DEF whole

\* What ScopePath makes for a path is of the path's layers, as the files have them.
LEMMA NewConfigIsOwn ==
    ASSUME RegistryTypeOK, ViewsAreCurrent, StagesSay, StagesTyped, layers # <<>>,
           FiltersNameTypes, FiltersKept(layers, BuildLayers(Files)), NEW p
    PROVE  IsOwn(p, OwnConfig(p))
<1> DEFINE whole == BuildLayers(Files)
           mine == MergedFor(p)
           merged == MergedIn(whole, p)
           z == Freeze(mine, {})
<1>1. IsStack(whole) /\ StackLike(layers, whole) /\ request.base = <<>>
  BY LayersOfRequest DEF StagesSay, StagesTyped
<1>2. \A i \in 1 .. Len(whole) : \A x \in {"include", "exclude"} :
         whole[i].config[x] # {} => NamedBy(whole[i].config[x]) # {}
  BY <1>1, LayersAreNamed
<1>3. Similar(mine, merged) /\ IsTable(mine)
  <2>1. FiltersKept(layers, whole)
    OBVIOUS
  <2> HIDE DEF whole
  <2>2. Similar(MergedIn(layers, p), MergedIn(whole, p)) /\ IsTable(MergedIn(layers, p))
    BY <1>1, <1>2, <2>1, MergedAreSimilar, MergedInIsTable
  <2> QED BY <2>2 DEF MergedFor
<1>4. Froze(mine, {}, z) /\ z.sources = Unglobbed(mine.sources)
  <2> HIDE DEF mine
  <2> QED BY <1>3, FreezeFields, FrozenSources
<1>5. IsTable(z)
  <2> HIDE DEF mine
  <2> QED BY <1>3, FrozenIsTyped
<1>6. OwnConfig(p) = [z EXCEPT !.policy = config.policy, !.byType = config.byType]
  BY DEF OwnConfig
<1> DEFINE own == OwnConfig(p)
<1> HIDE DEF z, mine, merged, own
<1>7. own = [policy |-> config.policy, byType |-> config.byType, header |-> z.header,
             format |-> z.format, values |-> z.values, patterns |-> z.patterns,
             sources |-> z.sources, include |-> z.include, exclude |-> z.exclude,
             noted |-> z.noted]
  BY <1>5, <1>6, OwnFields DEF own
<1>8. /\ z.header = mine.header /\ z.format = mine.format /\ z.values = mine.values
      /\ z.patterns = mine.patterns /\ z.include = NamedBy(mine.include)
      /\ z.exclude = NamedBy(mine.exclude)
  BY <1>4 DEF Froze
<1>9. /\ z.header = merged.header /\ z.format = merged.format /\ z.values = merged.values
      /\ z.patterns = merged.patterns /\ z.include = NamedBy(merged.include)
      /\ z.exclude = NamedBy(merged.exclude) /\ z.sources = Unglobbed(merged.sources)
  BY <1>3, <1>4, <1>8 DEF Similar
<1>10. own.noted = z.noted
  BY <1>7
<1>11. own = [policy |-> config.policy, byType |-> config.byType, header |-> merged.header,
              format |-> merged.format, values |-> merged.values, patterns |-> merged.patterns,
              sources |-> Unglobbed(merged.sources), include |-> NamedBy(merged.include),
              exclude |-> NamedBy(merged.exclude), noted |-> own.noted]
  BY <1>7, <1>9, <1>10
<1> QED BY <1>11 DEF IsOwn, merged, own

\* This stays so while names resolve to the same.
LEMMA OwnStays ==
    ASSUME request' = request, \A ids : NamedBy(ids)' = NamedBy(ids)
    PROVE  /\ FiltersNameTypes' <=> FiltersNameTypes
           /\ BuildLayers(Files)' = BuildLayers(Files)
           /\ \A p : MergedIn(BuildLayers(Files), p)' = MergedIn(BuildLayers(Files), p)
           /\ \A p, z : config' = config /\ IsOwn(p, z) => IsOwn(p, z)'
<1>1. Declared' = Declared
  BY ToldStays
<1>2. FiltersNameTypes' <=> FiltersNameTypes
  BY <1>1 DEF FiltersNameTypes
<1>3. BuildLayers(Files)' = BuildLayers(Files)
  BY FilesStay
<1>4. \A p : MergedIn(BuildLayers(Files), p)' = MergedIn(BuildLayers(Files), p)
  BY <1>3 DEF MergedIn
<1>5. ASSUME NEW p, NEW z, config' = config, IsOwn(p, z) PROVE IsOwn(p, z)'
  <2> DEFINE merged == MergedIn(BuildLayers(Files), p)
  <2>1. merged' = merged
    BY <1>4
  <2> QED BY <1>5, <2>1 DEF IsOwn
<1> QED BY <1>2, <1>3, <1>4, <1>5

\* Configuring one more path keeps all of them so: the filters it rewrites name the same.
LEMMA ScopeIsOwn ==
    ASSUME RegistryTypeOK, ViewsAreCurrent, StagesSay, StagesTyped, PathsInOrder, ScopePath,
           ScopesAreOwn, \A ids : NamedBy(ids)' = NamedBy(ids)
    PROVE  ScopesAreOwn'
<1> DEFINE p == selected[next]
           whole == BuildLayers(Files)
<1>1. /\ UNCHANGED <<request, steady, config>> /\ layers' = Normalized(p) /\ layers # <<>>
      /\ pathConfigs' = [q \in DOMAIN pathConfigs \cup {p} |->
                           IF q = p THEN OwnConfig(p) ELSE pathConfigs[q]]
  BY DEF ScopePath, OwnConfig, MergedFor, MergedIn, PathsInOrder
<1>2. SUFFICES ASSUME steady', FiltersNameTypes'
               PROVE  /\ FiltersKept(layers, BuildLayers(Files))'
                      /\ \A q \in DOMAIN pathConfigs' : IsOwn(q, pathConfigs[q])'
  BY DEF ScopesAreOwn
<1>3. /\ steady /\ FiltersNameTypes
      /\ BuildLayers(Files)' = whole
      /\ \A q, z : IsOwn(q, z) => IsOwn(q, z)'
  BY <1>1, <1>2, OwnStays
<1>4. FiltersKept(layers, whole) /\ \A q \in DOMAIN pathConfigs : IsOwn(q, pathConfigs[q])
  BY <1>1, <1>3 DEF ScopesAreOwn
<1>5. IsOwn(p, OwnConfig(p))
  BY <1>1, <1>3, <1>4, NewConfigIsOwn
<1>6. \A q \in DOMAIN pathConfigs' : IsOwn(q, pathConfigs[q])'
  <2> HIDE DEF p
  <2>1. \A q \in DOMAIN pathConfigs' : IsOwn(q, pathConfigs'[q])
    BY <1>1, <1>4, <1>5
  <2> QED BY <1>3, <2>1
<1>7. IsStack(whole) /\ StackLike(layers, whole)
  BY <1>1, LayersOfRequest DEF StagesSay, StagesTyped
<1>8. FiltersKept(layers', whole)
  <2> HIDE DEF whole, p
  <2>1. \A i \in 1 .. Len(whole) : IsTable(whole[i].config)
    BY <1>7 DEF IsStack
  <2>2. \A i \in 1 .. Len(whole) : \A x \in {"include", "exclude"} :
           layers'[i].config[x] \in {layers[i].config[x], NamedBy(layers[i].config[x])}
    BY <1>1, <1>7, <2>1, NormalizedIsLike
  <2>3. \A i \in 1 .. Len(whole) : \A x \in {"include", "exclude"} :
           NamedBy(NamedBy(whole[i].config[x])) = NamedBy(whole[i].config[x])
    <3> SUFFICES ASSUME NEW i \in 1 .. Len(whole), NEW x \in {"include", "exclude"}
                 PROVE  NamedBy(NamedBy(whole[i].config[x])) = NamedBy(whole[i].config[x])
      OBVIOUS
    <3> DEFINE ids == whole[i].config[x]
               named == NamedBy(ids)
    <3>1. \A id \in ids : IsId(id)
      BY <2>1 DEF IsTable
    <3> HIDE DEF ids
    <3>2. named = {t \in FreshTypes : t \in ids \/ LocalId(t) \in ids}
      BY <3>1, NamedFresh
    <3>3. named \in SUBSET FreshTypes
      BY <3>2
    <3> HIDE DEF named
    <3>4. NamedBy(named) = named
      BY <3>3, NamedAgain
    <3> QED BY <3>4 DEF ids, named
  <2>4. \A i \in 1 .. Len(whole) : \A x \in {"include", "exclude"} :
           layers[i].config[x] \in {whole[i].config[x], NamedBy(whole[i].config[x])}
    BY <1>4 DEF FiltersKept
  <2>5. \A i \in 1 .. Len(whole) : \A x \in {"include", "exclude"} :
           layers'[i].config[x] \in {whole[i].config[x], NamedBy(whole[i].config[x])}
    BY <2>2, <2>3, <2>4
  <2> QED BY <2>5 DEF FiltersKept
<1>9. FiltersKept(layers, BuildLayers(Files))'
  <2> DEFINE now == BuildLayers(Files)
  <2>1. now' = whole
    BY <1>3
  <2>2. \A ids : NamedBy(ids)' = NamedBy(ids)
    OBVIOUS
  <2> HIDE DEF now, whole
  <2>3. FiltersKept(layers, now)'
    BY <1>8, <2>1, <2>2 DEF FiltersKept
  <2> QED BY <2>3 DEF now
<1> QED BY <1>6, <1>9

\* A draft starts with the layers of the files, and no path; the other steps leave both.
LEMMA DraftIsOwn ==
    ASSUME PathsInOrder, Draft, \A ids : NamedBy(ids)' = NamedBy(ids)
    PROVE  ScopesAreOwn'
<1>1. /\ UNCHANGED <<request, pathConfigs>> /\ phase = "start"
      /\ (layers' # <<>> => layers' = BuildLayers(Files))
  BY DEF Draft
<1>2. DOMAIN pathConfigs' = {}
  BY <1>1 DEF PathsInOrder, Early
<1>3. BuildLayers(Files)' = BuildLayers(Files)
  BY <1>1, FilesStay
<1>4. layers' # <<>> => FiltersKept(layers, BuildLayers(Files))'
  BY <1>1, <1>3 DEF FiltersKept
<1> QED BY <1>2, <1>4 DEF ScopesAreOwn

LEMMA OthersKeepOwn ==
    ASSUME ScopesAreOwn, UNCHANGED <<request, steady, layers>>,
           \A ids : NamedBy(ids)' = NamedBy(ids),
           UNCHANGED <<config, pathConfigs>> \/ (layers # <<>> => DOMAIN pathConfigs' = {})
    PROVE  ScopesAreOwn'
<1>1. SUFFICES ASSUME layers' # <<>>, steady', FiltersNameTypes'
               PROVE  /\ FiltersKept(layers, BuildLayers(Files))'
                      /\ \A q \in DOMAIN pathConfigs' : IsOwn(q, pathConfigs[q])'
  BY DEF ScopesAreOwn
<1>2. /\ BuildLayers(Files)' = BuildLayers(Files) /\ FiltersNameTypes
      /\ \A q, z : config' = config /\ IsOwn(q, z) => IsOwn(q, z)'
  BY <1>1, OwnStays
<1>3. FiltersKept(layers, BuildLayers(Files)) /\ \A q \in DOMAIN pathConfigs : IsOwn(q, pathConfigs[q])
  BY <1>1, <1>2 DEF ScopesAreOwn
<1>4. FiltersKept(layers, BuildLayers(Files))'
  BY <1>2, <1>3 DEF FiltersKept
<1>5. CASE UNCHANGED <<config, pathConfigs>>
  BY <1>2, <1>3, <1>4, <1>5
<1>6. CASE layers # <<>> => DOMAIN pathConfigs' = {}
  BY <1>1, <1>4, <1>6
<1> QED BY <1>5, <1>6

\* Every step keeps the configurations of paths their own.
LEMMA StepIsOwn ==
    RegistryTypeOK /\ ViewsAreCurrent /\ StagesSay /\ StagesTyped /\ PathsInOrder
        /\ RegistryTypeOK' /\ ViewsAreCurrent' /\ ScopesAreOwn /\ [Next]_vars => ScopesAreOwn'
<1> SUFFICES ASSUME RegistryTypeOK, ViewsAreCurrent, StagesSay, StagesTyped, PathsInOrder,
                    RegistryTypeOK', ViewsAreCurrent', ScopesAreOwn, [Next]_vars
             PROVE  ScopesAreOwn'
  OBVIOUS
<1>1. CASE Disturb \/ Proceed
  <2>1. steady' = FALSE
    BY <1>1 DEF Disturb, Proceed
  <2> QED BY <2>1 DEF ScopesAreOwn
<1>2. CASE RunAgain
  BY <1>2 DEF RunAgain, ScopesAreOwn
<1>3. CASE ~(Disturb \/ Proceed) /\ ~RunAgain
  <2>1. \A ids : NamedBy(ids)' = NamedBy(ids)
    BY <1>3, RunReads, NamesStay
  <2>2. CASE Draft
    BY <2>1, <2>2, DraftIsOwn
  <2>3. CASE ScopePath
    BY <2>1, <2>3, ScopeIsOwn
  <2>4. CASE FreezeDraft \/ OverlayPolicy
    <3>1. UNCHANGED <<request, steady, layers, pathConfigs>> /\ phase \in Early
      BY <2>4 DEF FreezeDraft, OverlayPolicy, Early
    <3>2. DOMAIN pathConfigs' = {}
      BY <3>1 DEF PathsInOrder
    <3> QED BY <2>1, <3>1, <3>2, OthersKeepOwn
  <2>5. CASE Select
    <3>1. UNCHANGED <<request, steady, layers>> /\ (layers # <<>> => DOMAIN pathConfigs' = {})
      BY <2>5 DEF Select
    <3> QED BY <2>1, <3>1, OthersKeepOwn
  <2>6. CASE ProbePath \/ ResolvePath \/ UNCHANGED vars
    <3>1. UNCHANGED <<request, steady, layers, config, pathConfigs>>
      BY <2>6 DEF ProbePath, ResolvePath, vars, runVars
    <3> QED BY <2>1, <3>1, OthersKeepOwn
  <2> QED BY <1>3, <2>2, <2>3, <2>4, <2>5, <2>6 DEF Next
<1> QED BY <1>1, <1>2, <1>3

\* Configurations of this form are what the property asks for.
LEMMA OwnIsOfLayers ==
    ASSUME StagesSay, StagesTyped, ScopesAreOwn
    PROVE  PathConfigIsOfItsLayers
<1> SUFFICES ASSUME layers # <<>>, steady, FiltersNameTypes, NEW p \in DOMAIN pathConfigs
             PROVE  LET own == Freeze(MergeLayers(Applicable(BuildLayers(Files), p)), {})
                    IN  pathConfigs[p] = [own EXCEPT !.noted = pathConfigs[p].noted,
                                                     !.policy = config.policy, !.byType = config.byType]
  BY DEF PathConfigIsOfItsLayers
<1> DEFINE whole == BuildLayers(Files)
           merged == MergedIn(whole, p)
           own == Freeze(merged, {})
           z == pathConfigs[p]
           noted == z.noted
<1>1. IsOwn(p, z)
  BY DEF ScopesAreOwn
<1>2. IsTable(merged)
  <2>1. IsStack(whole)
    BY LayersOfRequest DEF StagesSay
  <2> HIDE DEF whole
  <2>2. StackLike(whole, whole)
    BY <2>1, StackIsLike
  <2> QED BY <2>1, <2>2, MergedInIsTable
<1>3. Froze(merged, {}, own) /\ own.sources = Unglobbed(merged.sources)
  <2> HIDE DEF merged
  <2> QED BY <1>2, FreezeFields, FrozenSources
<1>4. z = [policy |-> config.policy, byType |-> config.byType, header |-> merged.header,
           format |-> merged.format, values |-> merged.values, patterns |-> merged.patterns,
           sources |-> Unglobbed(merged.sources), include |-> NamedBy(merged.include),
           exclude |-> NamedBy(merged.exclude), noted |-> noted]
  BY <1>1 DEF IsOwn
<1> HIDE DEF merged, own, z, noted
<1>5. own = [policy |-> own.policy, byType |-> own.byType, header |-> merged.header,
             format |-> merged.format, values |-> merged.values, patterns |-> merged.patterns,
             sources |-> Unglobbed(merged.sources), include |-> NamedBy(merged.include),
             exclude |-> NamedBy(merged.exclude), noted |-> own.noted]
  BY <1>3 DEF Froze
<1>6. z = [own EXCEPT !.noted = noted, !.policy = config.policy, !.byType = config.byType]
  <2> DEFINE policy == own.policy
             byType == own.byType
             mine == own.noted
             X == config.policy
             Y == config.byType
             sources == Unglobbed(merged.sources)
             include == NamedBy(merged.include)
             exclude == NamedBy(merged.exclude)
  <2>1. own = [policy |-> policy, byType |-> byType, header |-> merged.header, format |-> merged.format,
               values |-> merged.values, patterns |-> merged.patterns, sources |-> sources,
               include |-> include, exclude |-> exclude, noted |-> mine]
    BY <1>5
  <2>2. z = [policy |-> X, byType |-> Y, header |-> merged.header, format |-> merged.format,
             values |-> merged.values, patterns |-> merged.patterns, sources |-> sources,
             include |-> include, exclude |-> exclude, noted |-> noted]
    BY <1>4
  <2> HIDE DEF policy, byType, mine, X, Y, sources, include, exclude
  <2> DEFINE u == [own EXCEPT !.noted = noted, !.policy = X, !.byType = Y]
  <2>3. u = [own EXCEPT !.noted = noted, !.policy = X, !.byType = Y]
    OBVIOUS
  <2> HIDE DEF u
  <2>4. u = [policy |-> X, byType |-> Y, header |-> merged.header, format |-> merged.format,
             values |-> merged.values, patterns |-> merged.patterns, sources |-> sources,
             include |-> include, exclude |-> exclude, noted |-> noted]
    BY <2>1, <2>3
  <2> QED BY <2>2, <2>4 DEF u, X, Y
<1> QED BY <1>6 DEF z, own, merged, noted, MergedIn

(* However many paths were configured before a path, and in whichever order, its
   configuration is what its own layers make of it. *)
THEOREM PathsKeepTheirLayers == Spec => []PathConfigIsOfItsLayers
<1>1. Init => ScopesAreOwn
  BY DEF Init, ScopesAreOwn
<1>2. Spec => []ScopesAreOwn
  BY <1>1, StepIsOwn, StagesAlwaysTyped, PTL DEF Spec
<1>3. StagesSay /\ StagesTyped /\ ScopesAreOwn => PathConfigIsOfItsLayers
  BY OwnIsOfLayers
<1> QED BY <1>2, <1>3, StagesAlwaysTyped, PTL
=============================================================================
