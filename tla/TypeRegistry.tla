---------------------------- MODULE TypeRegistry ----------------------------
(***************************************************************************)
(* The process-wide registries of TopMark (topmark/registry): the file     *)
(* types, the header processors and the bindings of the one to the other,  *)
(* each a base that never changes under an overlay of additions and        *)
(* removals.  Reads compose base and overlay and, except for the bindings, *)
(* remember the result until the overlay changes.                          *)
(*                                                                         *)
(* Every operation of one registry runs under that registry's lock and is  *)
(* one step.  An operation of the Registry facade takes several locks in   *)
(* turn: its steps are separate, and those of other callers come between.  *)
(* A file type is a record of its namespace and its local key, which is    *)
(* also its qualified identifier.  Validation of what is registered        *)
(* (identities, reserved namespaces) is not modelled: FileTypes and        *)
(* Processors are what it lets through.                                    *)
(***************************************************************************)
EXTENDS Naturals

CONSTANTS FileTypes,        \* what can be registered: records [ns, key]
          BaseTypes,        \* built-in and plugin file types
          Processors,       \* qualified keys of processors
          BaseProcessors,
          BaseBindings,     \* [FileTypes -> Processors \cup {Nothing}]
          Callers,          \* threads that change the registries
          Nothing,          \* no binding, no call in progress
          AnyNs             \* the namespace of a local identifier

ASSUME BaseAssumption ==
    /\ BaseTypes \subseteq FileTypes
    /\ \A t \in FileTypes : t \in [ns : {t.ns}, key : {t.key}]
    /\ \A t, u \in BaseTypes : t.key = u.key => t = u
    /\ BaseProcessors \subseteq Processors
    /\ Nothing \notin FileTypes /\ Nothing \notin Processors
    /\ \A t \in FileTypes : t.ns # AnyNs
    /\ BaseBindings \in [FileTypes -> Processors \cup {Nothing}]
    /\ \A t \in FileTypes : BaseBindings[t] # Nothing =>
          t \in BaseTypes /\ BaseBindings[t] \in BaseProcessors

VARIABLES typeAdded, typeRemoved, typeView, typeViewQ,
          procAdded, procRemoved, procView,
          bound, unbound,
          calls,
          direct,      \* some definition was unregistered while it was bound
          overlapped   \* some operation ran inside another caller's call

typeVars == <<typeAdded, typeRemoved, typeView, typeViewQ>>
procVars == <<procAdded, procRemoved, procView>>
bindVars == <<bound, unbound>>
callVars == <<calls, direct, overlapped>>
registryVars == <<typeVars, procVars, bindVars, callVars>>

NoView == {Nothing}         \* a composed view that is not remembered

Keys(types) == {t.key : t \in types}

-----------------------------------------------------------------------------
(* Composition of base and overlay, and the views that remember it. *)

ComposeTypes(added, removed) ==
    {t \in BaseTypes : t.key \notin removed /\ t.key \notin Keys(added)} \cup added

ComposeProcessors(added, removed) == (BaseProcessors \cup added) \ removed

LocalTypes ==
    IF typeView = NoView THEN ComposeTypes(typeAdded, typeRemoved) ELSE typeView
KnownTypes == IF typeViewQ = NoView THEN LocalTypes ELSE typeViewQ
KnownProcessors ==
    IF procView = NoView THEN ComposeProcessors(procAdded, procRemoved) ELSE procView

BindingOf(t) ==
    IF bound[t] # Nothing THEN bound[t]
    ELSE IF t \in unbound THEN Nothing ELSE BaseBindings[t]

BoundTypes == {t \in FileTypes : BindingOf(t) # Nothing}
BoundTo(p) == {t \in FileTypes : BindingOf(t) = p}

\* Bindings to what is not registered: any of them makes composition raise.
Dangling == {t \in BoundTypes :
                t \notin KnownTypes \/ BindingOf(t) \notin KnownProcessors}

-----------------------------------------------------------------------------
(* Reads, by the views they fill. *)

SeeLocalTypes == typeView' = LocalTypes /\ UNCHANGED <<typeAdded, typeRemoved, typeViewQ>>

SeeTypes ==
    /\ typeView' = IF typeViewQ = NoView THEN LocalTypes ELSE typeView
    /\ typeViewQ' = KnownTypes
    /\ UNCHANGED <<typeAdded, typeRemoved>>

SeeProcessors == procView' = KnownProcessors /\ UNCHANGED <<procAdded, procRemoved>>

\* Composing the bindings looks up the type and then the processor of each, and
\* raises at the first it does not find.
SeeBindings ==
    IF BoundTypes = {} THEN UNCHANGED <<typeVars, procVars>>
    ELSE /\ SeeTypes
         /\ \/ /\ BoundTypes \cap KnownTypes # {}
               /\ SeeProcessors
            \/ /\ ~(BoundTypes \subseteq KnownTypes)
               /\ UNCHANGED procVars

\* The file type an identifier, local or qualified, names: one or none.
LocalId(t) == [ns |-> AnyNs, key |-> t.key]
Named(id) ==
    IF id.ns = AnyNs THEN {t \in LocalTypes : t.key = id.key} ELSE KnownTypes \cap {id}
NamedBy(ids) == UNION {Named(id) : id \in ids}

SeeNamed(ids) ==
    IF \E id \in ids : id.ns # AnyNs THEN SeeTypes
    ELSE IF ids # {} THEN SeeLocalTypes
    ELSE UNCHANGED typeVars

Read ==
    /\ \/ SeeLocalTypes /\ UNCHANGED procVars
       \/ SeeTypes /\ UNCHANGED procVars
       \/ SeeProcessors /\ UNCHANGED typeVars
       \/ SeeBindings
    /\ UNCHANGED <<bindVars, callVars>>

-----------------------------------------------------------------------------
(* Calls.  A caller is in at most one call; direct operations are one step. *)

Open(c) == calls[c] # Nothing

Enters(c) ==
    /\ ~Open(c)
    /\ overlapped' = (overlapped \/ \E d \in Callers : Open(d))

\* One step of a call that is open, or its end.
Continues(c, next) ==
    /\ calls' = [calls EXCEPT ![c] = next]
    /\ overlapped' = (overlapped \/ \E d \in Callers \ {c} : Open(d))
    /\ UNCHANGED direct

\* BindingRegistry.bind holds the lock from its checks to its assignment.
BindingsFree(c) ==
    \A d \in Callers \ {c} : Open(d) => calls[d].stage # "checked"

\* Mutant: the qualified view is left as it was.
ForgetTypes_LocalOnly == typeView' = NoView /\ UNCHANGED typeViewQ

ForgetTypes == typeView' = NoView /\ typeViewQ' = NoView

-----------------------------------------------------------------------------
(* FileTypeRegistry *)

RegisterType(c, t) ==
    /\ Enters(c)
    /\ IF t.key \in Keys(LocalTypes) THEN SeeLocalTypes     \* refused
       ELSE /\ typeAdded' = typeAdded \cup {t}
            /\ typeRemoved' = typeRemoved \ {t.key}
            /\ ForgetTypes
    /\ UNCHANGED <<procVars, bindVars, calls, direct>>

\* The addition is dropped first; what the view then still shows is hidden.
DropType(key, view) ==
    LET left == {t \in typeAdded : t.key # key}
        seen == IF view = NoView THEN ComposeTypes(left, typeRemoved) ELSE view
    IN  /\ typeAdded' = left
        /\ typeRemoved' = typeRemoved \cup ({key} \cap Keys(seen))
        /\ ForgetTypes

UnregisterTypeByKey(c, key) ==
    /\ Enters(c)
    /\ DropType(key, typeView)
    /\ direct' = (direct \/ \E t \in LocalTypes \cap BoundTypes : t.key = key)
    /\ UNCHANGED <<procVars, bindVars, calls>>

UnregisterType(c, t) ==
    /\ Enters(c)
    /\ IF t \notin KnownTypes THEN SeeTypes /\ UNCHANGED direct
       ELSE /\ DropType(t.key, IF typeViewQ = NoView THEN LocalTypes ELSE typeView)
            /\ direct' = (direct \/ t \in BoundTypes)
    /\ UNCHANGED <<procVars, bindVars, calls>>

-----------------------------------------------------------------------------
(* HeaderProcessorRegistry *)

RegisterProcessor(c, p) ==
    /\ Enters(c)
    /\ IF p \in KnownProcessors THEN SeeProcessors          \* refused
       ELSE /\ procRemoved' = procRemoved \ {p}
            /\ procAdded' = procAdded \cup {p}
            /\ procView' = NoView
    /\ UNCHANGED <<typeVars, bindVars, calls, direct>>

DropProcessor(p) ==
    LET left == procAdded \ {p}
        seen == IF procView = NoView THEN ComposeProcessors(left, procRemoved)
                ELSE procView
    IN  /\ procAdded' = left
        /\ procRemoved' = procRemoved \cup ({p} \cap seen)
        /\ procView' = NoView

UnregisterProcessor(c, p) ==
    /\ Enters(c)
    /\ DropProcessor(p)
    /\ direct' = (direct \/ BoundTo(p) # {})
    /\ UNCHANGED <<typeVars, bindVars, calls>>

-----------------------------------------------------------------------------
(* BindingRegistry *)

\* Mutant: a base binding is not hidden.
Unbind_OverlayOnly(types) ==
    /\ bound' = [t \in FileTypes |-> IF t \in types THEN Nothing ELSE bound[t]]
    /\ UNCHANGED unbound

Unbind(types) ==
    /\ bound' = [t \in FileTypes |-> IF t \in types THEN Nothing ELSE bound[t]]
    /\ unbound' = unbound \cup types

\* unbind_processor raises, and changes nothing, while any binding dangles.
UnbindAllOf(p) ==
    /\ SeeBindings
    /\ IF Dangling = {} THEN Unbind(BoundTo(p)) ELSE UNCHANGED bindVars

UnbindProcessor(c, p) ==
    /\ Enters(c) /\ BindingsFree(c)
    /\ UnbindAllOf(p)
    /\ UNCHANGED <<calls, direct>>

-----------------------------------------------------------------------------
(* Registry.bind: the type is looked up, then BindingRegistry.bind checks both
   ends under its lock and assigns; the ends have locks of their own. *)

CallBind(c, t, p) ==
    /\ Enters(c)
    /\ SeeTypes
    /\ IF t \in KnownTypes
       THEN calls' = [calls EXCEPT ![c] =
                         [op |-> "bind", type |-> t, proc |-> p, stage |-> "called"]]
       ELSE UNCHANGED calls
    /\ UNCHANGED <<procVars, bindVars, direct>>

CheckBind(c) ==
    /\ Open(c) /\ calls[c].op = "bind" /\ calls[c].stage = "called"
    /\ BindingsFree(c)
    /\ LET t == calls[c].type
           p == calls[c].proc
       IN  \/ /\ t \notin KnownTypes
              /\ SeeTypes /\ UNCHANGED procVars
              /\ Continues(c, Nothing)
           \/ /\ t \in KnownTypes
              /\ SeeTypes /\ SeeProcessors
              /\ Continues(c, IF /\ p \in KnownProcessors
                                 /\ Dangling = {}
                                 /\ BindingOf(t) = Nothing
                              THEN [calls[c] EXCEPT !.stage = "checked"]
                              ELSE Nothing)
    /\ UNCHANGED bindVars

CommitBind(c) ==
    /\ Open(c) /\ calls[c].op = "bind" /\ calls[c].stage = "checked"
    /\ bound' = [bound EXCEPT ![calls[c].type] = calls[c].proc]
    /\ unbound' = unbound \ {calls[c].type}
    /\ Continues(c, Nothing)
    /\ UNCHANGED <<typeVars, procVars>>

(* Registry.unbind_filetype *)

CallUnbind(c, t) ==
    /\ Enters(c)
    /\ SeeTypes
    /\ IF t \in KnownTypes
       THEN calls' = [calls EXCEPT ![c] =
                         [op |-> "unbind", type |-> t, proc |-> Nothing, stage |-> "called"]]
       ELSE UNCHANGED calls
    /\ UNCHANGED <<procVars, bindVars, direct>>

\* An overlaid binding is dropped unseen; a base binding is looked up first.
DoUnbind(c) ==
    /\ Open(c) /\ calls[c].op = "unbind"
    /\ BindingsFree(c)
    /\ LET t == calls[c].type
       IN  IF bound[t] # Nothing
           THEN Unbind({t}) /\ UNCHANGED <<typeVars, procVars>>
           ELSE /\ SeeBindings
                /\ IF Dangling = {} THEN Unbind({t}) ELSE UNCHANGED bindVars
    /\ Continues(c, Nothing)

(* Registry.unregister_processor: refused while bound, unless the caller asks
   for the bindings to go too; they go first, then the definition. *)

CallUnregister(c, p, removeBindings) ==
    /\ Enters(c) /\ BindingsFree(c)
    /\ SeeBindings
    /\ IF Dangling = {} /\ (removeBindings \/ BoundTo(p) = {})
       THEN calls' = [calls EXCEPT ![c] =
               [op |-> "unregister", type |-> Nothing, proc |-> p,
                stage |-> IF removeBindings THEN "called" ELSE "unbound"]]
       ELSE UNCHANGED calls
    /\ UNCHANGED <<bindVars, direct>>

UnregisterUnbinds(c) ==
    /\ Open(c) /\ calls[c].op = "unregister" /\ calls[c].stage = "called"
    /\ BindingsFree(c)
    /\ UnbindAllOf(calls[c].proc)
    /\ Continues(c, IF Dangling = {} THEN [calls[c] EXCEPT !.stage = "unbound"]
                    ELSE Nothing)

UnregisterDrops(c) ==
    /\ Open(c) /\ calls[c].op = "unregister" /\ calls[c].stage = "unbound"
    /\ DropProcessor(calls[c].proc)
    /\ Continues(c, Nothing)
    /\ UNCHANGED <<typeVars, bindVars>>

-----------------------------------------------------------------------------
RegistryInit ==
    /\ typeAdded = {} /\ typeRemoved = {} /\ typeView = NoView /\ typeViewQ = NoView
    /\ procAdded = {} /\ procRemoved = {} /\ procView = NoView
    /\ bound = [t \in FileTypes |-> Nothing] /\ unbound = {}
    /\ calls = [c \in Callers |-> Nothing]
    /\ direct = FALSE /\ overlapped = FALSE

\* What a caller can begin, and how its call goes on.
Begins(c) ==
    \/ \E t \in FileTypes : \/ RegisterType(c, t)
                            \/ UnregisterTypeByKey(c, t.key)
                            \/ UnregisterType(c, t)
                            \/ CallUnbind(c, t)
    \/ \E p \in Processors : \/ RegisterProcessor(c, p)
                             \/ UnregisterProcessor(c, p)
                             \/ UnbindProcessor(c, p)
                             \/ \E t \in FileTypes : CallBind(c, t, p)
                             \/ \E all \in BOOLEAN : CallUnregister(c, p, all)

GoesOn(c) ==
    \/ CheckBind(c) \/ CommitBind(c)
    \/ DoUnbind(c)
    \/ UnregisterUnbinds(c) \/ UnregisterDrops(c)

RegistryNext == Read \/ \E c \in Callers : Begins(c) \/ GoesOn(c)

RegistrySpec == RegistryInit /\ [][RegistryNext]_registryVars

-----------------------------------------------------------------------------
(* What must hold of the registries. *)

FreshTypes == ComposeTypes(typeAdded, typeRemoved)
FreshProcessors == ComposeProcessors(procAdded, procRemoved)

Calls ==
    [op : {"bind"}, type : FileTypes, proc : Processors, stage : {"called", "checked"}]
    \cup [op : {"unbind"}, type : FileTypes, proc : {Nothing}, stage : {"called"}]
    \cup [op : {"unregister"}, type : {Nothing}, proc : Processors,
          stage : {"called", "unbound"}]

RegistryTypeOK ==
    /\ typeAdded \subseteq FileTypes
    /\ typeRemoved \subseteq Keys(FileTypes)
    /\ typeView \in (SUBSET FileTypes) \cup {NoView}
    /\ typeViewQ \in (SUBSET FileTypes) \cup {NoView}
    /\ procAdded \subseteq Processors
    /\ procRemoved \subseteq Processors
    /\ procView \in (SUBSET Processors) \cup {NoView}
    /\ bound \in [FileTypes -> Processors \cup {Nothing}]
    /\ unbound \subseteq FileTypes
    /\ calls \in [Callers -> Calls \cup {Nothing}]
    /\ direct \in BOOLEAN /\ overlapped \in BOOLEAN

(* However registrations, removals and reads interleave, a remembered view is
   what composing base and overlay anew would give, the local and the qualified
   view of the file types show the same types, and no two of them share a local
   key: a lookup never answers from before a change
   (filetypes.py _clear_cache, processors.py _clear_cache). *)
ViewsAreCurrent ==
    /\ typeView \in {NoView, FreshTypes}
    /\ typeViewQ \in {NoView, FreshTypes}
    /\ procView \in {NoView, FreshProcessors}
    /\ \A t, u \in FreshTypes : t.key = u.key => t = u

(* As long as nothing is unregistered past the facade while it is bound and no
   two callers' operations overlap, every binding leads from a registered file
   type to a registered processor, so that no lookup raises
   (registry.py unregister_processor and bind, bindings.py _compose). *)
BindingsStayWhole ==
    ~direct /\ ~overlapped => Dangling = {}

=============================================================================
