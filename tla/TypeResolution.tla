--------------------------- MODULE TypeResolution ---------------------------
(***************************************************************************)
(* How a path finds its file type (topmark/resolution/filetypes.py) and    *)
(* whether a file type filter of the selection claims it                   *)
(* (topmark/filetypes/model.py): two readings of the same rules.           *)
(*                                                                         *)
(* What a type's extensions, names and patterns make of a path is data:    *)
(* the length of the longest extension and of the longest name that match, *)
(* 0 for none, and whether a pattern does.  A matcher that raises finds    *)
(* nothing.  Names written with backslashes are left out.                  *)
(***************************************************************************)
EXTENDS TypeRegistry

CONSTANTS Paths,
          Traits,   \* of a type: its gate, and whether it has name rules, a
                    \* content matcher, and is to be skipped
          Rules,    \* [FileTypes -> [Paths -> lengths and pattern that match]]
          Contents, \* [FileTypes -> [Paths -> what the matcher answers]]
          Place     \* of a type in the order of namespace, then local key

Gates == {"NEVER", "IF_EXTENSION", "IF_FILENAME", "IF_PATTERN", "IF_ANY_NAME_RULE",
          "IF_NONE", "ALWAYS"}

ASSUME TraitsAssumption ==
    /\ Traits \in [FileTypes -> [gate : Gates, named : BOOLEAN, matcher : BOOLEAN, skip : BOOLEAN]]
    /\ \A t \in FileTypes : /\ Rules[t] \in [Paths -> [extension : Nat, filename : Nat, pattern : BOOLEAN]]
                           /\ DOMAIN Contents[t] = Paths
    /\ Place \in [FileTypes -> Nat]
    /\ \A t, u \in FileTypes : Place[t] = Place[u] => t = u

\* A filter names a type by its qualified or by its local key.
PassesFilter(t, ids) == t \in ids \/ LocalId(t) \in ids

-----------------------------------------------------------------------------
(* The signals of one type for one path. *)

ByExtension(t, p) == Rules[t][p].extension > 0
ByFilename(t, p) == Rules[t][p].filename > 0
ByPattern(t, p) == Rules[t][p].pattern
ByName(t, p) == ByExtension(t, p) \/ ByFilename(t, p) \/ ByPattern(t, p)

\* Whether the gate of the type lets its matcher read the file.
ShouldProbe(t, p) ==
    CASE Traits[t].gate = "NEVER"            -> FALSE
      [] Traits[t].gate = "IF_EXTENSION"     -> ByExtension(t, p)
      [] Traits[t].gate = "IF_FILENAME"      -> ByFilename(t, p)
      [] Traits[t].gate = "IF_PATTERN"       -> ByPattern(t, p)
      [] Traits[t].gate = "IF_ANY_NAME_RULE" -> ByName(t, p)
      [] Traits[t].gate = "IF_NONE"          -> ~Traits[t].named
      [] OTHER                               -> TRUE

Hit(t, p) == Traits[t].matcher /\ ShouldProbe(t, p) /\ Contents[t][p] = "hit"

\* The content decides where the gate's own rule matched; elsewhere it may add.
ShouldInclude(t, p) ==
    LET gate == Traits[t].gate
    IN  IF ~Traits[t].matcher \/ gate = "NEVER" THEN ByName(t, p)
        ELSE IF gate = "IF_EXTENSION" /\ ByExtension(t, p)
        THEN Hit(t, p) \/ ByFilename(t, p) \/ ByPattern(t, p)
        ELSE IF \/ gate = "IF_FILENAME" /\ ByFilename(t, p)
                \/ gate = "IF_PATTERN" /\ ByPattern(t, p)
                \/ gate = "IF_ANY_NAME_RULE" /\ ByName(t, p)
                \/ gate = "IF_NONE"
        THEN Hit(t, p)
        ELSE ByName(t, p) \/ Hit(t, p)

Capped(length, cap) == IF length < cap THEN length ELSE cap
Highest(scores) == CHOOSE s \in scores : \A other \in scores : other <= s

Points(holds, points) == IF holds THEN points ELSE 0

\* Mutant: a pattern outranks what the content says.
Score_PatternFirst(t, p) ==
    Highest({Points(ByFilename(t, p), 100 + Capped(Rules[t][p].filename, 100)),
             Points(Hit(t, p), 70),
             Points(ByPattern(t, p), 90),
             Points(ByExtension(t, p), 50 + Capped(Rules[t][p].extension, 10))})
    + Points(~Traits[t].skip, 1)

Score(t, p) ==
    Highest({Points(ByFilename(t, p), 100 + Capped(Rules[t][p].filename, 100)),
             Points(Hit(t, p), 90),
             Points(ByPattern(t, p), 70),
             Points(ByExtension(t, p), 50 + Capped(Rules[t][p].extension, 10))})
    + Points(~Traits[t].skip, 1)

Candidates(types, p, include, exclude) ==
    {t \in types : /\ include # {} => PassesFilter(t, include)
                   /\ exclude # {} => ~PassesFilter(t, exclude)
                   /\ ShouldInclude(t, p)}

\* The first in order of falling score, namespace and local key.
Best(candidates, p) ==
    CHOOSE t \in candidates : \A u \in candidates \ {t} :
        \/ Score(t, p) > Score(u, p)
        \/ Score(t, p) = Score(u, p) /\ Place[t] < Place[u]

-----------------------------------------------------------------------------
(* FileType.matches: the first kind of rule that matches, then the gate. *)

Claims(t, p) ==
    LET by == IF ByExtension(t, p) THEN "IF_EXTENSION"
              ELSE IF ByFilename(t, p) THEN "IF_FILENAME"
              ELSE IF ByPattern(t, p) THEN "IF_PATTERN"
              ELSE "none"
        allowed == \/ Traits[t].gate \in {by, "ALWAYS"}
                   \/ Traits[t].gate = "IF_ANY_NAME_RULE" /\ by # "none"
                   \/ Traits[t].gate = "IF_NONE" /\ ~Traits[t].named
    IN  IF Traits[t].matcher /\ allowed THEN Contents[t][p] = "hit" ELSE by # "none"

\* What the file type filters of a configuration leave of the files found.
KeptByType(p, include, included, excluded) ==
    /\ include # {} => \E t \in included : Claims(t, p)
    /\ \A t \in excluded : ~Claims(t, p)
=============================================================================
