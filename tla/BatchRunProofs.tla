--------------------------- MODULE BatchRunProofs ---------------------------
(***************************************************************************)
(* Proofs about BatchRun, for any invocations, configurations, file        *)
(* systems and interference of other programs: the stream of events is     *)
(* always accepted and completed, the exit code kept while results stream  *)
(* by is that of all of them, and a failure is told to the caller of the   *)
(* API.                                                                    *)
(***************************************************************************)
EXTENDS BatchRun, SequenceLemmas

-----------------------------------------------------------------------------
(* The selection of files, for any names, patterns, file types and file     *)
(* systems: every file is selected under one name, and probe has exactly    *)
(* one answer for every literal input.                                      *)

LEMMA PickedElements ==
    ASSUME NEW S, NEW s \in Seq(S), NEW I \in SUBSET DOMAIN s
    PROVE  /\ Picked(s, I) \in Seq(S)
           /\ Elements(Picked(s, I)) = {s[i] : i \in I}
<1>1. PICK at \in [1..Cardinality(I) -> I] :
         /\ \A k \in 1..Cardinality(I) : Picked(s, I)[k] = s[at[k]]
         /\ \A i \in I : \E k \in 1..Cardinality(I) : at[k] = i
  BY PickedInOrder
<1>2. Picked(s, I) \in Seq(S) /\ DOMAIN Picked(s, I) = 1..Cardinality(I)
  BY PickedInOrder
<1> QED BY <1>1, <1>2 DEF Elements

LEMMA PickedOnce ==
    ASSUME NEW S, NEW s \in Seq(S), NEW I \in SUBSET DOMAIN s,
           \A i, j \in DOMAIN s : i # j => s[i] # s[j],
           NEW k \in DOMAIN Picked(s, I), NEW l \in DOMAIN Picked(s, I), k # l
    PROVE  Picked(s, I)[k] # Picked(s, I)[l]
<1>1. PICK at \in [1..Cardinality(I) -> I] :
         /\ \A m \in 1..Cardinality(I) : Picked(s, I)[m] = s[at[m]]
         /\ \A m, n \in 1..Cardinality(I) : m < n => at[m] < at[n]
  BY PickedInOrder
<1>2. k \in 1..Cardinality(I) /\ l \in 1..Cardinality(I)
  BY PickedInOrder
<1>3. at[k] \in DOMAIN s /\ at[l] \in DOMAIN s /\ at[k] \in Int /\ at[l] \in Int
  BY <1>1, <1>2
<1>4. at[k] # at[l]
  BY <1>1, <1>2, <1>3
<1> QED BY <1>1, <1>2, <1>3, <1>4

-----------------------------------------------------------------------------
(* Names and files. *)

\* Links are where the program was told they are.
LinksStand(tree) == DOMAIN tree = Path /\ \A p \in Path : tree[p] = "link" <=> p \in DOMAIN Target

LEMMA CanonicalIsNoLink ==
    ASSUME NEW tree, LinksStand(tree), NEW p \in Path
    PROVE  /\ Canonical(tree, p) \in Path \ DOMAIN Target
           /\ Canonical(tree, Canonical(tree, p)) = Canonical(tree, p)
BY NamesAssumption DEF LinksStand, Canonical

\* What a name leads to, as long as links stand.
Real(p) == IF p \in DOMAIN Target THEN Target[p] ELSE p

LEMMA CanonicalIsReal ==
    ASSUME NEW tree, LinksStand(tree), NEW p \in Path
    PROVE  /\ Canonical(tree, p) = Real(p) /\ Real(p) \in Path \ DOMAIN Target
           /\ Real(Real(p)) = Real(p)
BY NamesAssumption DEF LinksStand, Canonical, Real

LEMMA InputsTyped ==
    ASSUME NEW tree, LinksStand(tree), NEW given \in Config
    PROVE  /\ ExplicitInputs(tree, given) \in Seq(Path \cup Glob)
           /\ InputSet(tree, given) \subseteq Path \cup Glob
<1>1. ExplicitInputs(tree, given) \in Seq(Path \cup Glob)
  <2>1. given.files \in Seq(Path \cup Glob) /\ given.from.entries \in Seq(Path)
    BY DEF Config
  <2> DEFINE entries == given.from.entries
             followed == [i \in DOMAIN entries |-> Canonical(tree, entries[i])]
  <2>2. DOMAIN entries = 1..Len(entries) /\ Len(entries) \in Nat
        /\ \A i \in DOMAIN entries : Canonical(tree, entries[i]) \in Path
    BY <2>1, CanonicalIsNoLink
  <2> HIDE DEF entries
  <2>3. followed \in Seq(Path \cup Glob)
    BY <2>2
  <2>4. Listed(tree, given.from) \in Seq(Path \cup Glob)
    BY <2>3 DEF Listed, entries
  <2> QED BY <2>1, <2>4 DEF ExplicitInputs
<1>2. Elements(ExplicitInputs(tree, given)) \subseteq Path \cup Glob
  BY <1>1 DEF Elements
<1>3. SeededByIncludes(tree, given) \subseteq Path
  BY CanonicalIsNoLink DEF SeededByIncludes
<1> QED BY <1>1, <1>2, <1>3 DEF InputSet

LEMMA CandidatesAreFiles ==
    ASSUME NEW tree, LinksStand(tree), NEW given \in Config, NEW p \in Candidates(tree, given)
    PROVE  p \in Path /\ IsFile(tree, p) /\ Exists(tree, p)
<1>1. PICK i \in InputSet(tree, given) : p \in Expand(tree, given, i) /\ IsFile(tree, p)
  BY DEF Candidates
<1>2. i \in Path \cup Glob
  BY <1>1, InputsTyped
<1>3. Expand(tree, given, i) \subseteq Path
  <2>1. i \in Glob => GlobHits[i] \subseteq Path
    BY MatchingAssumption
  <2>2. Walk(tree, given, i) \subseteq Path
    BY DEF Walk
  <2> QED BY <1>2, <2>1, <2>2 DEF Expand
<1>4. p \in Path
  BY <1>1, <1>3
<1> QED BY <1>1, <1>4 DEF IsFile, Exists, Special

(* Files are chosen under their canonical names, each once: whatever names, links and
   globs lead to a file, it is one entry of the batch (resolve_file_list_with_diagnostics). *)
THEOREM SelectedOncePerFile ==
    ASSUME NEW tree, LinksStand(tree), NEW seen \in SUBSET Path
    PROVE  /\ Selected(tree, seen) \in Seq(Path)
           /\ Elements(Selected(tree, seen)) = {Canonical(tree, q) : q \in seen}
           /\ \A p \in Elements(Selected(tree, seen)) : p \notin DOMAIN Target
           /\ \A i, j \in DOMAIN Selected(tree, seen) :
                 i # j => Selected(tree, seen)[i] # Selected(tree, seen)[j]
<1> DEFINE names == {Canonical(tree, q) : q \in seen}
           I == {i \in DOMAIN SortedPaths : SortedPaths[i] \in names}
<1>1. Selected(tree, seen) = Picked(SortedPaths, I) /\ I \in SUBSET DOMAIN SortedPaths
  BY DEF Selected
<1>2. names \subseteq Path \ DOMAIN Target
  BY CanonicalIsNoLink
<1>3. {SortedPaths[i] : i \in I} = names
  BY <1>2, NamesAssumption
<1>4. /\ SortedPaths \in Seq(Path)
      /\ \A i, j \in DOMAIN SortedPaths : i # j => SortedPaths[i] # SortedPaths[j]
  BY NamesAssumption
<1> HIDE DEF I, names
<1>5. /\ Picked(SortedPaths, I) \in Seq(Path)
      /\ Elements(Picked(SortedPaths, I)) = names
  BY <1>1, <1>3, <1>4, PickedElements
<1>6. \A i, j \in DOMAIN Picked(SortedPaths, I) :
         i # j => Picked(SortedPaths, I)[i] # Picked(SortedPaths, I)[j]
  BY <1>1, <1>4, PickedOnce
<1> QED BY <1>1, <1>2, <1>5, <1>6 DEF names

-----------------------------------------------------------------------------
(* What probe says of an input that was not chosen. *)

LEMMA MissingAreGone ==
    ASSUME NEW tree, LinksStand(tree), NEW given \in Config
    PROVE  /\ MissingLiterals(tree, given) \in Seq(Path)
           /\ Elements(MissingLiterals(tree, given)) =
                {p \in Elements(ExplicitInputs(tree, given)) \ Glob : ~Exists(tree, p)}
<1> DEFINE inputs == ExplicitInputs(tree, given)
           I == {i \in DOMAIN inputs : inputs[i] \notin Glob /\ ~Exists(tree, inputs[i])}
           m == Picked(inputs, I)
<1>1. inputs \in Seq(Path \cup Glob)
  BY InputsTyped
<1>2. m \in Seq(Path \cup Glob) /\ Elements(m) = {inputs[i] : i \in I}
  BY <1>1, PickedElements
<1>3. {inputs[i] : i \in I} = {p \in Elements(inputs) \ Glob : ~Exists(tree, p)}
  BY DEF Elements
<1>4. \A k \in DOMAIN m : m[k] \in Path
  <2>1. \A k \in DOMAIN m : m[k] \in Elements(m)
    BY DEF Elements
  <2>2. Elements(inputs) \subseteq Path \cup Glob
    BY <1>1 DEF Elements
  <2> HIDE DEF m, I, inputs
  <2> QED BY <1>2, <1>3, <2>1, <2>2
<1>5. MissingLiterals(tree, given) = m
  BY DEF MissingLiterals
<1> HIDE DEF m, I, inputs
<1>6. m \in Seq(Path)
  BY <1>2, <1>4
<1> QED BY <1>2, <1>3, <1>5, <1>6 DEF inputs

LEMMA ExplainedAreLeft ==
    ASSUME NEW tree, LinksStand(tree), NEW given \in Config, NEW chosen, NEW gone
    PROVE  LET answers == Explain(tree, given, chosen, gone)
           IN /\ DOMAIN answers = 1..Len(answers) /\ Len(answers) \in Nat
              /\ \A i \in DOMAIN answers :
                    \E p \in Elements(ExplicitInputs(tree, given)) :
                       /\ ~Unexplained(tree, chosen, gone, p)
                       /\ answers[i] = [path |-> p, reason |-> Reason(tree, given, p)]
              /\ \A p \in Elements(ExplicitInputs(tree, given)) :
                    ~Unexplained(tree, chosen, gone, p) =>
                       \E i \in DOMAIN answers :
                          answers[i] = [path |-> p, reason |-> Reason(tree, given, p)]
<1> DEFINE inputs == ExplicitInputs(tree, given)
           I == {i \in DOMAIN inputs : ~Unexplained(tree, chosen, gone, inputs[i])}
           left == Picked(inputs, I)
           answers == [i \in DOMAIN left |-> [path |-> left[i], reason |-> Reason(tree, given, left[i])]]
<1>1. inputs \in Seq(Path \cup Glob)
  BY InputsTyped
<1>2. left \in Seq(Path \cup Glob) /\ Elements(left) = {inputs[i] : i \in I}
  BY <1>1, PickedElements
<1>3. Elements(left) = {p \in Elements(inputs) : ~Unexplained(tree, chosen, gone, p)}
  <2>1. {inputs[i] : i \in I} = {p \in Elements(inputs) : ~Unexplained(tree, chosen, gone, p)}
    BY DEF Elements
  <2> QED BY <1>2, <2>1
<1>4. Explain(tree, given, chosen, gone) = answers
  BY DEF Explain
<1> HIDE DEF inputs, I, left
<1>5. DOMAIN answers = 1..Len(answers) /\ Len(answers) \in Nat
  BY <1>2
<1>6. \A i \in DOMAIN left : left[i] \in Elements(left)
  BY DEF Elements
<1>7. \A p \in Elements(left) : \E i \in DOMAIN left : left[i] = p
  BY DEF Elements
<1> QED BY <1>3, <1>4, <1>5, <1>6, <1>7 DEF inputs

Leads(tree, chosen, p) ==
    \/ Canonical(tree, p) \in Elements(chosen)
    \/ IsDir(tree, p) /\ \E q \in Elements(chosen) : p \in Ancestors[q]

(* As long as the files stay as they are, an input that is neither chosen nor gone is
   answers, by one reason, and only such an input is (probe_explicit_file_selection). *)
LEMMA UnexplainedOrNot ==
    ASSUME NEW tree, LinksStand(tree), NEW given \in Config,
           NEW p \in Elements(ExplicitInputs(tree, given)) \ Glob
    PROVE  LET chosen == Selected(tree, Candidates(tree, given))
               gone == MissingLiterals(tree, given)
           IN /\ Leads(tree, chosen, p) => Exists(tree, p)
              /\ Unexplained(tree, chosen, gone, p)
                   <=> Leads(tree, chosen, p) \/ ~Exists(tree, p)
<1> DEFINE chosen == Selected(tree, Candidates(tree, given))
           gone == MissingLiterals(tree, given)
<1>1. p \in Path
  BY InputsTyped DEF Elements
<1>2. Candidates(tree, given) \in SUBSET Path
  BY CandidatesAreFiles
<1>3. /\ Elements(chosen) = {Canonical(tree, q) : q \in Candidates(tree, given)}
      /\ \A q \in Elements(chosen) : q \notin DOMAIN Target
  BY <1>2, SelectedOncePerFile
<1>4. /\ \A q \in Elements(gone) : q \in Path \ Glob /\ ~Exists(tree, q)
      /\ ~Exists(tree, p) => p \in Elements(gone)
  <2>1. Elements(gone) = {q \in Elements(ExplicitInputs(tree, given)) \ Glob : ~Exists(tree, q)}
    BY MissingAreGone
  <2>2. Elements(ExplicitInputs(tree, given)) \subseteq Path \cup Glob
    BY InputsTyped DEF Elements
  <2> HIDE DEF gone
  <2> QED BY <2>1, <2>2
<1> HIDE DEF chosen, gone
<1>5. \A q \in Elements(chosen) : q \in Path \ Glob /\ Canonical(tree, q) = q /\ Exists(tree, q)
  <2> SUFFICES ASSUME NEW c \in Candidates(tree, given)
               PROVE  LET q == Canonical(tree, c)
                      IN q \in Path \ Glob /\ Canonical(tree, q) = q /\ Exists(tree, q)
    BY <1>3
  <2>1. c \in Path /\ Exists(tree, c)
    BY CandidatesAreFiles
  <2> QED BY <2>1, CanonicalIsNoLink, MatchingAssumption DEF Exists
<1>6. Identities(tree, chosen) = Elements(chosen)
  BY <1>5 DEF Identities, Identity
<1>7. Identities(tree, gone) = Elements(gone)
  BY <1>4 DEF Identities, Identity
<1>8. Leads(tree, chosen, p) => Exists(tree, p)
  BY <1>1, <1>5, CanonicalIsNoLink DEF Leads, Exists, IsDir
<1>9. CASE Exists(tree, p)
  <2>1. Canonical(tree, p) \notin Elements(gone)
    BY <1>1, <1>4, <1>9, CanonicalIsNoLink DEF Exists
  <2> QED BY <1>6, <1>7, <1>9, <2>1 DEF Unexplained, Identity, HasSelectedDescendant, Leads, chosen, gone
<1>10. CASE ~Exists(tree, p)
  BY <1>4, <1>7, <1>8, <1>10 DEF Unexplained, Identity, chosen, gone
<1> QED BY <1>8, <1>9, <1>10 DEF chosen, gone

(* An input that leads to nothing chosen is so for a reason that fits: a file that no
   filter drops is a candidate, and would have been chosen. *)
LEMMA ReasonFits ==
    ASSUME NEW tree, LinksStand(tree), NEW given \in Config,
           NEW p \in Elements(ExplicitInputs(tree, given)) \ Glob, Exists(tree, p),
           ~Leads(tree, Selected(tree, Candidates(tree, given)), p)
    PROVE  Reason(tree, given, p) \in Reasons \ {"NOT_FOUND", "EXCLUDED_BY_DISCOVERY_FILTER"}
<1>1. Candidates(tree, given) \in SUBSET Path
  BY CandidatesAreFiles
<1>2. p \notin Candidates(tree, given)
  BY <1>1, SelectedOncePerFile DEF Leads
<1>3. ExplicitInputs(tree, given) # <<>> /\ p \in InputSet(tree, given)
  BY DEF InputSet, Elements
<1>4. CASE IsDir(tree, p)
  BY <1>4 DEF Reason, Reasons
<1>5. CASE ~IsDir(tree, p)
  <2>1. IsFile(tree, p)
    <3>1. p \in Path
      BY InputsTyped DEF Elements
    <3> QED BY <1>5, <3>1, CanonicalIsNoLink DEF IsFile, IsDir, Exists, Special, LinksStand
  <2>2. p \in Expand(tree, given, p)
    BY <1>5, <2>1 DEF Expand
  <2>3. ExcludedByPath(tree, given, p) \/ ExcludedByType(given, p)
    BY <1>2, <1>3, <2>1, <2>2 DEF Candidates
  <2> QED BY <1>5, <2>3 DEF Reason, Reasons
<1> QED BY <1>4, <1>5

-----------------------------------------------------------------------------
(* Exit codes.  Implies(r, n): the result implies the code of rank n. *)

Implies(r, n) ==
    \/ n = 1 /\ r.fs = "NOT_FOUND"
    \/ n = 2 /\ r.fs \in {"NO_READ_PERMISSION", "NO_WRITE_PERMISSION"}
    \/ n = 3 /\ r.fs = "UNICODE_DECODE_ERROR"
    \/ n = 4 /\ (r.write = "FAILED" \/ r.fs = "UNREADABLE" \/ r.content = "UNREADABLE")
    \/ n = 6 /\ r.render = "FAILED"

Some(rs, n) == \E i \in DOMAIN rs : Implies(rs[i], n)

First(rs) == IF Some(rs, 1) THEN 1 ELSE IF Some(rs, 2) THEN 2 ELSE IF Some(rs, 3) THEN 3
             ELSE IF Some(rs, 4) THEN 4 ELSE IF Some(rs, 6) THEN 6 ELSE 7

Coded(n) == IF n = 7 THEN "none" ELSE Priority[n]

LEMMA CodeOfFirst == \A rs : CodeOf(rs) = Coded(First(rs))
BY DEF CodeOf, Coded, First, Some, Implies, Priority

LEMMA Ranks ==
    /\ \A n \in {1, 2, 3, 4, 6} : Rank(Coded(n)) = n /\ Coded(n) # "none"
    /\ Coded(7) = "none"
BY DEF Rank, Coded, Priority

(* One more result: the code is the more important of that of the results so far
   and its own (select_exit_code). *)
LEMMA CodeOfAppended ==
    ASSUME NEW S, NEW rs \in Seq(S), NEW r
    PROVE  CodeOf(Append(rs, r)) =
              IF CodeOf(<<r>>) = "none" THEN CodeOf(rs)
              ELSE SelectExitCode(CodeOf(rs), CodeOf(<<r>>))
<1> DEFINE m == First(rs)
           k == First(<<r>>)
<1>1. \A n : Some(<<r>>, n) <=> Implies(r, n)
  BY DEF Some
<1>2. \A n : Some(Append(rs, r), n) <=> Some(rs, n) \/ Implies(r, n)
  <2>1. /\ DOMAIN Append(rs, r) = DOMAIN rs \cup {Len(rs) + 1}
        /\ \A i \in DOMAIN rs : Append(rs, r)[i] = rs[i]
        /\ Append(rs, r)[Len(rs) + 1] = r
    OBVIOUS
  <2> QED BY <2>1 DEF Some
<1>3. m \in {1, 2, 3, 4, 6, 7} /\ k \in {1, 2, 3, 4, 6, 7}
  BY DEF First
<1>4. First(Append(rs, r)) = IF k < m THEN k ELSE m
  BY <1>1, <1>2 DEF First
<1>5. SelectExitCode(Coded(m), Coded(k)) = IF m = 7 \/ Rank(Coded(k)) < Rank(Coded(m)) THEN Coded(k) ELSE Coded(m)
  BY <1>3, Ranks DEF SelectExitCode
<1>6. CodeOf(rs) = Coded(m) /\ CodeOf(<<r>>) = Coded(k)
      /\ CodeOf(Append(rs, r)) = Coded(IF k < m THEN k ELSE m)
  BY <1>4, CodeOfFirst
<1> HIDE DEF m, k
<1>7. CASE k = 7
  BY <1>3, <1>6, <1>7, Ranks
<1>8. CASE k # 7
  BY <1>3, <1>5, <1>6, <1>8, Ranks
<1> QED BY <1>7, <1>8

LEMMA NoCodeOfNone == CodeOf(<<>>) = "none"
BY CodeOfFirst DEF First, Some, Coded

LEMMA CodeOfMember ==
    ASSUME NEW rs, NEW i \in DOMAIN rs, CodeOf(<<rs[i]>>) # "none"
    PROVE  CodeOf(rs) # "none"
<1>1. First(<<rs[i]>>) # 7
  BY CodeOfFirst DEF Coded
<1>2. First(rs) \in {1, 2, 3, 4, 6}
  BY <1>1 DEF First, Some
<1> QED BY <1>2, CodeOfFirst, Ranks

-----------------------------------------------------------------------------
(* Results *)

Verdict == [path : {Temp},
            fs : {"OK", "PENDING", "NOT_FOUND", "HARD_LINK_DUPLICATE", "NO_READ_PERMISSION",
                  "UNICODE_DECODE_ERROR", "UNREADABLE"},
            resolve : {"RESOLVED", "PENDING", "UNSUPPORTED"},
            content : {"OK", "PENDING"},
            render : {"RENDERED", "PENDING", "FAILED"},
            write : {"PENDING", "WRITTEN", "FAILED"}, change : BOOLEAN, error : BOOLEAN,
            probe : {"none", "resolved", "unsupported", "filtered"}]

\* A failure is diagnosed, or is a file that is not there.
Diagnosed(r) == CodeOf(<<r>>) # "none" /\ r.fs # "NOT_FOUND" => r.error

LEMMA Placed ==
    ASSUME NEW v \in Verdict, NEW p
    PROVE  /\ CodeOf(<<[v EXCEPT !.path = p]>>) = CodeOf(<<v>>)
           /\ Diagnosed(v) => Diagnosed([v EXCEPT !.path = p])
           /\ [v EXCEPT !.path = p].change \in BOOLEAN
<1>1. \A n : Implies([v EXCEPT !.path = p], n) <=> Implies(v, n)
  BY DEF Verdict, Implies
<1>2. First(<<[v EXCEPT !.path = p]>>) = First(<<v>>)
  BY <1>1 DEF First, Some
<1> QED BY <1>2, CodeOfFirst DEF Verdict, Diagnosed

LEMMA Uncoded ==
    ASSUME NEW v, \A n \in {1, 2, 3, 4, 6} : ~Implies(v, n)
    PROVE  CodeOf(<<v>>) = "none"
<1>1. First(<<v>>) = 7
  BY DEF First, Some
<1> QED BY <1>1, CodeOfFirst DEF Coded

LEMMA VerdictsTold ==
    /\ \A p : \A v \in Verdicts(p) : v \in Verdict /\ Diagnosed(v)
    /\ \A v \in {NotFound, HardLinked, Filtered} : v \in Verdict /\ Diagnosed(v)
<1> DEFINE Told(v) == v \in Verdict /\ Diagnosed(v)
<1>1. ASSUME NEW v \in Verdict, v.error \/ v.fs = "NOT_FOUND" \/ \A n \in {1, 2, 3, 4, 6} : ~Implies(v, n)
      PROVE  Told(v)
  BY <1>1, Uncoded DEF Diagnosed
<1> HIDE DEF Told
<1>c. /\ Clean \in Verdict /\ Clean.fs = "OK" /\ Clean.content = "OK"
      /\ Clean.write = "PENDING" /\ Clean.render = "RENDERED"
  BY DEF Clean, Verdict
<1>n. NotFound \in Verdict /\ NotFound.fs = "NOT_FOUND" /\ NotFound.content = "PENDING"
      /\ NotFound.write = "PENDING" /\ NotFound.render = "PENDING"
  BY <1>c DEF NotFound, Verdict
<1>o. Outdated \in Verdict /\ Outdated.fs = "OK" /\ Outdated.content = "OK"
      /\ Outdated.write = "PENDING" /\ Outdated.render = "RENDERED"
  BY <1>c DEF Outdated, Verdict
<1>2. \A v \in {NotFound, HardLinked, Filtered, Clean, Unsupported, Unrendered} : Told(v)
  <2>1. Told(NotFound)
    BY <1>n, <1>1
  <2>2. Told(Clean)
    BY <1>c, <1>1 DEF Implies
  <2>3. HardLinked \in Verdict /\ \A n \in {1, 2, 3, 4, 6} : ~Implies(HardLinked, n)
    BY <1>n DEF HardLinked, Verdict, Implies
  <2>4. Filtered \in Verdict /\ \A n \in {1, 2, 3, 4, 6} : ~Implies(Filtered, n)
    BY <1>n DEF Filtered, Verdict, Implies
  <2>5. Unsupported \in Verdict /\ \A n \in {1, 2, 3, 4, 6} : ~Implies(Unsupported, n)
    BY <1>c DEF Unsupported, Verdict, Implies
  <2>6. Unrendered \in Verdict /\ Unrendered.error
    BY <1>c DEF Unrendered, Verdict
  <2> QED BY <2>1, <2>2, <2>3, <2>4, <2>5, <2>6, <1>1
<1>3. \A v \in Unreadable : Told(v)
  <2>1. ASSUME NEW f \in {"NO_READ_PERMISSION", "UNICODE_DECODE_ERROR", "UNREADABLE"}
        PROVE  Told([NotFound EXCEPT !.fs = f, !.error = TRUE])
    <3> DEFINE v == [NotFound EXCEPT !.fs = f, !.error = TRUE]
    <3>1. v \in Verdict /\ v.error
      BY <1>n DEF Verdict
    <3> QED BY <3>1, <1>1
  <2> QED BY <2>1 DEF Unreadable
<1>4. \A v \in Changed : Told(v)
  <2>1. Told(Outdated)
    BY <1>o, <1>1 DEF Implies
  <2>2. Told([Outdated EXCEPT !.write = "WRITTEN"])
    <3> DEFINE v == [Outdated EXCEPT !.write = "WRITTEN"]
    <3>1. v \in Verdict /\ \A n \in {1, 2, 3, 4, 6} : ~Implies(v, n)
      BY <1>o DEF Verdict, Implies
    <3> QED BY <3>1, <1>1
  <2>3. Told([Outdated EXCEPT !.write = "FAILED", !.error = TRUE])
    <3> DEFINE v == [Outdated EXCEPT !.write = "FAILED", !.error = TRUE]
    <3>1. v \in Verdict /\ v.error
      BY <1>o DEF Verdict
    <3> QED BY <3>1, <1>1
  <2> QED BY <2>1, <2>2, <2>3 DEF Changed
<1>5. \A v \in Probed : Told(v)
  <2>1. ASSUME NEW x \in {"resolved", "unsupported"}
        PROVE  Told([Clean EXCEPT !.fs = "PENDING", !.content = "PENDING",
                                  !.render = "PENDING", !.probe = x])
    <3> DEFINE v == [Clean EXCEPT !.fs = "PENDING", !.content = "PENDING",
                                  !.render = "PENDING", !.probe = x]
    <3>1. v \in Verdict /\ \A n \in {1, 2, 3, 4, 6} : ~Implies(v, n)
      BY <1>c DEF Verdict, Implies
    <3> QED BY <3>1, <1>1
  <2> QED BY <2>1 DEF Probed
<1> QED BY <1>2, <1>3, <1>4, <1>5 DEF Verdicts, Told

-----------------------------------------------------------------------------
(* The invariant: what the consumer has seen is a function of where the run is, and
   the statistics and the engine's code are those of the results and losses. *)

Stats == [exit : Failures \cup {"none"}, written : Int, failed : Int, change : BOOLEAN,
          missing : BOOLEAN, unresolved : BOOLEAN]

Kept ==
    /\ inv \in Invocation
    /\ \E S : results \in Seq(S)
    /\ stats \in Stats

Told ==
    /\ FromCli => stats.exit = CodeOf(results)
    /\ lost # {} => engine # "none"
    /\ \A i \in DOMAIN results : Diagnosed(results[i])

Before == {"plan", "load", "prepare", "find", "identify", "explain", "check_inputs"}
During == {"links", "files"}
Started(n) == [state |-> "started", expected |-> n]

Streamed ==
    /\ pc \in Before \cup During \cup {"report"} /\ (pc \in During => ~FromCli)
          => sent = 0 /\ consumer = NewConsumer
    /\ pc \in Before \cup {"links"} => results = <<>>
    /\ pc \in During /\ FromCli => sent > 0 /\ consumer = Started(Len(results))
    /\ pc = "finish" => FromCli /\ consumer.state = "completed"
    /\ pc \in {"report", "events"} => ~FromCli
    /\ pc = "events" => sent - 1 \in 0..Len(shown) /\ consumer = Started(sent - 1)
    /\ Done => consumer.state # "rejected" /\ (sent > 0 => consumer.state = "completed")
    /\ sent \in Nat
    /\ pc \in Before \cup During \cup {"finish", "report", "events", "done"}

IInv == Kept /\ Told /\ Streamed

LEMMA InitIInv == Init => IInv
<1> SUFFICES ASSUME Init PROVE IInv
  OBVIOUS
<1>1. Kept
  <2>1. results \in Seq({})
    BY DEF Init
  <2>2. inv \in Invocation
    BY InvocationsAssumption DEF Init
  <2> QED BY <2>1, <2>2 DEF Init, Kept, Stats, NoStats
<1>2. Told
  BY NoCodeOfNone DEF Init, Told, NoStats
<1>3. Streamed
  BY DEF Init, Streamed, Before, During, Done
<1> QED BY <1>1, <1>2, <1>3 DEF IInv

(* A result that is sent in its turn is taken, and observed. *)
LEMMA EmitKeeps ==
    ASSUME IInv, pc = "files", pc' = "files", NEW p, NEW v \in Verdict, Diagnosed(v),
           Emit(p, v), UNCHANGED <<inv, lost, engine>>
    PROVE  IInv'
<1> DEFINE r == [v EXCEPT !.path = p]
<1>1. results' = Append(results, r) /\ UNCHANGED shown
  BY DEF Emit
<1>2. PICK S : results \in Seq(S)
  BY DEF IInv, Kept
<1>3. r.change \in BOOLEAN /\ Diagnosed(r)
  BY Placed
<1> HIDE DEF r
<1>4. results' \in Seq(S \cup {r}) /\ Len(results') = Len(results) + 1
  BY <1>1, <1>2
<1>5. CodeOf(<<r>>) \in Failures \cup {"none"}
  BY CodeOfFirst DEF Coded, First, Failures, Priority
<1>6. CASE FromCli
  <2>1. stats' = Observe(stats, r) /\ Send("file_result", Len(results), 0)
    BY <1>6 DEF Emit, FromCli, r
  <2>2. stats \in Stats /\ stats.exit = CodeOf(results)
    BY <1>6 DEF IInv, Kept, Told
  <2>3. DEFINE code == IF CodeOf(<<r>>) = "none" THEN stats.exit
                       ELSE SelectExitCode(stats.exit, CodeOf(<<r>>))
  <2>4. code = CodeOf(results') /\ code \in Failures \cup {"none"}
    BY <1>1, <1>2, <1>5, <2>2, CodeOfAppended DEF SelectExitCode, Stats
  <2>5. ObserveCode(stats, r) = [stats EXCEPT !.exit = code]
    BY DEF ObserveCode
  <2> HIDE DEF code
  <2>6. Observe(stats, r) \in Stats /\ Observe(stats, r).exit = code
    <3> DEFINE o == ObserveCode(stats, r)
               w == IF r.write = "WRITTEN" THEN 1 ELSE 0
               f == IF r.write = "FAILED" THEN 1 ELSE 0
               miss == r.probe = "none"
               open == r.probe \notin {"none", "resolved"}
    <3>1. o \in Stats /\ o.exit = code
      BY <2>2, <2>4, <2>5 DEF Stats
    <3>2. Observe(stats, r) =
            IF inv.command = "probe"
            THEN [o EXCEPT !.missing = @ \/ miss, !.unresolved = @ \/ open]
            ELSE [o EXCEPT !.written = @ + w, !.failed = @ + f, !.change = @ \/ r.change]
      BY DEF Observe, ObserveContent, ObserveProbe
    <3>3. w \in Int /\ f \in Int /\ miss \in BOOLEAN /\ open \in BOOLEAN
      OBVIOUS
    <3> HIDE DEF o, w, f, miss, open
    <3>4. [o EXCEPT !.missing = @ \/ miss, !.unresolved = @ \/ open] \in Stats
      BY <3>1, <3>3 DEF Stats
    <3>5. [o EXCEPT !.written = @ + w, !.failed = @ + f, !.change = @ \/ r.change] \in Stats
      <4> DEFINE c == o.change \/ r.change
                 nw == o.written + w
                 nf == o.failed + f
      <4>1. c \in BOOLEAN /\ nw \in Int /\ nf \in Int
        BY <3>1, <3>3 DEF Stats
      <4> HIDE DEF c, nw, nf
      <4>2. [o EXCEPT !.written = nw, !.failed = nf, !.change = c] \in Stats
        BY <3>1, <4>1 DEF Stats
      <4> QED BY <4>2 DEF c, nw, nf
    <3>6. /\ [o EXCEPT !.missing = @ \/ miss, !.unresolved = @ \/ open].exit = code
          /\ [o EXCEPT !.written = @ + w, !.failed = @ + f, !.change = @ \/ r.change].exit = code
      BY <3>1 DEF Stats
    <3> QED BY <3>2, <3>4, <3>5, <3>6
  <2>7. consumer = Started(Len(results)) /\ sent > 0 /\ sent \in Nat
    BY <1>6 DEF IInv, Streamed, During
  <2>8. inv \in Invocation
    BY DEF IInv, Kept
  <2>9. consumer' = Started(Len(results) + 1) /\ sent' = sent + 1
    BY <2>1, <2>7, <2>8, <1>6
       DEF Send, Consume, InOrder, Taken, TakenByWriter, TakenByProbeWriter, Started,
           FromCli, Invocation
  <2>10. Kept'
    BY <1>4, <2>1, <2>6, <2>8 DEF Kept
  <2>11. Told'
    BY <1>1, <1>2, <1>3, <1>6, <2>1, <2>4, <2>6 DEF Told, IInv, FromCli
  <2>12. Streamed'
    BY <1>4, <1>6, <2>7, <2>9 DEF Streamed, Before, During, Done, FromCli
  <2> QED BY <2>10, <2>11, <2>12 DEF IInv
<1>7. CASE ~FromCli
  <2>1. UNCHANGED <<stats, sent, consumer>>
    BY <1>7 DEF Emit, FromCli
  <2>2. Kept'
    BY <1>4, <2>1 DEF Kept, IInv
  <2>3. Told'
    BY <1>1, <1>2, <1>3, <1>7, <2>1 DEF Told, IInv, FromCli
  <2>4. Streamed'
    BY <1>4, <1>7, <2>1 DEF IInv, Streamed, Before, During, Done, FromCli
  <2> QED BY <2>2, <2>3, <2>4 DEF IInv
<1> QED BY <1>6, <1>7

LEMMA SyntheticTold ==
    ASSUME NEW i \in DOMAIN Synthetic
    PROVE  Synthetic[i].verdict \in Verdict /\ Diagnosed(Synthetic[i].verdict)
<1>1. Synthetic[i].verdict \in {NotFound, Filtered}
  BY DEF Synthetic
<1> QED BY <1>1, VerdictsTold

(* Steps that make no result and send no event leave the rest as it is. *)
LEMMA QuietKeeps ==
    ASSUME Kept, Told, UNCHANGED <<inv, lost, engine, results, stats>>
    PROVE  Kept' /\ Told'
BY DEF Kept, Told, FromCli

LEMMA StepIInv == IInv /\ [Next]_vars => IInv'
<1> SUFFICES ASSUME IInv, [Next]_vars PROVE IInv'
  OBVIOUS
<1>i. /\ Kept /\ Told /\ Streamed
      /\ inv \in Invocation /\ sent \in Nat
  BY DEF IInv, Kept, Streamed
<1>1. CASE UNCHANGED vars
  BY <1>1, <1>i, QuietKeeps
     DEF vars, IInv, Streamed, Before, During, Done, FromCli
<1>2. CASE Plan \/ Load \/ Prepare \/ Find \/ Identify \/ ExplainInputs
  <2>1. /\ pc \in Before /\ pc' \in Before \cup {"done"}
        /\ UNCHANGED <<inv, lost, engine, results, stats, sent, consumer>>
    BY <1>2 DEF Plan, Load, Prepare, Find, Identify, ExplainInputs, Goto, End, Before,
                input, engineState, stream
  <2>2. Streamed'
    BY <2>1, <1>i DEF Streamed, Before, During, Done, FromCli, NewConsumer
  <2> QED BY <2>1, <2>2, <1>i, QuietKeeps DEF IInv
<1>3. CASE CheckInputs
  <2>1. /\ pc = "check_inputs" /\ UNCHANGED <<inv, lost, engine, results, stats>>
        /\ \/ pc' = "done" /\ UNCHANGED <<sent, consumer>>
           \/ pc' = "links" /\ FromCli /\ Send("run_started", 0, 0)
           \/ pc' = "links" /\ ~FromCli /\ UNCHANGED <<sent, consumer>>
    BY <1>3 DEF CheckInputs, Goto, End, input, engineState, FromCli
  <2>2. consumer = NewConsumer /\ sent = 0 /\ results = <<>>
    BY <2>1, <1>i DEF Streamed, Before, During
  <2>3. Send("run_started", 0, 0) => consumer' = Started(0) /\ sent' = 1
    BY <2>2, <1>i DEF Send, Consume, InOrder, Taken, TakenByWriter, TakenByProbeWriter,
                      TakenByCollector, NewConsumer, Started, Invocation
  <2>4. Streamed'
    BY <2>1, <2>2, <2>3, <1>i DEF Streamed, Before, During, Done, FromCli, NewConsumer
  <2> QED BY <2>1, <2>4, <1>i, QuietKeeps DEF IInv
<1>4. CASE StartEngine
  <2>1. /\ pc = "links" /\ pc' = "files"
        /\ UNCHANGED <<inv, lost, engine, results, stats, sent, consumer>>
    BY <1>4 DEF StartEngine, Goto, input, stream
  <2>2. Streamed'
    BY <2>1, <1>i DEF Streamed, Before, During, Done, FromCli
  <2> QED BY <2>1, <2>2, <1>i, QuietKeeps DEF IInv
<1>5. CASE Block
  BY <1>5, EmitKeeps, VerdictsTold DEF Block, Turn, Goto, input
<1>6. CASE Process
  <2>1. PICK v \in Verdicts(Current) : Emit(Current, v)
    BY <1>6 DEF Process
  <2> QED BY <1>6, <2>1, EmitKeeps, VerdictsTold DEF Process, Turn, Goto, input
<1>7. CASE Raise
  <2>1. /\ pc = "files" /\ pc' = "files" /\ engine' # "none"
        /\ UNCHANGED <<inv, results, stats, sent, consumer>>
    BY <1>7 DEF Raise, Turn, Goto, input, stream
  <2>2. Kept' /\ Told'
    BY <2>1, <1>i DEF Kept, Told, FromCli
  <2>3. Streamed'
    BY <2>1, <1>i DEF Streamed, Before, During, Done, FromCli
  <2> QED BY <2>2, <2>3 DEF IInv
<1>8. CASE Supplement
  <2> DEFINE i == next - Len(selected)
  <2>1. i \in DOMAIN Synthetic /\ Emit(Synthetic[i].path, Synthetic[i].verdict)
        /\ pc = "files" /\ pc' = "files" /\ UNCHANGED <<inv, lost, engine>>
    BY <1>8 DEF Supplement, Goto, input
  <2> HIDE DEF i
  <2> QED BY <2>1, EmitKeeps, SyntheticTold
<1>9. CASE Complete
  <2>1. /\ pc = "files" /\ UNCHANGED <<inv, lost, engine, results, stats>>
        /\ \/ pc' = "finish" /\ FromCli /\ Send("run_completed", 0, 0)
           \/ pc' = "report" /\ ~FromCli /\ UNCHANGED <<sent, consumer>>
    BY <1>9 DEF Complete, Goto, input, engineState, FromCli
  <2>2. CASE pc' = "finish" /\ FromCli /\ Send("run_completed", 0, 0)
    <3>1. consumer = Started(Len(results))
      BY <2>1, <2>2, <1>i DEF Streamed, During
    <3>2. consumer'.state = "completed" /\ sent' = sent + 1
      BY <2>2, <3>1, <1>i DEF Send, Consume, InOrder, Taken, TakenByWriter, TakenByProbeWriter,
                              Started, Invocation, FromCli
    <3>3. Streamed'
      BY <2>1, <2>2, <3>2, <1>i DEF Streamed, Before, During, Done, FromCli
    <3> QED BY <2>1, <3>3, <1>i, QuietKeeps DEF IInv
  <2>3. CASE pc' = "report" /\ ~FromCli /\ UNCHANGED <<sent, consumer>>
    <3>1. Streamed'
      BY <2>1, <2>3, <1>i DEF Streamed, Before, During, Done, FromCli
    <3> QED BY <2>1, <3>1, <1>i, QuietKeeps DEF IInv
  <2> QED BY <2>1, <2>2, <2>3
<1>10. CASE FinishContent \/ FinishProbe
  <2>1. /\ pc = "finish" /\ pc' = "done"
        /\ UNCHANGED <<inv, lost, engine, results, stats, sent, consumer>>
    BY <1>10 DEF FinishContent, FinishProbe, End, input, engineState, stream
  <2>2. Streamed'
    BY <2>1, <1>i DEF Streamed, Before, During, Done, FromCli
  <2> QED BY <2>1, <2>2, <1>i, QuietKeeps DEF IInv
<1>11. CASE ReportContent \/ ReportProbe
  <2>1. /\ pc = "report" /\ pc' = "events" /\ Send("run_started", 0, 0)
        /\ UNCHANGED <<inv, lost, engine, results, stats>>
    BY <1>11 DEF ReportContent, ReportProbe, Goto, input, engineState
  <2>2. consumer = NewConsumer /\ sent = 0 /\ ~FromCli
    BY <2>1, <1>i DEF Streamed, During
  <2>3. consumer' = Started(0) /\ sent' = 1
    BY <2>1, <2>2, <1>i DEF Send, Consume, InOrder, Taken, TakenByWriter, TakenByProbeWriter,
                            TakenByCollector, NewConsumer, Started, Invocation, FromCli
  <2>4. Len(shown') \in Nat
    OBVIOUS
  <2>5. Streamed'
    BY <2>1, <2>2, <2>3, <2>4, <1>i DEF Streamed, Before, During, Done, FromCli
  <2> QED BY <2>1, <2>5, <1>i, QuietKeeps DEF IInv
<1>12. CASE NextEvent
  <2>1. /\ pc = "events" /\ pc' = "events" /\ sent <= Len(shown)
        /\ Send("file_result", sent - 1, 0)
        /\ UNCHANGED <<inv, lost, engine, results, stats, shown>>
    BY <1>12 DEF NextEvent, Goto, input, engineState
  <2>2. consumer = Started(sent - 1) /\ sent - 1 \in 0..Len(shown) /\ ~FromCli
    BY <2>1, <1>i DEF Streamed
  <2>3. consumer' = Started(sent) /\ sent' = sent + 1
    BY <2>1, <2>2, <1>i DEF Send, Consume, InOrder, Taken, TakenByCollector, Started,
                            Invocation, FromCli
  <2>4. Len(shown) \in Nat /\ shown' = shown
    BY <2>1
  <2>5. Streamed'
    BY <2>1, <2>2, <2>3, <2>4, <1>i DEF Streamed, Before, During, Done, FromCli
  <2> QED BY <2>1, <2>5, <1>i, QuietKeeps DEF IInv
<1>13. CASE Return
  <2>1. /\ pc = "events" /\ pc' = "done" /\ sent > Len(shown)
        /\ Send("run_completed", 0, Len(shown))
        /\ UNCHANGED <<inv, lost, engine, results, stats, shown>>
    BY <1>13 DEF Return, End, input, engineState
  <2>2. consumer = Started(sent - 1) /\ sent - 1 \in 0..Len(shown) /\ ~FromCli
    BY <2>1, <1>i DEF Streamed
  <2>3. sent - 1 = Len(shown)
    BY <2>1, <2>2, <1>i
  <2>4. consumer'.state = "completed" /\ sent' = sent + 1
    BY <2>1, <2>2, <2>3, <1>i DEF Send, Consume, InOrder, Taken, TakenByCollector, Started,
                                  Invocation, FromCli
  <2>5. Streamed'
    BY <2>1, <2>2, <2>4, <1>i DEF Streamed, Before, During, Done, FromCli
  <2> QED BY <2>1, <2>5, <1>i, QuietKeeps DEF IInv
<1>14. CASE Others
  <2>1. UNCHANGED <<inv, pc, lost, engine, results, shown, stats, sent, consumer>>
    BY <1>14 DEF Others, input, engineState, stream
  <2>2. Streamed'
    BY <2>1, <1>i DEF Streamed, Before, During, Done, FromCli
  <2> QED BY <2>1, <2>2, <1>i, QuietKeeps DEF IInv
<1> QED BY <1>1, <1>2, <1>3, <1>4, <1>5, <1>6, <1>7, <1>8, <1>9, <1>10, <1>11, <1>12,
           <1>13, <1>14 DEF Next, Command

LEMMA IInvHolds == Spec => []IInv
BY InitIInv, StepIInv, PTL DEF Spec

(* For any inputs, file system, pipeline results and interference: no consumer of
   the event stream ever raises, and a run that has begun a stream completes it. *)
THEOREM StreamIsAccepted == Spec => []StreamAccepted
<1>1. IInv => StreamAccepted
  <2> SUFFICES ASSUME IInv PROVE StreamAccepted
    OBVIOUS
  <2>1. Streamed
    BY DEF IInv
  <2> QED BY <2>1 DEF Streamed, StreamAccepted, Before, During, Done, NewConsumer, Started, FromCli
<1> QED BY <1>1, IInvHolds, PTL

(* For batches of any length the exit code kept while results stream by is the one
   that all results together imply. *)
THEOREM ExitCodeOfStream == Spec => []ExitCodeIsThatOfAllResults
<1>1. IInv => ExitCodeIsThatOfAllResults
  BY DEF IInv, Told, ExitCodeIsThatOfAllResults
<1> QED BY <1>1, IInvHolds, PTL

(* A lost or failed file is told to the caller of the API, whatever its report shows. *)
THEOREM CallerIsTold == Spec => []HadErrorsTellsFailures
<1>1. IInv => HadErrorsTellsFailures
  <2> SUFFICES ASSUME IInv,
                      \/ lost # {}
                      \/ \E i \in DOMAIN results : /\ CodeOf(<<results[i]>>) # "none"
                                                   /\ inv.command = "probe" \/ results[i].fs # "NOT_FOUND"
               PROVE  HadErrors
    BY DEF HadErrorsTellsFailures
  <2>1. CASE engine # "none"
    BY <2>1 DEF HadErrors
  <2>2. CASE engine = "none"
    <3>1. PICK i \in DOMAIN results : /\ CodeOf(<<results[i]>>) # "none"
                                      /\ inv.command = "probe" \/ results[i].fs # "NOT_FOUND"
      BY <2>2 DEF IInv, Told
    <3>2. CASE inv.command = "probe"
      BY <2>2, <3>1, <3>2, CodeOfMember DEF HadErrors
    <3>3. CASE inv.command # "probe"
      BY <3>1, <3>3 DEF HadErrors, IInv, Told, Diagnosed
    <3> QED BY <3>2, <3>3
  <2> QED BY <2>1, <2>2
<1> QED BY <1>1, IInvHolds, PTL
-----------------------------------------------------------------------------
(* What was chosen.  Links and directories stand whatever other programs do, so that
   what a name leads to is settled, and a selected path is neither missing nor explained. *)

Choosing == {"plan", "load", "prepare", "find", "identify"}

Standing ==
    /\ LinksStand(node) /\ node[Temp] # "dir"
    /\ ~inv.stdin \/ pc = "plan" => node[Temp] = "absent"
    /\ \A p \in found : p \in Path /\ node[Real(p)] # "dir"

Picks ==
    /\ cfg \in Config /\ selected \in Seq(Path) /\ missing \in Seq(Path)
    /\ \A i, j \in DOMAIN selected : i # j => selected[i] # selected[j]
    /\ \A p \in Elements(selected) : \E q \in found : p = Real(q)
    /\ \A p \in found : Real(p) \notin Elements(missing)
    /\ Len(explained) \in Nat
    /\ \A i \in 1..Len(explained) : explained[i].path \notin Elements(selected)
    /\ pc \in Choosing => selected = <<>> /\ explained = <<>>
    /\ inv.stdin /\ pc = "identify" => found # {}
    /\ inv.stdin /\ pc \notin Choosing \cup {"done"} => selected # <<>>

Chosen == Standing /\ Picks

LEMMA InitChosen == Init => Chosen
<1> SUFFICES ASSUME Init PROVE Chosen
  OBVIOUS
<1>1. LinksStand(node) /\ node[Temp] = "absent"
  BY TreesAssumption DEF Init, LinksStand
<1>2. cfg \in Config
  BY ConfigsAssumption DEF Init
<1>3. Standing
  BY <1>1 DEF Init, Standing
<1>4. Picks
  BY <1>2 DEF Init, Picks, Elements, Choosing
<1> QED BY <1>3, <1>4 DEF Chosen

(* What other programs do, and the copy of standard input, leave links and directories. *)
LEMMA OthersStand ==
    ASSUME LinksStand(node), node[Temp] # "dir", Others
    PROVE  /\ LinksStand(node') /\ node'[Temp] = node[Temp]
           /\ \A p \in Path : node'[p] = "dir" => node[p] = "dir"
<1>1. PICK p, new :
         /\ p \in Path \ {Temp}
         /\ node[p] \notin {"dir", "link"} /\ node' = [node EXCEPT ![p] = new]
         /\ new \notin {"dir", "link"}
  BY TempAssumption DEF Others, Special
<1> QED BY <1>1, TempAssumption DEF LinksStand

LEMMA CopyStands ==
    ASSUME LinksStand(node), NEW copy \in {"absent", StdinInode},
           node' = [node EXCEPT ![Temp] = copy]
    PROVE  /\ LinksStand(node') /\ node'[Temp] = copy
           /\ \A p \in Path : node'[p] = "dir" => node[p] = "dir"
BY TempAssumption DEF LinksStand, Special

LEMMA StandingKept ==
    ASSUME Chosen, LinksStand(node'), node'[Temp] # "dir", UNCHANGED <<inv, found>>,
           \A p \in Path : node'[p] = "dir" => node[p] = "dir",
           ~inv.stdin \/ pc' = "plan" => node'[Temp] = "absent"
    PROVE  Standing'
<1>1. \A p \in found : p \in Path /\ node[Real(p)] # "dir" /\ Real(p) \in Path
  BY CanonicalIsReal DEF Chosen, Standing
<1> QED BY <1>1 DEF Standing

LEMMA FindChosen == IInv /\ Chosen /\ Find => Chosen'
<1> SUFFICES ASSUME IInv, Chosen, Find PROVE Chosen'
  OBVIOUS
<1>1. /\ LinksStand(node) /\ cfg \in Config /\ selected = <<>> /\ explained = <<>>
      /\ node[Temp] # "dir" /\ (~inv.stdin => node[Temp] = "absent")
      /\ pc' = "identify" /\ UNCHANGED <<inv, cfg, node, selected, explained>>
  BY DEF Find, Chosen, Standing, Picks, Choosing, Goto, input
<1>2. \A p \in found' : p \in Path /\ node[Real(p)] # "dir"
  <2>1. CASE inv.stdin
    BY <1>1, <2>1, TempAssumption DEF Find, Real
  <2>2. CASE ~inv.stdin
    <3> SUFFICES ASSUME NEW p \in Candidates(node, cfg) PROVE p \in Path /\ node[Real(p)] # "dir"
      BY <2>2 DEF Find
    <3>1. p \in Path /\ IsFile(node, p)
      BY <1>1, CandidatesAreFiles
    <3> QED BY <1>1, <3>1, CanonicalIsReal DEF IsFile, Special
  <2> QED BY <2>1, <2>2
<1>3. missing' \in Seq(Path) /\ \A p \in found' : Real(p) \notin Elements(missing')
  <2>1. CASE inv.stdin
    BY <2>1 DEF Find, Elements
  <2>2. CASE ~inv.stdin
    <3>1. found' = Candidates(node, cfg) /\ missing' = MissingLiterals(node, cfg)
      BY <2>2 DEF Find
    <3>2. missing' \in Seq(Path) /\ \A m \in Elements(missing') : m \in Path /\ ~Exists(node, m)
      <4>1. missing' \in Seq(Path) /\ \A m \in Elements(missing') : ~Exists(node, m)
        BY <1>1, <3>1, MissingAreGone
      <4> QED BY <4>1 DEF Elements
    <3>3. ASSUME NEW p \in found' PROVE Exists(node, Real(p))
      <4>1. p \in Path /\ Exists(node, p)
        BY <1>1, <3>1, CandidatesAreFiles
      <4> QED BY <1>1, <4>1, CanonicalIsReal DEF Exists
    <3> QED BY <3>2, <3>3
  <2> QED BY <2>1, <2>2
<1>4. Standing'
  BY <1>1, <1>2 DEF Standing
<1>5. Picks'
  <2>1. Elements(selected') = {} /\ DOMAIN selected' = {} /\ Len(explained') = 0
    BY <1>1 DEF Elements
  <2>2. inv.stdin => found' # {}
    BY DEF Find
  <2> QED BY <1>1, <1>3, <2>1, <2>2 DEF Picks, Choosing
<1> QED BY <1>4, <1>5 DEF Chosen

LEMMA IdentifyChosen == IInv /\ Chosen /\ Identify => Chosen'
<1> SUFFICES ASSUME IInv, Chosen, Identify PROVE Chosen'
  OBVIOUS
<1>1. /\ LinksStand(node) /\ cfg \in Config /\ explained = <<>> /\ found \subseteq Path
      /\ UNCHANGED <<inv, cfg, node, found, missing, explained>>
  BY DEF Identify, Chosen, Standing, Picks, Choosing, input
<1>2. pc = "identify" /\ pc' \in {"done", "explain", "check_inputs"}
  BY DEF Identify, Goto, End
<1>3. Standing'
  BY <1>1, <1>2 DEF Chosen, Standing
<1>4. ASSUME UNCHANGED selected, pc' = "done" PROVE Picks'
  BY <1>1, <1>2, <1>4 DEF Chosen, Picks, Choosing
<1>5. ASSUME selected' = Selected(node, found) PROVE Picks'
  <2>1. /\ selected' \in Seq(Path)
        /\ Elements(selected') = {Canonical(node, q) : q \in found}
        /\ \A i, j \in DOMAIN selected' : i # j => selected'[i] # selected'[j]
    BY <1>1, <1>5, SelectedOncePerFile
  <2>2. \A p \in Elements(selected') : \E q \in found : p = Real(q)
    BY <1>1, <2>1, CanonicalIsReal
  <2>3. inv.stdin => selected' # <<>>
    <3>1. inv.stdin => Elements(selected') # {}
      BY <1>2, <2>1 DEF Chosen, Picks
    <3> QED BY <3>1 DEF Elements
  <2> QED BY <1>1, <1>2, <1>3, <2>1, <2>2, <2>3 DEF Chosen, Picks, Choosing
<1>6. (selected' = selected /\ pc' = "done") \/ selected' = Selected(node, found)
  BY DEF Identify, Goto, End
<1> QED BY <1>3, <1>4, <1>5, <1>6 DEF Chosen

LEMMA ExplainChosen == IInv /\ Chosen /\ ExplainInputs => Chosen'
<1> SUFFICES ASSUME IInv, Chosen, ExplainInputs PROVE Chosen'
  OBVIOUS
<1>1. /\ LinksStand(node) /\ cfg \in Config /\ pc = "explain" /\ pc' = "check_inputs"
      /\ UNCHANGED <<inv, cfg, node, found, selected, missing>>
      /\ explained' = Explain(node, cfg, selected, missing)
  BY DEF ExplainInputs, Chosen, Standing, Picks, Goto, input
<1>2. Len(explained') \in Nat /\ \A i \in 1..Len(explained') :
         \E p : /\ ~Unexplained(node, selected, missing, p)
               /\ explained'[i].path = p
  BY <1>1, ExplainedAreLeft
<1>3. \A p \in Elements(selected) : Unexplained(node, selected, missing, p)
  BY DEF Unexplained, Identities
<1>4. Standing'
  BY <1>1 DEF Chosen, Standing
<1>5. Picks'
  BY <1>1, <1>2, <1>3 DEF Chosen, Picks, Choosing
<1> QED BY <1>4, <1>5 DEF Chosen

LEMMA PicksKept ==
    ASSUME Picks, UNCHANGED <<inv, cfg, found, selected, missing, explained>>,
           pc' \in Choosing => pc \in Choosing, pc' = "identify" => pc = "identify",
           pc' \notin Choosing \cup {"done"} => pc \notin Choosing \cup {"done"}
    PROVE  Picks'
BY DEF Picks

LEMMA StepChosen == IInv /\ Chosen /\ [Next]_vars => Chosen'
<1> SUFFICES ASSUME IInv, Chosen, [Next]_vars PROVE Chosen'
  OBVIOUS
<1>i. LinksStand(node) /\ node[Temp] # "dir" /\ Picks
      /\ (~inv.stdin \/ pc = "plan" => node[Temp] = "absent")
  BY DEF Chosen, Standing
<1>1. CASE UNCHANGED vars
  <2>1. Standing'
    BY <1>1 DEF Chosen, Standing, vars
  <2> QED BY <1>1, <1>i, <2>1, PicksKept DEF Chosen, vars
<1>2. CASE Plan
  <2>1. /\ pc = "plan" /\ pc' \in {"load", "done"}
        /\ UNCHANGED <<inv, cfg, found, selected, missing, explained>>
        /\ \/ node' = node
           \/ inv.stdin /\ node' = [node EXCEPT ![Temp] = StdinInode]
    BY <1>2 DEF Plan, Goto, End, input, selection
  <2>2. Picks'
    BY <2>1, <1>i, PicksKept DEF Choosing
  <2>3. CASE node' = node
    BY <2>1, <2>2, <2>3, <1>i DEF Chosen, Standing
  <2>4. CASE inv.stdin /\ node' = [node EXCEPT ![Temp] = StdinInode]
    <3>1. /\ LinksStand(node') /\ node'[Temp] # "dir"
          /\ \A p \in Path : node'[p] = "dir" => node[p] = "dir"
      BY <2>4, <1>i, CopyStands, TempAssumption DEF Special
    <3>2. Standing'
      BY <2>1, <2>4, <3>1, StandingKept
    <3> QED BY <2>2, <3>2 DEF Chosen
  <2> QED BY <2>1, <2>3, <2>4
<1>3. CASE Find
  BY <1>3, FindChosen
<1>4. CASE Identify
  BY <1>4, IdentifyChosen
<1>5. CASE ExplainInputs
  BY <1>5, ExplainChosen
<1>6. CASE FinishContent \/ FinishProbe
  <2>1. /\ pc = "finish" /\ pc' = "done"
        /\ UNCHANGED <<inv, cfg, found, selected, missing, explained>>
        /\ node' = node \/ Unlink(Temp)
    BY <1>6 DEF FinishContent, FinishProbe, End, input, selection
  <2>2. Picks'
    BY <2>1, <1>i, PicksKept DEF Choosing
  <2>3. CASE node' = node
    BY <2>1, <2>2, <2>3, <1>i DEF Chosen, Standing
  <2>4. CASE Unlink(Temp)
    <3>1. node' = [node EXCEPT ![Temp] = "absent"]
      BY <2>4 DEF Unlink
    <3>2. /\ LinksStand(node') /\ node'[Temp] = "absent"
          /\ \A p \in Path : node'[p] = "dir" => node[p] = "dir"
      BY <3>1, <1>i, CopyStands
    <3>3. Standing'
      BY <2>1, <3>2, StandingKept
    <3> QED BY <2>2, <3>3 DEF Chosen
  <2> QED BY <2>1, <2>3, <2>4
<1>7. CASE Others
  <2>1. UNCHANGED <<inv, cfg, pc, found, selected, missing, explained>>
    BY <1>7 DEF Others, input, selection
  <2>2. /\ LinksStand(node') /\ node'[Temp] = node[Temp]
        /\ \A p \in Path : node'[p] = "dir" => node[p] = "dir"
    BY <1>7, <1>i, OthersStand
  <2>3. Standing'
    BY <2>1, <2>2, <1>i, StandingKept
  <2> QED BY <2>1, <2>3, <1>i, PicksKept DEF Chosen
<1>8. CASE Load \/ Prepare \/ CheckInputs \/ StartEngine \/ Block \/ Process \/ Raise
           \/ Supplement \/ Complete \/ ReportContent \/ ReportProbe \/ NextEvent \/ Return
  <2>1. UNCHANGED <<inv, cfg, node, found, selected, missing, explained>>
    BY <1>8 DEF Load, Prepare, CheckInputs, StartEngine, Block, Process, Raise, Supplement,
                Complete, ReportContent, ReportProbe, NextEvent, Return, input, selection
  <2>2. /\ pc' \in {"find", "links", "files", "finish", "report", "events", "done"}
        /\ \/ pc \in {"load", "prepare"} /\ pc' \in {"find", "done"}
           \/ pc \in {"check_inputs", "links", "files", "report", "events"} /\ pc' # "find"
    BY <1>8 DEF Load, Prepare, CheckInputs, StartEngine, Turn, Block, Process, Raise, Supplement,
                Complete, ReportContent, ReportProbe, NextEvent, Return, Goto, End
  <2>3. Picks'
    BY <2>1, <2>2, <1>i, PicksKept DEF Choosing
  <2>4. Standing'
    BY <2>1, <2>2, <1>i DEF Chosen, Standing
  <2> QED BY <2>3, <2>4 DEF Chosen
<1> QED BY <1>1, <1>2, <1>3, <1>4, <1>5, <1>6, <1>7, <1>8 DEF Next, Command

LEMMA SyntheticElsewhere ==
    ASSUME Chosen, NEW i \in DOMAIN Synthetic
    PROVE  Synthetic[i].path \notin Elements(selected)
<1>1. /\ missing \in Seq(Path) /\ Len(explained) \in Nat
      /\ \A j \in 1..Len(explained) : explained[j].path \notin Elements(selected)
      /\ \A p \in Elements(selected) : p \notin Elements(missing)
  BY DEF Chosen, Picks
<1>2. i \in 1..(Len(missing) + Len(explained))
      /\ Synthetic[i].path = IF i <= Len(missing) THEN missing[i] ELSE explained[i - Len(missing)].path
  BY DEF Synthetic
<1>3. CASE i <= Len(missing)
  BY <1>1, <1>2, <1>3 DEF Elements
<1>4. CASE ~(i <= Len(missing))
  BY <1>1, <1>2, <1>4
<1> QED BY <1>3, <1>4

-----------------------------------------------------------------------------
(* The engine's turns.  A selected path whose turn has come is settled, by its only
   result or by being lost; before its turn it has neither. *)

Awaited(p) == p \notin lost /\ ResultsOf(p) = {}

Settled(p) ==
    \/ p \in lost /\ ResultsOf(p) = {}
    \/ p \notin lost /\ \E i \in DOMAIN results : ResultsOf(p) = {i}

Turns ==
    /\ next \in Nat \ {0}
    /\ pc \in Before \cup {"links"} => next = 1 /\ results = <<>> /\ lost = {} /\ engine = "none"
    /\ \A k \in DOMAIN selected : IF k < next THEN Settled(selected[k]) ELSE Awaited(selected[k])
    /\ pc \notin Before \cup During => next > Len(selected)

LEMMA EmitAppends ==
    ASSUME IInv, NEW p, NEW v \in Verdict, Emit(p, v)
    PROVE  LET last == Len(results) + 1 IN
           /\ DOMAIN results' = DOMAIN results \cup {last} /\ last \notin DOMAIN results
           /\ \A i \in DOMAIN results : results'[i] = results[i]
           /\ results'[last] = [v EXCEPT !.path = p]
           /\ \A q : ResultsOf(q)' = IF q = p THEN ResultsOf(q) \cup {last} ELSE ResultsOf(q)
<1> DEFINE r == [v EXCEPT !.path = p]
           last == Len(results) + 1
<1>1. PICK S : results \in Seq(S)
  BY DEF IInv, Kept
<1>2. results' = Append(results, r) /\ r.path = p
  BY DEF Emit, Verdict
<1> HIDE DEF r
<1>3. /\ DOMAIN results' = DOMAIN results \cup {last} /\ last \notin DOMAIN results
      /\ \A i \in DOMAIN results : results'[i] = results[i]
      /\ results'[last] = r
  BY <1>1, <1>2
<1> HIDE DEF last
<1>4. \A q : ResultsOf(q)' = IF q = p THEN ResultsOf(q) \cup {last} ELSE ResultsOf(q)
  BY <1>2, <1>3 DEF ResultsOf
<1> QED BY <1>3, <1>4 DEF r, last

(* The path whose turn it is, is the only one of its name. *)
LEMMA OwnTurn ==
    ASSUME Chosen, Turns, Turn
    PROVE  /\ next \in DOMAIN selected /\ Current \in Elements(selected) /\ Current \in Path
           /\ Awaited(Current) /\ next' = next + 1 /\ pc = "files"
           /\ \A k \in DOMAIN selected : k # next => selected[k] # Current
<1>1. /\ pc = "files" /\ next \in Nat \ {0} /\ next <= Len(selected) /\ next' = next + 1
      /\ \A i, j \in DOMAIN selected : i # j => selected[i] # selected[j]
      /\ selected \in Seq(Path)
  BY DEF Turn, Turns, Chosen, Picks
<1>2. next \in DOMAIN selected
  BY <1>1
<1> QED BY <1>1, <1>2 DEF Turns, Elements, Current

LEMMA ReportSettles ==
    ASSUME IInv, Chosen, Turns, Block \/ Process, NEW p, p = Current
    PROVE  /\ \E i \in DOMAIN results' : ResultsOf(p)' = {i}
           /\ \A q : q # p => ResultsOf(q)' = ResultsOf(q)
           /\ UNCHANGED <<inv, selected, missing, explained, lost, engine>>
           /\ Turn /\ pc' = "files"
<1>1. /\ Turn /\ pc' = "files" /\ UNCHANGED <<inv, selected, missing, explained, lost, engine>>
      /\ \E v \in Verdict : Emit(p, v)
  BY VerdictsTold DEF Block, Process, Goto, input, selection
<1>2. PICK v \in Verdict : Emit(p, v)
  BY <1>1
<1>3. ResultsOf(p) = {}
  BY <1>1, OwnTurn DEF Awaited
<1>4. /\ Len(results) + 1 \in DOMAIN results'
      /\ \A q : ResultsOf(q)' = IF q = p THEN ResultsOf(q) \cup {Len(results) + 1} ELSE ResultsOf(q)
  BY <1>2, EmitAppends
<1> QED BY <1>1, <1>3, <1>4

LEMMA TurnsKept ==
    ASSUME Turns, UNCHANGED <<results, lost, next, engine, selected>>,
           pc' \in Before \cup {"links"} => pc \in Before \cup {"links"},
           pc' \notin Before \cup During => pc \notin Before \cup During \/ next > Len(selected)
    PROVE  Turns'
<1>1. \A p : Settled(p)' = Settled(p) /\ Awaited(p)' = Awaited(p)
  BY DEF Settled, Awaited, ResultsOf
<1> QED BY <1>1 DEF Turns

LEMMA InitTurns == Init => Turns
BY DEF Init, Turns, Before, During

(* One path is settled, the others are as they were. *)
LEMMA TurnSettles ==
    ASSUME Chosen, Turns, Turn, pc' = "files", UNCHANGED selected, NEW p, p = Current,
           Settled(p)',
           \A q : q # p => (Settled(q)' <=> Settled(q)) /\ (Awaited(q)' <=> Awaited(q))
    PROVE  Turns'
<1>1. /\ next \in DOMAIN selected /\ next' = next + 1 /\ pc = "files" /\ selected[next] = p
      /\ next \in Nat \ {0} /\ selected \in Seq(Path)
      /\ \A k \in DOMAIN selected : k # next => selected[k] # p
  BY OwnTurn DEF Turns, Current, Chosen, Picks
<1>2. ASSUME NEW k \in DOMAIN selected
      PROVE  IF k < next' THEN Settled(selected[k])' ELSE Awaited(selected[k])'
  <2>1. IF k < next THEN Settled(selected[k]) ELSE Awaited(selected[k])
    BY DEF Turns
  <2>2. k \in Nat /\ selected'[k] = selected[k]
    BY <1>1
  <2>3. CASE k = next
    BY <1>1, <2>2, <2>3
  <2>4. CASE k # next
    <3>1. (Settled(selected[k])' <=> Settled(selected[k])) /\ (Awaited(selected[k])' <=> Awaited(selected[k]))
      BY <1>1, <2>2, <2>4
    <3> QED BY <1>1, <2>1, <2>2, <2>4, <3>1
  <2> QED BY <2>3, <2>4
<1> QED BY <1>1, <1>2 DEF Turns, Before, During

LEMMA StepTurns == IInv /\ Chosen /\ Turns /\ [Next]_vars => Turns'
<1> SUFFICES ASSUME IInv, Chosen, Turns, [Next]_vars PROVE Turns'
  OBVIOUS
<1>1. CASE UNCHANGED vars
  BY <1>1, TurnsKept DEF vars
<1>2. CASE Plan \/ Load \/ Prepare \/ Find \/ Identify \/ ExplainInputs
  <2>1. /\ pc \in Before /\ UNCHANGED <<results, lost, next, engine>>
        /\ pc' \in Before \cup {"done"} /\ (pc' = "done" => pc \in Choosing /\ UNCHANGED selected)
    BY <1>2 DEF Plan, Load, Prepare, Find, Identify, ExplainInputs, Goto, End, Before, Choosing,
                engineState, selection
  <2>2. next = 1 /\ results = <<>> /\ lost = {} /\ engine = "none"
    BY <2>1 DEF Turns
  <2>3. selected' \in Seq(Path) /\ (pc' = "done" => selected' = <<>>)
    BY <2>1, StepChosen DEF Chosen, Picks
  <2>4. \A p : Awaited(p)'
    BY <2>1, <2>2 DEF Awaited, ResultsOf
  <2>5. \A k \in DOMAIN selected' : IF k < next' THEN Settled(selected[k])' ELSE Awaited(selected[k])'
    BY <2>1, <2>2, <2>3, <2>4
  <2> QED BY <2>1, <2>2, <2>3, <2>5 DEF Turns, Before, During
<1>3. CASE CheckInputs
  <2>1. /\ pc = "check_inputs" /\ UNCHANGED <<results, lost, next, engine, selected>>
        /\ pc' = "links" \/ (pc' = "done" /\ selected = <<>>)
    BY <1>3 DEF CheckInputs, Goto, End, engineState, selection
  <2>2. pc' = "done" => next > Len(selected)
    BY <2>1 DEF Turns
  <2> QED BY <2>1, <2>2, TurnsKept DEF Before, During
<1>4. CASE StartEngine \/ FinishContent \/ FinishProbe \/ ReportContent \/ ReportProbe
           \/ NextEvent \/ Return \/ Others
  <2>1. UNCHANGED <<results, lost, next, engine, selected>>
    BY <1>4 DEF StartEngine, FinishContent, FinishProbe, ReportContent, ReportProbe, NextEvent,
                Return, Others, engineState, selection
  <2>2. \/ pc' = pc
        \/ pc = "links" /\ pc' = "files"
        \/ pc \in {"finish", "report", "events"} /\ pc' \in {"events", "done"}
    BY <1>4 DEF StartEngine, FinishContent, FinishProbe, ReportContent, ReportProbe, NextEvent,
                Return, Others, Goto, End
  <2> QED BY <2>1, <2>2, TurnsKept DEF Before, During
<1>5. CASE Complete
  <2>1. /\ UNCHANGED <<results, lost, next, engine, selected>> /\ pc' \in {"finish", "report"}
        /\ next > Len(selected) + Len(Synthetic)
    BY <1>5 DEF Complete, Goto, engineState, selection
  <2>2. Len(Synthetic) \in Nat /\ next \in Nat /\ Len(selected) \in Nat
    BY DEF Synthetic, Chosen, Picks, Turns
  <2> QED BY <2>1, <2>2, TurnsKept DEF Before, During
<1>6. CASE Block \/ Process
  <2>1. PICK p : p = Current
    OBVIOUS
  <2>2. /\ \E i \in DOMAIN results' : ResultsOf(p)' = {i}
        /\ \A q : q # p => ResultsOf(q)' = ResultsOf(q)
        /\ UNCHANGED <<selected, lost>> /\ Turn /\ pc' = "files"
    BY <1>6, <2>1, ReportSettles
  <2>3. Awaited(p)
    BY <2>1, <2>2, OwnTurn
  <2>4. Settled(p)'
    BY <2>2, <2>3 DEF Settled, Awaited
  <2>5. DOMAIN results \subseteq DOMAIN results'
    BY <1>6, EmitAppends, VerdictsTold DEF Block, Process
  <2>6. \A q : ResultsOf(q) \subseteq DOMAIN results
    BY DEF ResultsOf
  <2>7. \A q : q # p => (Settled(q)' <=> Settled(q)) /\ (Awaited(q)' <=> Awaited(q))
    BY <2>2, <2>5, <2>6 DEF Settled, Awaited
  <2> QED BY <2>1, <2>2, <2>4, <2>7, TurnSettles
<1>7. CASE Raise
  <2>1. PICK p : p = Current
    OBVIOUS
  <2>2. /\ Turn /\ pc' = "files" /\ UNCHANGED <<selected, results>> /\ lost' = lost \cup {p}
    BY <1>7, <2>1 DEF Raise, Goto, selection
  <2>3. Awaited(p)
    BY <2>1, <2>2, OwnTurn
  <2>4. Settled(p)' /\ \A q : q # p => (Settled(q)' <=> Settled(q)) /\ (Awaited(q)' <=> Awaited(q))
    BY <2>2, <2>3 DEF Settled, Awaited, ResultsOf
  <2> QED BY <2>1, <2>2, <2>4, TurnSettles
<1>8. CASE Supplement
  <2> DEFINE i == next - Len(selected)
  <2>1. /\ i \in DOMAIN Synthetic /\ Emit(Synthetic[i].path, Synthetic[i].verdict)
        /\ pc = "files" /\ pc' = "files" /\ UNCHANGED <<selected, lost>> /\ next' = next + 1
    BY <1>8 DEF Supplement, Goto, selection
  <2>2. selected \in Seq(Path) /\ next \in Nat \ {0} /\ i >= 1
    BY <2>1 DEF Chosen, Picks, Turns, Synthetic
  <2>3. \A k \in DOMAIN selected : k < next /\ k < next'
    BY <2>1, <2>2
  <2> HIDE DEF i
  <2>4. PICK q : q = Synthetic[i].path
    OBVIOUS
  <2>5. q \notin Elements(selected)
    BY <2>1, <2>4, SyntheticElsewhere
  <2>6. /\ \A p : p # q => ResultsOf(p)' = ResultsOf(p)
        /\ DOMAIN results \subseteq DOMAIN results'
    BY <2>1, <2>4, SyntheticTold, EmitAppends
  <2>7. \A p : p # q /\ Settled(p) => Settled(p)'
    BY <2>1, <2>6 DEF Settled
  <2>8. \A k \in DOMAIN selected : Settled(selected[k])'
    BY <2>1, <2>3, <2>5, <2>7 DEF Turns, Elements
  <2> QED BY <2>1, <2>2, <2>3, <2>8 DEF Turns, Before, During
<1> QED BY <1>1, <1>2, <1>3, <1>4, <1>5, <1>6, <1>7, <1>8 DEF Next, Command

-----------------------------------------------------------------------------
(* Every step of a run is a step of RunContract, or none. *)

Idle == {"plan", "load", "prepare", "find", "identify", "explain", "check_inputs", "links"}

TaskOf(p) ==
    IF Phase = "idle" \/ p \notin Elements(selected) THEN "none"
    ELSE IF ResultsOf(p) = {} THEN IF p \in lost THEN "lost" ELSE "waiting"
    ELSE IF p \notin lost /\ \E i \in DOMAIN results : ResultsOf(p) = {i} THEN "reported"
    ELSE "twice"

Phases ==
    /\ pc \in Idle => Phase = "idle"
    /\ pc = "files" => Phase = "open"
    /\ pc \notin Idle \cup {"files"} => Phase = "closed"

LEMMA PhaseOf == Phases /\ Phases'
BY DEF Phases, Phase, Idle

LEMMA TaskIs == /\ Task = [p \in Path |-> TaskOf(p)]
                /\ Task' = [p \in Path |-> TaskOf(p)']
BY DEF Task, TaskOf

LEMMA SameTask ==
    ASSUME Phase' = Phase, UNCHANGED <<selected, lost, engine>>,
           \A p \in Elements(selected) : /\ ResultsOf(p)' = ResultsOf(p)
                                        /\ ResultsOf(p) \subseteq DOMAIN results'
    PROVE  UNCHANGED Contract!vars
<1>1. \A p : ResultsOf(p) \subseteq DOMAIN results
  BY DEF ResultsOf
<1>2. \A p \in Path : TaskOf(p)' = TaskOf(p)
  BY <1>1 DEF TaskOf, Elements
<1>3. Task' = Task
  BY <1>2, TaskIs
<1> QED BY <1>3 DEF Contract!vars

LEMMA OneTask ==
    ASSUME UNCHANGED selected, Phase = "open", Phase' = "open",
           NEW p \in Path, p \in Elements(selected), NEW state, TaskOf(p)' = state,
           \A q : q # p => (q \in lost' <=> q \in lost) /\ ResultsOf(q)' = ResultsOf(q),
           DOMAIN results \subseteq DOMAIN results'
    PROVE  Task' = [Task EXCEPT ![p] = state]
<1>1. \A q : ResultsOf(q) \subseteq DOMAIN results
  BY DEF ResultsOf
<1>2. \A q \in Path : q # p => TaskOf(q)' = TaskOf(q)
  BY <1>1 DEF TaskOf, Elements
<1> QED BY <1>2, TaskIs

LEMMA InitContract == Init => Contract!Init
<1> SUFFICES ASSUME Init PROVE Contract!Init
  OBVIOUS
<1>1. Phase = "idle"
  BY PhaseOf DEF Phases, Init, Idle
<1>2. Task = [p \in Path |-> "none"]
  BY <1>1, TaskIs DEF TaskOf
<1> QED BY <1>1, <1>2 DEF Contract!Init, Init

LEMMA StepContract ==
    IInv /\ Chosen /\ Turns /\ [Next]_vars => [Contract!Next]_(Contract!vars)
<1> SUFFICES ASSUME IInv, Chosen, Turns, [Next]_vars PROVE [Contract!Next]_(Contract!vars)
  OBVIOUS
<1>1. CASE UNCHANGED <<pc, selected, lost, engine, results>>
  <2>1. Phase' = Phase /\ DOMAIN results' = DOMAIN results
    BY <1>1 DEF Phase
  <2>2. \A p : ResultsOf(p)' = ResultsOf(p) /\ ResultsOf(p) \subseteq DOMAIN results
    BY <1>1 DEF ResultsOf
  <2> QED BY <1>1, <2>1, <2>2, SameTask
<1>2. CASE pc \in Idle /\ pc' \in Idle /\ UNCHANGED engine
  <2>1. Phase = "idle" /\ Phase' = "idle"
    BY <1>2, PhaseOf DEF Phases
  <2>2. \A p \in Path : TaskOf(p) = "none" /\ TaskOf(p)' = "none"
    BY <2>1 DEF TaskOf
  <2>3. Task' = Task
    BY <2>2, TaskIs
  <2> QED BY <1>2, <2>1, <2>3 DEF Contract!vars
<1>3. CASE pc \in Idle /\ pc' = "done" /\ selected' = <<>> /\ UNCHANGED engine
  <2>1. Phase = "idle" /\ Phase' = "closed"
    BY <1>3, PhaseOf DEF Phases, Idle
  <2>2. \A p \in Path : TaskOf(p) = "none" /\ TaskOf(p)' = "none"
    BY <1>3, <2>1 DEF TaskOf, Elements
  <2>3. Task' = Task /\ \A p \in Path : Task[p] = "none"
    BY <2>2, TaskIs
  <2>4. Contract!Close
    BY <1>3, <2>1, <2>3 DEF Contract!Close
  <2> QED BY <2>4 DEF Contract!Next
<1>4. CASE StartEngine
  <2>1. /\ pc = "links" /\ pc' = "files" /\ UNCHANGED <<selected, lost, engine, results>>
        /\ results = <<>> /\ lost = {} /\ Elements(selected) \subseteq Path
    BY <1>4 DEF StartEngine, Goto, selection, Turns, Chosen, Picks, Elements
  <2>2. Phase = "idle" /\ Phase' = "open"
    BY <2>1, PhaseOf DEF Phases, Idle
  <2>3. \A p \in Path : TaskOf(p)' = IF p \in Elements(selected) THEN "waiting" ELSE "none"
    BY <2>1, <2>2 DEF TaskOf, ResultsOf, Elements
  <2>4. Contract!Open
    BY <2>1, <2>2, <2>3, TaskIs DEF Contract!Open
  <2> QED BY <2>4 DEF Contract!Next
<1>5. CASE Block \/ Process
  <2>1. PICK p : p = Current
    OBVIOUS
  <2>2. /\ \E i \in DOMAIN results' : ResultsOf(p)' = {i}
        /\ \A q : q # p => ResultsOf(q)' = ResultsOf(q)
        /\ UNCHANGED <<selected, lost, engine>> /\ Turn /\ pc' = "files"
    BY <1>5, <2>1, ReportSettles
  <2>3. Awaited(p) /\ p \in Elements(selected) /\ p \in Path /\ pc = "files"
    BY <2>1, <2>2, OwnTurn
  <2>4. DOMAIN results \subseteq DOMAIN results'
    BY <1>5, EmitAppends, VerdictsTold DEF Block, Process
  <2>5. Phase = "open" /\ Phase' = "open"
    BY <2>2, <2>3, PhaseOf DEF Phases
  <2>6. TaskOf(p) = "waiting" /\ TaskOf(p)' = "reported"
    BY <2>2, <2>3, <2>5 DEF TaskOf, Awaited, Elements
  <2>7. Task' = [Task EXCEPT ![p] = "reported"] /\ Task[p] = "waiting"
    BY <2>2, <2>3, <2>4, <2>5, <2>6, OneTask, TaskIs
  <2>8. Contract!Report(p)
    BY <2>2, <2>5, <2>7 DEF Contract!Report
  <2> QED BY <2>3, <2>8 DEF Contract!Next
<1>6. CASE Raise
  <2>1. PICK p : p = Current
    OBVIOUS
  <2>2. /\ Turn /\ pc' = "files" /\ UNCHANGED <<selected, results>> /\ lost' = lost \cup {p}
        /\ engine' # "none"
    BY <1>6, <2>1 DEF Raise, Goto, selection
  <2>3. Awaited(p) /\ p \in Elements(selected) /\ p \in Path /\ pc = "files"
    BY <2>1, <2>2, OwnTurn
  <2>4. Phase = "open" /\ Phase' = "open"
    BY <2>2, <2>3, PhaseOf DEF Phases
  <2>5. \A q : ResultsOf(q)' = ResultsOf(q)
    BY <2>2 DEF ResultsOf
  <2>6. TaskOf(p) = "waiting" /\ TaskOf(p)' = "lost"
    BY <2>2, <2>3, <2>4, <2>5 DEF TaskOf, Awaited, Elements
  <2>7. Task' = [Task EXCEPT ![p] = "lost"] /\ Task[p] = "waiting"
    BY <2>2, <2>3, <2>4, <2>5, <2>6, OneTask, TaskIs
  <2>8. Contract!Lose(p)
    BY <2>2, <2>4, <2>7 DEF Contract!Lose
  <2> QED BY <2>3, <2>8 DEF Contract!Next
<1>7. CASE Supplement
  <2> DEFINE i == next - Len(selected)
  <2>1. /\ i \in DOMAIN Synthetic /\ Emit(Synthetic[i].path, Synthetic[i].verdict)
        /\ pc = "files" /\ pc' = "files" /\ UNCHANGED <<selected, lost, engine>>
    BY <1>7 DEF Supplement, Goto, selection
  <2> HIDE DEF i
  <2>2. PICK q : q = Synthetic[i].path
    OBVIOUS
  <2>3. q \notin Elements(selected)
    BY <2>1, <2>2, SyntheticElsewhere
  <2>4. /\ \A p : p # q => ResultsOf(p)' = ResultsOf(p)
        /\ DOMAIN results \subseteq DOMAIN results'
    BY <2>1, <2>2, SyntheticTold, EmitAppends
  <2>5. \A p \in Elements(selected) : /\ ResultsOf(p)' = ResultsOf(p)
                                     /\ ResultsOf(p) \subseteq DOMAIN results'
    BY <2>3, <2>4 DEF ResultsOf
  <2>6. Phase' = Phase
    BY <2>1 DEF Phase
  <2> QED BY <2>1, <2>5, <2>6, SameTask
<1>8. CASE Complete
  <2>1. /\ pc = "files" /\ pc' \in {"finish", "report"} /\ UNCHANGED <<selected, lost, engine, results>>
        /\ next > Len(selected) + Len(Synthetic)
    BY <1>8 DEF Complete, Goto, selection, engineState
  <2>2. Len(Synthetic) \in Nat /\ next \in Nat /\ selected \in Seq(Path)
    BY DEF Synthetic, Chosen, Picks, Turns
  <2>3. \A p \in Elements(selected) : Settled(p)
    BY <2>1, <2>2 DEF Turns, Elements
  <2>4. Phase = "open" /\ Phase' = "closed"
    BY <2>1, PhaseOf DEF Phases, Idle
  <2>5. \A p : ResultsOf(p)' = ResultsOf(p)
    BY <2>1 DEF ResultsOf
  <2>6. \A p \in Path : TaskOf(p)' = TaskOf(p) /\ TaskOf(p) # "waiting"
    BY <2>1, <2>3, <2>4, <2>5 DEF TaskOf, Settled, Elements
  <2>7. Task' = Task /\ \A p \in Path : Task[p] # "waiting"
    BY <2>6, TaskIs
  <2>8. Contract!Close
    BY <2>1, <2>4, <2>7 DEF Contract!Close
  <2> QED BY <2>8 DEF Contract!Next
<1>9. CASE pc \in {"finish", "report", "events"} /\ pc' \in {"events", "done"}
           /\ UNCHANGED <<selected, lost, engine, results>>
  <2>1. Phase = "closed" /\ Phase' = "closed"
    BY <1>9, PhaseOf DEF Phases, Idle
  <2>2. \A p : ResultsOf(p)' = ResultsOf(p) /\ ResultsOf(p) \subseteq DOMAIN results'
    BY <1>9 DEF ResultsOf
  <2> QED BY <1>9, <2>1, <2>2, SameTask
<1>10. CASE UNCHANGED vars \/ Others
  BY <1>1, <1>10 DEF vars, Others, selection, engineState
<1>11. CASE Plan \/ Load \/ Prepare \/ Find \/ Identify \/ ExplainInputs \/ CheckInputs
  <2>1. pc \in Idle /\ pc' \in Idle \cup {"done"} /\ UNCHANGED engine
    BY <1>11 DEF Plan, Load, Prepare, Find, Identify, ExplainInputs, CheckInputs, Goto, End, Idle,
                 engineState
  <2>2. pc' = "done" => selected' = <<>>
    BY <1>11 DEF Plan, Load, Prepare, Find, Identify, ExplainInputs, CheckInputs, Goto, End,
                 selection, Chosen, Picks, Choosing
  <2> QED BY <1>2, <1>3, <2>1, <2>2
<1>12. CASE FinishContent \/ FinishProbe \/ ReportContent \/ ReportProbe \/ NextEvent \/ Return
  BY <1>9, <1>12 DEF FinishContent, FinishProbe, ReportContent, ReportProbe, NextEvent, Return,
                     Goto, End, selection, engineState
<1> QED BY <1>4, <1>5, <1>6, <1>7, <1>8, <1>10, <1>11, <1>12 DEF Next, Command

(* The engine settles every selected path exactly once, by one result or by an error it
   remembers, for batches of any size and whatever other programs do (ImplementsContract). *)
THEOREM RunKeepsContract == Spec => ImplementsContract
<1>1. Init => Chosen /\ Turns
  BY InitChosen, InitTurns
<1>2. IInv /\ Chosen /\ Turns /\ [Next]_vars => (Chosen /\ Turns)'
  BY StepChosen, StepTurns
<1> QED BY <1>1, <1>2, IInvHolds, InitContract, StepContract, PTL
       DEF Spec, ImplementsContract, Contract!Spec

-----------------------------------------------------------------------------
(* Shared storage.  The engine blocks what it found to share an inode when it started;
   a blocked path has no result but the one that says so, and nothing but a selected
   path is ever written. *)

Grouped ==
    \A p, q \in Elements(selected) :
       p # q /\ origin[p] = origin[q] /\ origin[p] # "absent" => p \in blocked

Written(r) == r.write = "WRITTEN"

Separate ==
    /\ LinksStand(origin) /\ blocked \subseteq Elements(selected)
    /\ pc \notin Before \cup {"links"} => Grouped
    /\ \A i \in DOMAIN results :
          /\ results[i].path \in blocked => results[i].fs = "HARD_LINK_DUPLICATE" /\ ~Written(results[i])
          /\ Written(results[i]) => results[i].path \in Elements(selected)

LEMMA InitSeparate == Init => Separate
<1> SUFFICES ASSUME Init PROVE Separate
  OBVIOUS
<1>1. LinksStand(origin)
  BY TreesAssumption DEF Init, LinksStand
<1> QED BY <1>1 DEF Init, Separate, Before

LEMMA SelectedReal ==
    ASSUME Chosen, NEW p \in Elements(selected)
    PROVE  p \in Path \ DOMAIN Target /\ node[p] # "dir" /\ Canonical(node, p) = p
<1>1. PICK q \in found : p = Real(q)
  BY DEF Chosen, Picks
<1>2. q \in Path /\ node[Real(q)] # "dir" /\ LinksStand(node)
  BY DEF Chosen, Standing
<1>3. p \in Path \ DOMAIN Target
  BY <1>1, <1>2, CanonicalIsReal
<1> QED BY <1>1, <1>2, <1>3, CanonicalIsReal DEF Real

LEMMA EngineGroups == Chosen /\ StartEngine => Grouped'
<1> SUFFICES ASSUME Chosen, StartEngine,
                    NEW p \in Elements(selected), NEW q \in Elements(selected),
                    p # q, node[p] = node[q], node[p] # "absent"
             PROVE  p \in HardLinkDuplicates
  BY DEF Grouped, StartEngine, selection
<1>1. /\ p \in Path \ DOMAIN Target /\ node[p] # "dir" /\ Canonical(node, p) = p
      /\ q \in Path \ DOMAIN Target /\ node[q] # "dir" /\ Canonical(node, q) = q
  BY SelectedReal
<1>2. IsFile(node, p)
  BY <1>1 DEF IsFile, Special, Chosen, Standing, LinksStand
<1> QED BY <1>1, <1>2 DEF HardLinkDuplicates, HasLinks, Inode

LEMMA SeparateKept ==
    ASSUME Separate, UNCHANGED <<results, selected, blocked, origin>>,
           pc' \notin Before \cup {"links"} => pc \notin Before \cup {"links"} \/ Grouped
    PROVE  Separate'
BY DEF Separate, Grouped

LEMMA EmitSeparate ==
    ASSUME IInv, Separate, NEW p, NEW v \in Verdict, Emit(p, v),
           UNCHANGED <<selected, blocked, origin>>, pc = "files", pc' = "files",
           p \in blocked => v = HardLinked, v.write = "WRITTEN" => p \in Elements(selected)
    PROVE  Separate'
<1> DEFINE r == [v EXCEPT !.path = p]
<1>1. r.path = p /\ r.fs = v.fs /\ r.write = v.write
  BY DEF Verdict
<1>2. HardLinked.fs = "HARD_LINK_DUPLICATE" /\ HardLinked.write = "PENDING"
  BY DEF HardLinked, NotFound, Clean
<1>3. \E last : /\ DOMAIN results' = DOMAIN results \cup {last} /\ last \notin DOMAIN results
                /\ \A i \in DOMAIN results : results'[i] = results[i]
                /\ results'[last] = r
  BY EmitAppends
<1> HIDE DEF r
<1>4. ASSUME NEW i \in DOMAIN results'
      PROVE  /\ results'[i].path \in blocked =>
                   results'[i].fs = "HARD_LINK_DUPLICATE" /\ ~Written(results'[i])
             /\ Written(results'[i]) => results'[i].path \in Elements(selected)
  <2>1. CASE i \in DOMAIN results
    BY <1>3, <2>1 DEF Separate
  <2>2. CASE results'[i] = r
    BY <1>1, <1>2, <2>2 DEF Written
  <2> QED BY <1>3, <2>1, <2>2
<1>5. Grouped' /\ Elements(selected)' = Elements(selected)
  BY DEF Separate, Grouped, Before, Elements
<1> QED BY <1>4, <1>5 DEF Separate, Written

LEMMA StepSeparate == IInv /\ Chosen /\ Turns /\ Separate /\ [Next]_vars => Separate'
<1> SUFFICES ASSUME IInv, Chosen, Turns, Separate, [Next]_vars PROVE Separate'
  OBVIOUS
<1>1. CASE UNCHANGED vars
  BY <1>1, SeparateKept DEF vars
<1>2. CASE Plan \/ Load \/ Prepare \/ Find \/ Identify \/ ExplainInputs \/ CheckInputs
  <2>1. /\ pc \in Before /\ UNCHANGED <<results, blocked, origin>>
        /\ pc' \in Before \cup {"links", "done"} /\ (pc' = "done" => selected' = <<>>)
    BY <1>2 DEF Plan, Load, Prepare, Find, Identify, ExplainInputs, CheckInputs, Goto, End, Before,
                Choosing, engineState, selection, Chosen, Picks
  <2>2. DOMAIN results = {}
    BY <2>1 DEF Turns
  <2>3. blocked \subseteq Elements(selected')
    <3>1. CASE UNCHANGED selected
      BY <3>1 DEF Separate
    <3>2. CASE selected = <<>>
      BY <3>2 DEF Separate, Elements
    <3>3. UNCHANGED selected \/ pc = "identify"
      BY <1>2 DEF Plan, Load, Prepare, Find, ExplainInputs, Identify, CheckInputs, selection
    <3> QED BY <3>1, <3>2, <3>3 DEF Chosen, Picks, Choosing
  <2>4. pc' = "done" => Grouped'
    BY <2>1 DEF Grouped, Elements
  <2>5. Elements(selected)' = Elements(selected')
    BY DEF Elements
  <2> QED BY <2>1, <2>2, <2>3, <2>4, <2>5 DEF Separate, Before
<1>3. CASE StartEngine
  <2>1. /\ pc = "links" /\ UNCHANGED <<results, selected>> /\ origin' = node
        /\ blocked' = HardLinkDuplicates
    BY <1>3 DEF StartEngine, selection
  <2>2. DOMAIN results' = {} /\ LinksStand(node)
    BY <2>1 DEF Turns, Chosen, Standing
  <2>3. Grouped' /\ blocked' \subseteq Elements(selected) /\ Elements(selected)' = Elements(selected)
    BY <1>3, <2>1, EngineGroups DEF HardLinkDuplicates, Elements
  <2> QED BY <2>1, <2>2, <2>3 DEF Separate
<1>4. CASE Block
  <2>1. /\ Turn /\ pc' = "files" /\ UNCHANGED <<selected, blocked, origin>>
        /\ Emit(Current, HardLinked) /\ HardLinked \in Verdict
    BY <1>4, VerdictsTold DEF Block, Goto, selection
  <2>2. Current \in Elements(selected) /\ pc = "files"
    BY <2>1, OwnTurn
  <2> QED BY <2>1, <2>2, EmitSeparate
<1>5. CASE Process
  <2>1. PICK v \in Verdict : /\ Turn /\ pc' = "files" /\ UNCHANGED <<selected, blocked, origin>>
                             /\ Emit(Current, v) /\ Current \notin blocked
    BY <1>5, VerdictsTold DEF Process, Goto, selection
  <2>2. Current \in Elements(selected) /\ pc = "files"
    BY <2>1, OwnTurn
  <2> QED BY <2>1, <2>2, EmitSeparate
<1>6. CASE Supplement
  <2> DEFINE i == next - Len(selected)
  <2>1. /\ i \in DOMAIN Synthetic /\ Emit(Synthetic[i].path, Synthetic[i].verdict)
        /\ pc = "files" /\ pc' = "files" /\ UNCHANGED <<selected, blocked, origin>>
    BY <1>6 DEF Supplement, Goto, selection
  <2> HIDE DEF i
  <2>2. Synthetic[i].path \notin blocked /\ Synthetic[i].verdict \in Verdict
    BY <2>1, SyntheticElsewhere, SyntheticTold DEF Separate
  <2>3. Synthetic[i].verdict \in {NotFound, Filtered}
    BY <2>1 DEF Synthetic
  <2>4. Synthetic[i].verdict.write = "PENDING"
    BY <2>3 DEF NotFound, Filtered, Clean
  <2> QED BY <2>1, <2>2, <2>4, EmitSeparate
<1>7. CASE Raise \/ Complete \/ FinishContent \/ FinishProbe \/ ReportContent \/ ReportProbe
           \/ NextEvent \/ Return \/ Others
  <2>1. UNCHANGED <<results, selected, blocked, origin>>
    BY <1>7 DEF Raise, Complete, FinishContent, FinishProbe, ReportContent, ReportProbe, NextEvent,
                Return, Others, engineState, selection
  <2>2. pc' = pc \/ pc \notin Before \cup {"links"}
    BY <1>7 DEF Raise, Turn, Complete, FinishContent, FinishProbe, ReportContent, ReportProbe,
                NextEvent, Return, Others, Goto, End, Before
  <2> QED BY <2>1, <2>2, SeparateKept
<1> QED BY <1>1, <1>2, <1>3, <1>4, <1>5, <1>6, <1>7 DEF Next, Command

Storing == IInv /\ Chosen /\ Turns /\ Separate

LEMMA StoringHolds == Spec => []Storing
<1>1. Init => Storing
  BY InitIInv, InitChosen, InitTurns, InitSeparate DEF Storing
<1>2. Storing /\ [Next]_vars => Storing'
  BY StepIInv, StepChosen, StepTurns, StepSeparate DEF Storing
<1> QED BY <1>1, <1>2, PTL DEF Spec

LEMMA StoringIsSafe == Storing => SharedStorageIsSafe
<1> SUFFICES ASSUME Storing PROVE SharedStorageIsSafe
  OBVIOUS
<1>1. /\ Chosen /\ Turns /\ Separate
  BY DEF Storing
<1>2. \A p \in Elements(selected) : Storage(p) = origin[p]
  BY <1>1, SelectedReal DEF Storage, Separate, LinksStand
<1>3. \A i, j \in DOMAIN results :
         results[i].path \in Elements(selected) /\ results[j].path = results[i].path => i = j
  <2> SUFFICES ASSUME NEW i \in DOMAIN results, NEW j \in DOMAIN results,
                      results[i].path \in Elements(selected), results[j].path = results[i].path
               PROVE  i = j
    OBVIOUS
  <2>1. PICK k \in DOMAIN selected : selected[k] = results[i].path
    BY DEF Elements
  <2>2. i \in ResultsOf(selected[k]) /\ j \in ResultsOf(selected[k])
    BY <2>1 DEF ResultsOf
  <2>3. Settled(selected[k])
    BY <1>1, <2>2 DEF Turns, Awaited
  <2> QED BY <2>2, <2>3 DEF Settled
<1>4. DOMAIN results # {} => Grouped
  BY <1>1 DEF Turns, Separate
<1>5. NoFileWrittenTwice
  BY <1>1, <1>2, <1>3, <1>4 DEF NoFileWrittenTwice, Separate, Written, Grouped
<1>6. GroupsBlockedAsAWhole
  BY <1>1, <1>2, <1>4 DEF GroupsBlockedAsAWhole, Separate, Grouped
<1> QED BY <1>5, <1>6 DEF SharedStorageIsSafe

(* Storage that several names of a batch share is written once at most, and not at all
   where hard links make them distinct paths: whatever other programs link, replace or
   remove while the batch is under way. *)
THEOREM StorageIsSafe == Spec => []SharedStorageIsSafe
BY StoringHolds, StoringIsSafe, PTL

-----------------------------------------------------------------------------
(* What a user who sees the exit code, or what a report scope shows, may conclude.
   Fit(r): a change that is due is written or fails, and what counts as unsupported
   is neither to be changed nor has failed. *)

Fit(r) ==
    /\ r.fs # "EMPTY" /\ r.change \in BOOLEAN
    /\ r.change => inv.command # "probe" /\ (inv.apply => r.write \in {"WRITTEN", "FAILED"})
    /\ IsUnsupported(r) => r.fs = "OK" /\ ~r.change /\ CodeOf(<<r>>) = "none"

NoteMissing == missing # <<>> => \E i \in DOMAIN results : results[i].fs = "NOT_FOUND"

Observed ==
    /\ engine \in Failures \cup {"none"}
    /\ \A i \in DOMAIN results :
          /\ Fit(results[i])
          /\ FromCli /\ inv.command # "probe" => (results[i].change => stats.change)
          /\ FromCli /\ inv.command = "probe" =>
                /\ results[i].probe = "none" => stats.missing
                /\ results[i].probe \notin {"none", "resolved"} => stats.unresolved
    /\ FromCli /\ next > Len(selected) + 1 => NoteMissing
    /\ pc = "finish" => NoteMissing

LEMMA InitObserved == Init => Observed
BY DEF Init, Observed

LEMMA FitPlaced ==
    ASSUME NEW v \in Verdict, NEW p, Fit(v)
    PROVE  Fit([v EXCEPT !.path = p])
<1> DEFINE r == [v EXCEPT !.path = p]
<1>1. /\ r.fs = v.fs /\ r.change = v.change /\ r.write = v.write /\ r.resolve = v.resolve
      /\ CodeOf(<<r>>) = CodeOf(<<v>>)
  BY Placed DEF Verdict
<1> HIDE DEF r
<1>2. Fit(r)
  BY <1>1 DEF Fit, IsUnsupported
<1> QED BY <1>2 DEF r

LEMMA VerdictsFit ==
    /\ \A p : \A v \in Verdicts(p) : Fit(v)
    /\ \A v \in {NotFound, HardLinked, Filtered} : Fit(v) /\ v.write = "PENDING"
<1>1. ASSUME NEW v, v.fs # "EMPTY", v.change = FALSE, v.resolve \in {"RESOLVED", "PENDING"}
      PROVE  Fit(v)
  BY <1>1 DEF Fit, IsUnsupported
<1>2. /\ \A v \in {NotFound, HardLinked, Filtered} :
             /\ v.fs # "EMPTY" /\ v.change = FALSE /\ v.resolve = "PENDING" /\ v.write = "PENDING"
      /\ \A v \in Unreadable : v.fs # "EMPTY" /\ v.change = FALSE /\ v.resolve = "PENDING"
  BY DEF NotFound, HardLinked, Filtered, Clean, Unreadable
<1>3. /\ \A v \in {Clean, Unrendered} : v.fs # "EMPTY" /\ v.change = FALSE /\ v.resolve = "RESOLVED"
      /\ \A v \in Probed : v.fs # "EMPTY" /\ v.change = FALSE /\ v.resolve = "RESOLVED"
  <2>1. /\ Clean.fs = "OK" /\ Clean.change = FALSE /\ Clean.resolve = "RESOLVED"
        /\ Unrendered.fs = "OK" /\ Unrendered.change = FALSE /\ Unrendered.resolve = "RESOLVED"
    BY DEF Clean, Unrendered
  <2>2. \A v \in Probed : v.fs = "PENDING" /\ v.change = FALSE /\ v.resolve = "RESOLVED"
    BY DEF Clean, Probed
  <2> QED BY <2>1, <2>2
<1>4. Fit(Unsupported)
  <2>1. /\ Unsupported.fs = "OK" /\ Unsupported.change = FALSE /\ Unsupported.write = "PENDING"
        /\ Unsupported.content = "PENDING" /\ Unsupported.render = "PENDING"
    BY DEF Unsupported, Clean
  <2>2. CodeOf(<<Unsupported>>) = "none"
    BY <2>1, Uncoded DEF Implies
  <2> QED BY <2>1, <2>2 DEF Fit
<1>5. ASSUME inv.command # "probe", NEW v \in Changed PROVE Fit(v)
  <2>1. /\ v.fs = "OK" /\ v.change = TRUE /\ v.resolve = "RESOLVED"
        /\ inv.apply => v.write \in {"WRITTEN", "FAILED"}
    BY DEF Changed, Outdated, Clean
  <2> QED BY <1>5, <2>1 DEF Fit, IsUnsupported
<1>6. \A v \in {NotFound, HardLinked, Filtered} : Fit(v) /\ v.write = "PENDING"
  BY <1>1, <1>2
<1>7. ASSUME NEW p, NEW v \in Verdicts(p) PROVE Fit(v)
  <2>1. CASE inv.command = "probe"
    BY <1>1, <1>3, <2>1 DEF Verdicts
  <2>2. CASE inv.command # "probe"
    BY <1>1, <1>2, <1>3, <1>4, <1>5, <1>6, <2>2 DEF Verdicts
  <2> QED BY <2>1, <2>2
<1> QED BY <1>6, <1>7

LEMMA Observes ==
    ASSUME stats \in Stats, NEW r, r.change \in BOOLEAN
    PROVE  /\ inv.command # "probe" =>
                 (Observe(stats, r).change <=> stats.change \/ r.change)
           /\ inv.command = "probe" =>
                 /\ Observe(stats, r).missing <=> stats.missing \/ r.probe = "none"
                 /\ Observe(stats, r).unresolved <=> stats.unresolved \/ r.probe \notin {"none", "resolved"}
<1> DEFINE code == IF CodeOf(<<r>>) = "none" THEN stats.exit
                   ELSE SelectExitCode(stats.exit, CodeOf(<<r>>))
           o == [stats EXCEPT !.exit = code]
           w == IF r.write = "WRITTEN" THEN 1 ELSE 0
           f == IF r.write = "FAILED" THEN 1 ELSE 0
           miss == r.probe = "none"
           open == r.probe \notin {"none", "resolved"}
<1>1. ObserveCode(stats, r) = o
  BY DEF ObserveCode
<1>2. Observe(stats, r) =
        IF inv.command = "probe"
        THEN [o EXCEPT !.missing = @ \/ miss, !.unresolved = @ \/ open]
        ELSE [o EXCEPT !.written = @ + w, !.failed = @ + f, !.change = @ \/ r.change]
  BY <1>1 DEF Observe, ObserveContent, ObserveProbe
<1> HIDE DEF code, w, f, miss, open
<1>3. /\ o.change = stats.change /\ o.missing = stats.missing /\ o.unresolved = stats.unresolved
      /\ DOMAIN o = {"exit", "written", "failed", "change", "missing", "unresolved"}
  BY DEF Stats
<1> HIDE DEF o
<1>4. [o EXCEPT !.written = @ + w, !.failed = @ + f, !.change = @ \/ r.change].change
         = (o.change \/ r.change)
  BY <1>3
<1>5. /\ [o EXCEPT !.missing = @ \/ miss, !.unresolved = @ \/ open].missing = (o.missing \/ miss)
      /\ [o EXCEPT !.missing = @ \/ miss, !.unresolved = @ \/ open].unresolved = (o.unresolved \/ open)
  BY <1>3
<1> QED BY <1>2, <1>3, <1>4, <1>5 DEF miss, open

LEMMA ObservedKept ==
    ASSUME Observed, UNCHANGED <<inv, results, stats, missing, selected, next>>,
           engine' \in Failures \cup {"none"},
           pc' = "finish" => pc = "finish" \/ NoteMissing
    PROVE  Observed'
<1>1. \A i : Fit(results[i])' <=> Fit(results[i])
  BY DEF Fit, IsUnsupported
<1> QED BY <1>1 DEF Observed, NoteMissing, FromCli

LEMMA EmitObserved ==
    ASSUME IInv, Observed, NEW p, NEW v \in Verdict, Fit(v), Emit(p, v),
           pc' = "files", UNCHANGED <<inv, missing, selected, engine>>,
           next' = next + 1, next \in Nat, selected \in Seq(Path),
           FromCli /\ missing # <<>> /\ next = Len(selected) + 1 => v.fs = "NOT_FOUND"
    PROVE  Observed'
<1> DEFINE r == [v EXCEPT !.path = p]
<1>1. Fit(r) /\ r.change \in BOOLEAN /\ r.fs = v.fs
  BY FitPlaced, Placed DEF Verdict
<1>2. FromCli => stats' = Observe(stats, r)
  BY DEF Emit, FromCli
<1>3. PICK last : /\ DOMAIN results' = DOMAIN results \cup {last} /\ last \notin DOMAIN results
                  /\ \A i \in DOMAIN results : results'[i] = results[i]
                  /\ results'[last] = r
  BY EmitAppends
<1> HIDE DEF r
<1>4. stats \in Stats
  BY DEF IInv, Kept
<1>5. \A x : Fit(x)' <=> Fit(x)
  BY DEF Fit, IsUnsupported
<1>6. ASSUME NEW i \in DOMAIN results'
      PROVE  /\ Fit(results'[i])
             /\ FromCli /\ inv.command # "probe" => (results'[i].change => stats'.change)
             /\ FromCli /\ inv.command = "probe" =>
                   /\ results'[i].probe = "none" => stats'.missing
                   /\ results'[i].probe \notin {"none", "resolved"} => stats'.unresolved
  <2>1. FromCli /\ inv.command # "probe" => (stats'.change <=> stats.change \/ r.change)
    BY <1>1, <1>2, <1>4, Observes
  <2>2. FromCli /\ inv.command = "probe" =>
           /\ stats'.missing <=> stats.missing \/ r.probe = "none"
           /\ stats'.unresolved <=> stats.unresolved \/ r.probe \notin {"none", "resolved"}
    BY <1>1, <1>2, <1>4, Observes
  <2>3. CASE i \in DOMAIN results
    BY <1>3, <2>1, <2>2, <2>3 DEF Observed
  <2>4. CASE results'[i] = r
    BY <1>1, <2>1, <2>2, <2>4
  <2> QED BY <1>3, <2>3, <2>4
<1>7. FromCli /\ next' > Len(selected) + 1 => NoteMissing'
  <2> SUFFICES ASSUME FromCli, next + 1 > Len(selected) + 1, missing # <<>>
               PROVE  \E i \in DOMAIN results' : results'[i].fs = "NOT_FOUND"
    BY DEF NoteMissing
  <2>1. CASE next = Len(selected) + 1
    BY <1>1, <1>3, <2>1
  <2>2. CASE next # Len(selected) + 1
    <3>1. next > Len(selected) + 1
      BY <2>2
    <3> QED BY <1>3, <3>1 DEF Observed, NoteMissing
  <2> QED BY <2>1, <2>2
<1>8. engine' \in Failures \cup {"none"} /\ Len(selected') = Len(selected) /\ FromCli' = FromCli
  BY DEF Observed, FromCli
<1> QED BY <1>5, <1>6, <1>7, <1>8 DEF Observed

LEMMA StepObserved == IInv /\ Chosen /\ Turns /\ Observed /\ [Next]_vars => Observed'
<1> SUFFICES ASSUME IInv, Chosen, Turns, Observed, [Next]_vars PROVE Observed'
  OBVIOUS
<1>i. engine \in Failures \cup {"none"} /\ next \in Nat /\ selected \in Seq(Path)
  BY DEF Observed, Turns, Chosen, Picks
<1>1. CASE UNCHANGED vars
  BY <1>1, <1>i, ObservedKept DEF vars
<1>2. CASE Find \/ Identify
  <2>1. /\ pc \in Before /\ pc' # "finish" /\ UNCHANGED <<inv, results, engine, next>>
    BY <1>2 DEF Find, Identify, Goto, End, Before, input, engineState
  <2>2. DOMAIN results' = {} /\ engine' = "none" /\ next' = 1
    BY <2>1 DEF Turns
  <2>3. selected' \in Seq(Path)
    BY StepChosen DEF Chosen, Picks
  <2>4. ~(next' > Len(selected') + 1)
    BY <2>2, <2>3
  <2> QED BY <2>1, <2>2, <2>4 DEF Observed
<1>3. CASE Plan \/ Load \/ Prepare \/ ExplainInputs \/ CheckInputs \/ StartEngine \/ FinishContent
           \/ FinishProbe \/ ReportContent \/ ReportProbe \/ NextEvent \/ Return \/ Others
  <2>1. UNCHANGED <<inv, results, stats, missing, selected, next, engine>>
    BY <1>3 DEF Plan, Load, Prepare, ExplainInputs, CheckInputs, StartEngine, FinishContent,
                FinishProbe, ReportContent, ReportProbe, NextEvent, Return, Others,
                input, selection, engineState, stream
  <2>2. pc' = "finish" => pc = "finish"
    BY <1>3 DEF Plan, Load, Prepare, ExplainInputs, CheckInputs, StartEngine, FinishContent,
                FinishProbe, ReportContent, ReportProbe, NextEvent, Return, Others, Goto, End
  <2> QED BY <1>i, <2>1, <2>2, ObservedKept
<1>4. CASE Block \/ Process
  <2>1. PICK v \in Verdict : /\ Turn /\ pc' = "files" /\ UNCHANGED <<inv, missing, selected, engine>>
                             /\ Emit(Current, v) /\ Fit(v)
    BY <1>4, VerdictsTold, VerdictsFit DEF Block, Process, Goto, input, selection
  <2>2. next' = next + 1 /\ next # Len(selected) + 1
    BY <1>i, <2>1 DEF Turn
  <2> QED BY <1>i, <2>1, <2>2, EmitObserved
<1>5. CASE Raise
  <2>1. /\ Turn /\ pc' = "files" /\ UNCHANGED <<inv, missing, selected, results, stats>>
        /\ engine' \in Failures \cup {"none"}
    BY <1>5, <1>i DEF Raise, Goto, input, selection, stream, Failures, Priority
  <2>2. next' = next + 1 /\ ~(next' > Len(selected) + 1)
    BY <1>i, <2>1 DEF Turn
  <2>3. \A i : Fit(results[i])' <=> Fit(results[i])
    BY <2>1 DEF Fit, IsUnsupported
  <2> QED BY <2>1, <2>2, <2>3 DEF Observed, FromCli
<1>6. CASE Supplement
  <2> DEFINE i == next - Len(selected)
             v == Synthetic[i].verdict
  <2>1. /\ i \in DOMAIN Synthetic /\ Emit(Synthetic[i].path, v) /\ next' = next + 1
        /\ pc' = "files" /\ UNCHANGED <<inv, missing, selected, engine>>
    BY <1>6 DEF Supplement, Goto, input, selection
  <2>2. v \in Verdict /\ Fit(v)
    <3>1. v \in {NotFound, Filtered}
      BY <2>1 DEF Synthetic
    <3> HIDE DEF v
    <3> QED BY <3>1, VerdictsTold, VerdictsFit
  <2>3. ASSUME missing # <<>>, next = Len(selected) + 1 PROVE v.fs = "NOT_FOUND"
    <3>1. missing \in Seq(Path) /\ Len(missing) >= 1
      BY <2>3 DEF Chosen, Picks
    <3>2. i = 1
      BY <1>i, <2>3
    <3>3. v = NotFound
      BY <2>1, <3>1, <3>2 DEF Synthetic
    <3> QED BY <3>3 DEF NotFound, Clean
  <2> HIDE DEF i, v
  <2> QED BY <1>i, <2>1, <2>2, <2>3, EmitObserved
<1>7. CASE Complete
  <2>1. /\ UNCHANGED <<inv, results, stats, missing, selected, next, engine>>
        /\ pc' = "finish" => FromCli
        /\ next > Len(selected) + Len(Synthetic)
    BY <1>7 DEF Complete, Goto, FromCli, input, selection, engineState
  <2>2. ASSUME FromCli, missing # <<>> PROVE NoteMissing
    <3>1. missing \in Seq(Path) /\ Len(missing) >= 1 /\ Len(explained) \in Nat
      BY <2>2 DEF Chosen, Picks
    <3>2. Len(Synthetic) = Len(missing) + Len(explained)
      BY <2>2, <3>1 DEF Synthetic, FromCli
    <3>3. next > Len(selected) + 1
      BY <1>i, <2>1, <3>1, <3>2
    <3> QED BY <2>2, <3>3 DEF Observed
  <2>3. pc' = "finish" => NoteMissing
    BY <2>1, <2>2 DEF NoteMissing
  <2> QED BY <1>i, <2>1, <2>3, ObservedKept
<1> QED BY <1>1, <1>2, <1>3, <1>4, <1>5, <1>6, <1>7 DEF Next, Command

(* How the run ends: Hides is what success would hide, Shows what a report keeps. *)

Hides ==
    /\ lost = {} /\ missing = <<>> /\ CodeOf(results) = "none" /\ node[Temp] = "absent"
    /\ \A i \in DOMAIN results : results[i].change => results[i].write = "WRITTEN"
    /\ inv.command = "probe" => \A i \in DOMAIN results : results[i].probe = "resolved"

Shows ==
    \A i \in DOMAIN results :
      \/ \E j \in DOMAIN shown : shown[j] = results[i]
      \/ results[i].fs = "OK" /\ ~results[i].change /\ CodeOf(<<results[i]>>) = "none"

Ended ==
    /\ pc # "done" => exit = "none"
    /\ exit = "SUCCESS" /\ ~(inv.apply /\ inv.stdin) => Hides
    /\ pc = "events" \/ exit = "RETURNED" => Shows

(* No error at the end: no file was lost, no result failed, no input was missing and
   every change that was due is written. *)
LEMMA NoErrorHides ==
    ASSUME IInv, Observed, pc = "finish", Encountered = "none",
           ~inv.apply /\ inv.command # "probe" => ~stats.change,
           inv.command = "probe" => ~stats.missing /\ ~stats.unresolved,
           UNCHANGED <<inv, lost, missing, results>>, node'[Temp] = "absent"
    PROVE  Hides'
<1>1. FromCli /\ engine = "none" /\ stats.exit = "none"
  BY DEF IInv, Streamed, Encountered
<1>2. lost = {} /\ CodeOf(results) = "none"
  BY <1>1 DEF IInv, Told
<1>3. \A i \in DOMAIN results : CodeOf(<<results[i]>>) = "none"
  BY <1>2, CodeOfMember
<1>4. \A i \in DOMAIN results : results[i].fs # "NOT_FOUND" /\ results[i].write # "FAILED"
  <2> SUFFICES ASSUME NEW i \in DOMAIN results, results[i].fs = "NOT_FOUND" \/ results[i].write = "FAILED"
               PROVE  FALSE
    OBVIOUS
  <2>1. Some(<<results[i]>>, 1) \/ Some(<<results[i]>>, 4)
    BY DEF Some, Implies
  <2>2. First(<<results[i]>>) \in {1, 2, 3, 4}
    BY <2>1 DEF First
  <2> QED BY <1>3, <2>2, CodeOfFirst, Ranks
<1>5. missing = <<>>
  BY <1>4 DEF Observed, NoteMissing
<1>6. ASSUME NEW i \in DOMAIN results
      PROVE  /\ results[i].change => results[i].write = "WRITTEN"
             /\ inv.command = "probe" => results[i].probe = "resolved"
  <2>1. Fit(results[i])
    BY DEF Observed
  <2>2. results[i].change => inv.command # "probe" /\ inv.apply
    BY <1>1, <2>1 DEF Fit, Observed
  <2>3. results[i].change => results[i].write = "WRITTEN"
    BY <1>4, <2>1, <2>2 DEF Fit
  <2>4. inv.command = "probe" => results[i].probe = "resolved"
    BY <1>1 DEF Observed
  <2> QED BY <2>3, <2>4
<1> QED BY <1>2, <1>5, <1>6 DEF Hides

LEMMA FinishEnded == IInv /\ Chosen /\ Observed /\ (FinishContent \/ FinishProbe) => Ended'
<1> SUFFICES ASSUME IInv, Chosen, Observed, FinishContent \/ FinishProbe PROVE Ended'
  OBVIOUS
<1>1. /\ pc = "finish" /\ pc' = "done" /\ UNCHANGED <<inv, lost, missing, results>>
  BY DEF FinishContent, FinishProbe, End, input, selection, engineState
<1>2. Encountered \in Failures \cup {"none"}
  BY DEF IInv, Kept, Stats, Observed, Encountered, Failures, Priority
<1>3. ASSUME exit' = "SUCCESS", ~(inv.apply /\ inv.stdin)
      PROVE  /\ Encountered = "none" /\ Unlink(Temp)
             /\ ~inv.apply /\ inv.command # "probe" => ~stats.change
             /\ inv.command = "probe" => ~stats.missing /\ ~stats.unresolved
  <2>1. "SUCCESS" \notin Failures
    BY DEF Failures, Priority
  <2>2. CASE FinishContent
    <3>1. CASE Encountered # "none"
      BY <1>2, <1>3, <2>1, <2>2, <3>1 DEF FinishContent, End
    <3>2. CASE Encountered = "none" /\ ~inv.apply /\ stats.change
      BY <1>3, <2>2, <3>2 DEF FinishContent, End
    <3>3. CASE Encountered = "none" /\ ~(~inv.apply /\ stats.change)
      BY <1>3, <2>2, <3>3 DEF FinishContent, End
    <3> QED BY <3>1, <3>2, <3>3
  <2>3. CASE FinishProbe
    BY <1>2, <1>3, <2>1, <2>3 DEF FinishProbe, End
  <2> QED BY <2>2, <2>3
<1>4. Unlink(Temp) => node'[Temp] = "absent"
  BY TempAssumption DEF Unlink, Chosen, Standing, LinksStand
<1>5. exit' = "SUCCESS" /\ ~(inv.apply /\ inv.stdin) => Hides'
  BY <1>1, <1>3, <1>4, NoErrorHides
<1>6. exit' # "RETURNED"
  BY <1>2 DEF FinishContent, FinishProbe, End, Failures, Priority
<1> QED BY <1>1, <1>5, <1>6 DEF Ended

(* A report scope hides what is neither to be changed nor failed. *)
LEMMA ReportShows == IInv /\ Observed /\ (ReportContent \/ ReportProbe) => Shows'
<1> SUFFICES ASSUME IInv, Observed, ReportContent \/ ReportProbe PROVE Shows'
  OBVIOUS
<1>1. UNCHANGED results
  BY DEF ReportContent, ReportProbe, engineState
<1>2. CASE ReportProbe
  BY <1>1, <1>2 DEF ReportProbe, Shows
<1>3. CASE ReportContent
  <2>1. PICK S : results \in Seq(S)
    BY DEF IInv, Kept
  <2> DEFINE I == {i \in DOMAIN results : InScope(results[i])}
  <2>2. shown' = Picked(results, I)
    BY <1>3 DEF ReportContent
  <2>3. Elements(shown') = {results[i] : i \in I}
    BY <2>1, <2>2, PickedElements
  <2>4. ASSUME NEW i \in DOMAIN results
        PROVE  \/ \E j \in DOMAIN shown' : shown'[j] = results[i]
               \/ results[i].fs = "OK" /\ ~results[i].change /\ CodeOf(<<results[i]>>) = "none"
    <3> DEFINE r == results[i]
    <3>1. CASE InScope(r)
      BY <2>3, <3>1 DEF Elements
    <3>2. CASE ~InScope(r) /\ IsUnsupported(r)
      BY <3>2 DEF Observed, Fit
    <3>3. CASE ~InScope(r) /\ ~IsUnsupported(r)
      <4>1. inv.scope \in {"actionable", "noncompliant", "all"}
        BY DEF IInv, Kept, Invocation
      <4>2. ~r.change /\ ~NeedsAttention(r)
        BY <3>3, <4>1 DEF InScope
      <4>3. r.fs = "OK" /\ ~r.error
        BY <4>2 DEF NeedsAttention, Observed, Fit
      <4>4. CodeOf(<<r>>) = "none"
        BY <4>3 DEF IInv, Told, Diagnosed
      <4> QED BY <4>2, <4>3, <4>4
    <3> QED BY <3>1, <3>2, <3>3
  <2> QED BY <1>1, <2>4 DEF Shows
<1> QED BY <1>2, <1>3

LEMMA EndedKept ==
    ASSUME Ended, UNCHANGED <<inv, exit>>, pc # "done", pc' # "done",
           pc' = "events" => Shows'
    PROVE  Ended'
BY DEF Ended

LEMMA StepEnded == IInv /\ Chosen /\ Turns /\ Observed /\ Ended /\ [Next]_vars => Ended'
<1> SUFFICES ASSUME IInv, Chosen, Turns, Observed, Ended, [Next]_vars PROVE Ended'
  OBVIOUS
<1>1. CASE UNCHANGED vars
  BY <1>1 DEF vars, Ended, Hides, Shows
<1>2. CASE Plan \/ Load \/ Prepare \/ Identify
  <2>1. /\ UNCHANGED inv /\ pc # "done" /\ pc' # "events"
        /\ \/ pc' # "done" /\ UNCHANGED exit
           \/ pc' = "done" /\ exit' \in {"USAGE_ERROR", "CONFIG_ERROR", "TRACEBACK"}
    BY <1>2 DEF Plan, Load, Prepare, Identify, Goto, End, input
  <2> QED BY <2>1 DEF Ended
<1>3. CASE CheckInputs
  <2>1. CASE pc' = "links" /\ UNCHANGED <<inv, exit>>
    BY <1>3, <2>1, EndedKept DEF CheckInputs
  <2>2. CASE exit' = "SUCCESS" /\ pc' = "done"
    <3>1. /\ selected = <<>> /\ missing = <<>> /\ UNCHANGED <<inv, lost, missing, results, node>>
          /\ pc = "check_inputs"
      BY <1>3, <2>2 DEF CheckInputs, Goto, input, selection, engineState
    <3>2. results = <<>> /\ lost = {}
      BY <3>1 DEF Turns, Before
    <3>3. node[Temp] = "absent"
      BY <3>1 DEF Chosen, Standing, Picks, Choosing
    <3>4. Hides'
      BY <3>1, <3>2, <3>3, NoCodeOfNone DEF Hides
    <3> QED BY <2>2, <3>4 DEF Ended
  <2> QED BY <1>3, <2>1, <2>2 DEF CheckInputs, Goto, End, input
<1>4. CASE Find \/ ExplainInputs \/ StartEngine \/ Block \/ Process \/ Raise \/ Supplement \/ Complete
           \/ Others
  <2>1. /\ UNCHANGED <<inv, exit>> /\ pc # "done" /\ pc' # "done"
        /\ pc' = "events" => pc = "events" /\ UNCHANGED <<results, shown>>
    BY <1>4 DEF Find, ExplainInputs, StartEngine, Turn, Block, Process, Raise, Supplement, Complete,
                Others, Goto, input, engineState, stream
  <2> QED BY <2>1, EndedKept DEF Ended, Shows
<1>5. CASE FinishContent \/ FinishProbe
  BY <1>5, FinishEnded
<1>6. CASE ReportContent \/ ReportProbe
  <2>1. UNCHANGED <<inv, exit>> /\ pc # "done" /\ pc' # "done"
    BY <1>6 DEF ReportContent, ReportProbe, Goto, input
  <2> QED BY <1>6, <2>1, ReportShows, EndedKept
<1>7. CASE NextEvent
  <2>1. /\ UNCHANGED <<inv, exit, results, shown>> /\ pc = "events" /\ pc' = "events"
    BY <1>7 DEF NextEvent, Goto, input, engineState
  <2> QED BY <2>1, EndedKept DEF Ended, Shows
<1>8. CASE Return
  <2>1. /\ UNCHANGED <<inv, results, shown>> /\ pc = "events" /\ pc' = "done" /\ exit' = "RETURNED"
    BY <1>8 DEF Return, End, input, engineState
  <2> QED BY <2>1 DEF Ended, Shows
<1> QED BY <1>1, <1>2, <1>3, <1>4, <1>5, <1>6, <1>7, <1>8 DEF Next, Command

Ending == IInv /\ Chosen /\ Turns /\ Observed /\ Ended

LEMMA EndingHolds == Spec => []Ending
<1>1. Init => Ended
  BY DEF Init, Ended
<1>2. Init => Ending
  BY <1>1, InitIInv, InitChosen, InitTurns, InitObserved DEF Ending
<1>3. Ending /\ [Next]_vars => Ending'
  BY StepIInv, StepChosen, StepTurns, StepObserved, StepEnded DEF Ending
<1> QED BY <1>2, <1>3, PTL DEF Spec

(* Success of a command hides no lost, failed or missing file and no change that is due,
   and a report hides only files that are as they should be; for batches of any size. *)
THEOREM NothingHidden == Spec => []NothingIsHidden
<1>1. Ending => NothingIsHidden
  BY DEF Ending, Ended, Hides, Shows, NothingIsHidden, SuccessHidesNothing, HiddenIsHarmless
<1> QED BY <1>1, EndingHolds, PTL

-----------------------------------------------------------------------------
(* Probe's account of its inputs, as long as nobody has touched the files. *)

Untouched ==
    /\ budget \in Int /\ budget <= Changes
    /\ budget = Changes /\ ~inv.stdin /\ inv.command = "probe" =>
         /\ pc \in {"identify", "explain", "check_inputs"} =>
               found = Candidates(node, cfg) /\ missing = MissingLiterals(node, cfg)
         /\ pc \in {"explain", "check_inputs"} => selected = Selected(node, found)
         /\ pc = "check_inputs" => explained = Explain(node, cfg, selected, missing)

LEMMA StepUntouched == Untouched /\ [Next]_vars => Untouched'
<1> SUFFICES ASSUME Untouched, [Next]_vars PROVE Untouched'
  OBVIOUS
<1>1. CASE UNCHANGED vars
  BY <1>1 DEF vars, Untouched
<1>2. CASE Others
  BY <1>2, ChangesAssumption DEF Others, Untouched
<1>3. CASE Find
  BY <1>3 DEF Find, Goto, input, Untouched
<1>4. CASE Identify
  <2>1. /\ pc = "identify" /\ UNCHANGED <<inv, cfg, node, budget, found, missing>>
        /\ \/ pc' = "done"
           \/ selected' = Selected(node, found)
              /\ pc' = IF inv.command = "probe" /\ ~inv.stdin THEN "explain" ELSE "check_inputs"
    BY <1>4 DEF Identify, Goto, End, input
  <2> QED BY <2>1 DEF Untouched
<1>5. CASE ExplainInputs
  BY <1>5 DEF ExplainInputs, Goto, input, Untouched
<1>6. CASE Plan \/ Load \/ Prepare \/ CheckInputs \/ StartEngine \/ Block \/ Process \/ Raise
           \/ Supplement \/ Complete \/ FinishContent \/ FinishProbe \/ ReportContent
           \/ ReportProbe \/ NextEvent \/ Return
  <2>1. UNCHANGED budget /\ pc' \notin {"identify", "explain", "check_inputs"}
    BY <1>6 DEF Plan, Load, Prepare, CheckInputs, StartEngine, Block, Process, Raise, Supplement,
                Complete, FinishContent, FinishProbe, ReportContent, ReportProbe, NextEvent, Return,
                Goto, End
  <2> QED BY <2>1 DEF Untouched
<1> QED BY <1>1, <1>2, <1>3, <1>4, <1>5, <1>6 DEF Next, Command

LEMMA UntouchedAccounts == Chosen /\ Untouched => InputsAccounted
<1> SUFFICES ASSUME Chosen, Untouched,
                    inv.command = "probe", ~inv.stdin, pc = "check_inputs", budget = Changes,
                    NEW p \in Elements(ExplicitInputs(node, cfg)) \ Glob
             PROVE  CASE Leads(node, selected, p) ->
                           p \notin Elements(missing) /\ Explanation(p) = {}
                      [] ~Leads(node, selected, p) /\ p \in Elements(missing) ->
                           ~Exists(node, p) /\ Explanation(p) = {}
                      [] OTHER -> \E r \in Reasons \ {"NOT_FOUND", "EXCLUDED_BY_DISCOVERY_FILTER"} :
                                    Explanation(p) = {r}
  BY DEF InputsAccounted, Leads
<1>1. /\ LinksStand(node) /\ cfg \in Config
      /\ selected = Selected(node, Candidates(node, cfg)) /\ missing = MissingLiterals(node, cfg)
      /\ explained = Explain(node, cfg, selected, missing)
  BY DEF Chosen, Standing, Picks, Untouched
<1>2. /\ Leads(node, selected, p) => Exists(node, p)
      /\ Unexplained(node, selected, missing, p) <=> Leads(node, selected, p) \/ ~Exists(node, p)
  BY <1>1, UnexplainedOrNot
<1>3. p \in Elements(missing) <=> ~Exists(node, p)
  BY <1>1, MissingAreGone
<1>4. \A i \in DOMAIN explained :
         \E q : ~Unexplained(node, selected, missing, q)
               /\ explained[i] = [path |-> q, reason |-> Reason(node, cfg, q)]
  BY <1>1, ExplainedAreLeft
<1>5. Unexplained(node, selected, missing, p) => Explanation(p) = {}
  <2> SUFFICES ASSUME NEW i \in DOMAIN explained, NEW r,
                      explained[i] = [path |-> p, reason |-> r]
               PROVE  ~Unexplained(node, selected, missing, p)
    BY DEF Explanation
  <2>1. PICK q : ~Unexplained(node, selected, missing, q)
                 /\ explained[i] = [path |-> q, reason |-> Reason(node, cfg, q)]
    BY <1>4
  <2>2. q = p
    BY <2>1
  <2> QED BY <2>1, <2>2
<1>6. ASSUME ~Leads(node, selected, p), p \notin Elements(missing)
      PROVE  \E r \in Reasons \ {"NOT_FOUND", "EXCLUDED_BY_DISCOVERY_FILTER"} : Explanation(p) = {r}
  <2>1. Exists(node, p) /\ ~Unexplained(node, selected, missing, p)
    BY <1>2, <1>3, <1>6
  <2> DEFINE r == Reason(node, cfg, p)
  <2>2. r \in Reasons \ {"NOT_FOUND", "EXCLUDED_BY_DISCOVERY_FILTER"}
    BY <1>1, <1>6, <2>1, ReasonFits
  <2>3. \E i \in DOMAIN explained : explained[i] = [path |-> p, reason |-> r]
    BY <1>1, <2>1, ExplainedAreLeft
  <2>4. ASSUME NEW i \in DOMAIN explained, NEW x, explained[i] = [path |-> p, reason |-> x]
        PROVE  x = r
    <3>1. PICK q : explained[i] = [path |-> q, reason |-> Reason(node, cfg, q)]
      BY <1>4
    <3>2. q = p /\ x = Reason(node, cfg, q)
      BY <2>4, <3>1
    <3> QED BY <3>2
  <2> HIDE DEF r
  <2>5. Explanation(p) = {r}
    BY <2>2, <2>3, <2>4 DEF Explanation
  <2> QED BY <2>2, <2>5
<1> QED BY <1>2, <1>3, <1>5, <1>6

(* While nobody touches the files, probe accounts for every literal input in exactly one
   way, whatever links, directories, filters and globs there are. *)
THEOREM EveryInputAccounted == Spec => []InputsAccounted
<1>1. Init => IInv /\ Chosen /\ Untouched
  <2>1. Init => Untouched
    BY ChangesAssumption DEF Init, Untouched
  <2> QED BY <2>1, InitIInv, InitChosen
<1>2. IInv /\ Chosen /\ Untouched /\ [Next]_vars => (IInv /\ Chosen /\ Untouched)'
  BY StepIInv, StepChosen, StepUntouched
<1> QED BY <1>1, <1>2, UntouchedAccounts, PTL DEF Spec
=============================================================================
