------------------------------ MODULE MCBatchRun ------------------------------
(***************************************************************************)
(* A directory d with two files a and b, a link l to a, a file m that is   *)
(* not there, and the temporary file of standard input.  One pattern       *)
(* matches a, another the directory with a and b; a file type matches a, l *)
(* and m.                                                                  *)
(***************************************************************************)
EXTENDS BatchRun

MCPath == {"d", "a", "b", "l", "m", "t"}
MCSortedPaths == <<"d", "a", "b", "l", "m", "t">>
MCAncestors == [p \in MCPath |-> IF p \in {"a", "b", "l"} THEN {"d"} ELSE {}]
MCTarget == [p \in {"l"} |-> "a"]
MCGlob == {"g"}
MCGlobHits == [g \in MCGlob |-> {"b", "m"}]
MCPattern == {"onlyA", "dir"}
MCPatternHits == [x \in MCPattern |-> IF x = "onlyA" THEN {"a"} ELSE {"d", "a", "b"}]
MCFileType == {"py"}
MCTypeHits == [x \in MCFileType |-> {"a", "l", "m"}]
MCNewInode == [p \in MCPath |-> "new_" \o p]

\* Distinct files; a and b the same file; b not there.
MCTrees ==
  LET Tree(a, b) == [p \in MCPath |-> CASE p = "d" -> "dir" [] p = "l" -> "link" [] p = "a" -> a
                                        [] p = "b" -> b [] OTHER -> "absent"]
  IN {Tree("i1", "i2"), Tree("i1", "i1"), Tree("i1", "absent")}

Call(via, command, apply, diff, scope) ==
  [via |-> via, command |-> command, apply |-> apply, diff |-> diff, stdin |-> FALSE,
   named |-> FALSE, scope |-> scope]

MCInvocations ==
  {Call("cli", "check", FALSE, FALSE, "all"), Call("cli", "strip", TRUE, FALSE, "all"),
   Call("cli", "probe", FALSE, FALSE, "all"), Call("cli", "check", TRUE, TRUE, "all"),
   Call("api", "strip", FALSE, FALSE, "actionable"), Call("api", "check", TRUE, FALSE, "noncompliant"),
   Call("api", "probe", FALSE, FALSE, "all")}
  \cup {[Call("cli", "check", apply, FALSE, "all") EXCEPT !.stdin = TRUE, !.named = TRUE] : apply \in BOOLEAN}
  \cup {[Call("cli", "probe", FALSE, FALSE, "all") EXCEPT !.stdin = TRUE, !.named = named] : named \in BOOLEAN}

NoFilter == [groups |-> {}, sources |-> {}]
NoList == [given |-> FALSE, readable |-> FALSE, entries |-> <<>>]
Plain(files) == [files |-> files, from |-> NoList, include |-> NoFilter, exclude |-> NoFilter,
                 includeTypes |-> {}, excludeTypes |-> {}, valid |-> TRUE]

\* A directory; a file under two names; a missing file; a glob; lists of files; no
\* input but include patterns; each filter; a pattern file nobody can read.
MCConfigs ==
  {Plain(<<"d">>), Plain(<<"a", "l", "m">>), Plain(<<>>),
   [Plain(<<"g", "b">>) EXCEPT !.excludeTypes = {"py", "gone"}],
   [Plain(<<"m">>) EXCEPT !.valid = FALSE],
   [Plain(<<>>) EXCEPT !.from = [given |-> TRUE, readable |-> FALSE, entries |-> <<"a">>],
                       !.include = [groups |-> {{"onlyA"}}, sources |-> {}]],
   [Plain(<<"d">>) EXCEPT !.from = [given |-> TRUE, readable |-> TRUE, entries |-> <<"b", "l">>],
                          !.exclude = [groups |-> {{}}, sources |-> {[patterns |-> {"onlyA"}, readable |-> TRUE]}]],
   [Plain(<<"d", "b">>) EXCEPT !.exclude = [groups |-> {{"dir"}}, sources |-> {}]],
   [Plain(<<"l", "b">>) EXCEPT !.includeTypes = {"py"},
                               !.include = [groups |-> {}, sources |-> {[patterns |-> {"onlyA"}, readable |-> FALSE]}]]}
=============================================================================
