---- MODULE HeaderText ----
(***************************************************************************)
(* What check and strip do to the text of a file: where a header is looked *)
(* for and found, where one is put, how it is laid out, and what is taken  *)
(* away with it.  FilePipeline says when a header is inserted, replaced or *)
(* removed; this module says which tokens of the text that moves.          *)
(*                                                                         *)
(* A text is a sequence of tokens.  Those the code can tell apart have a   *)
(* name, and a line end is a token of its line:                            *)
(*   start, end       the TopMark markers                                  *)
(*   prefix           the comment prefix of each line, # or // or *        *)
(*   open, close      the delimiters of a block comment                    *)
(*   shebang, coding  what the prolog of a script consists of              *)
(*   decl, doctype    what the prolog of an XML file consists of           *)
(*   fence            a Markdown code fence                                *)
(*   sp, ff           a blank, and a form feed: white space to strip(),    *)
(*                    but no part of a blank line                          *)
(*   lf, crlf         line ends                                            *)
(*   FieldValues      a whole field line "f: value", for each value        *)
(* All other tokens are words of the user.  BOMs are FilePipeline's; the   *)
(* policy is the default one but for mixed_line_endings, which is preserve,*)
(* and allow_content_reflow.  One field stands for all of them.            *)
(***************************************************************************)
EXTENDS FiniteSets, SequencesExt, PlannedEdits

CONSTANTS
    Formats,      \* records [style, shebang, coding, reflow]: "line", "cblock", "markdown"
                  \* or "xml"; whether shebang and encoding lines of the file type precede
                  \* a header; allow_content_reflow
    FieldValues,  \* what the configured field may be asked to say
    Texts         \* the files to start from, for each format

Styles == {"line", "cblock", "markdown", "xml"}
\* Declarations are the prolog of XML, shebangs that of scripts.
ASSUME FormatsAssumption ==
    /\ Formats \subseteq [style : Styles, shebang : BOOLEAN, coding : BOOLEAN, reflow : BOOLEAN]
    /\ \A f \in Formats : f.style = "xml" => ~f.shebang
\* A field line is not one of the tokens that have a name.
ASSUME FieldsAssumption ==
    FieldValues \subseteq STRING \ {"start", "end", "prefix", "open", "close", "shebang", "coding",
                                   "decl", "doctype", "fence", "sp", "ff", "lf", "crlf"}
ASSUME TextsAssumption == \A f \in Formats : Texts[f] \subseteq Seq(STRING)

LineEnds == {"lf", "crlf"}
Space == {"sp", "ff"} \cup LineEnds
Markup == {"start", "end", "prefix", "open", "close"} \cup FieldValues \cup Space

----------------------------------------------------------------------------
(* Texts, lines and blanks *)

\* The comprehensions [x for x in s if x in set] and [x for x in s if x not in set].
Within(s, set) == FlattenSeq([i \in DOMAIN s |-> IF s[i] \in set THEN <<s[i]>> ELSE <<>>])
Without(s, set) == FlattenSeq([i \in DOMAIN s |-> IF s[i] \in set THEN <<>> ELSE <<s[i]>>])

Ascending(S) == [k \in 1 .. Cardinality(S) |-> CHOOSE x \in S : Cardinality({y \in S : y <= x}) = k]

\* readlines() with newline="": every line keeps its end, the last may have none.
LinesOf(text) ==
    LET last == Ascending({i \in DOMAIN text : text[i] \in LineEnds \/ i = Len(text)})
    IN  [k \in DOMAIN last |-> SubSeq(text, IF k = 1 THEN 1 ELSE last[k - 1] + 1, last[k])]

\* The line at i, if there is one.
LineAt(lines, i) == IF i \in DOMAIN lines THEN <<lines[i]>> ELSE <<>>

Stripped(line) ==
    LET solid == {i \in DOMAIN line : line[i] \notin Space}
    IN  IF solid = {} THEN <<>> ELSE SubSeq(line, Min(solid), Max(solid))

IsBlank(line) == Stripped(line) = <<>>
IsPureSpacer(line) == ToSet(line) \subseteq {"sp"} \cup LineEnds
IsBareLineEnd(line) == Len(line) = 1 /\ line[1] \in LineEnds

EndOf(line) == Within(line, LineEnds)     \* <<>> or the line end
EndsWithNewline(text) == text # <<>> /\ Last(text) \in LineEnds

WithoutTrailingBlanks(lines) ==
    SubSeq(lines, 1, Max({0} \cup {i \in DOMAIN lines : ~IsBlank(lines[i])}))

\* The most frequent line end, the first one met among equals; LF when there is none.
DominantNewline(lines) ==
    LET ends == FlattenSeq([i \in DOMAIN lines |-> EndOf(lines[i])])
        Count(e) == Cardinality({i \in DOMAIN ends : ends[i] = e})
        best == {i \in DOMAIN ends : \A e \in LineEnds : Count(e) <= Count(ends[i])}
    IN  IF ends = <<>> THEN "lf" ELSE ends[Min(best)]

\* _compute_empty_flags: one line at most, and nothing but white space on it.
IsLogicallyEmpty(lines) == Len(lines) <= 1 /\ \A i \in DOMAIN lines : IsBlank(lines[i])

----------------------------------------------------------------------------
(* Where a header belongs *)

\* get_header_insertion_index: behind the shebang, the encoding line that follows
\* it, and one blank line.
LineAnchor(f, lines) ==
    LET shebang == f.shebang /\ lines # <<>> /\ lines[1][1] = "shebang"
        prolog == IF ~shebang THEN 0
                  ELSE IF f.coding /\ Len(lines) > 1 /\ "coding" \in ToSet(lines[2])
                       THEN 2 ELSE 1
    IN  IF shebang /\ prolog < Len(lines) /\ IsPureSpacer(lines[prolog + 1])
        THEN prolog + 1 ELSE prolog

AfterSpace(text, o) ==
    Min({i \in o .. Len(text) : i = Len(text) \/ text[i + 1] \notin {"sp"} \cup LineEnds})

\* get_header_insertion_char_offset of the XML processor, in tokens: behind the
\* declaration, the doctype that follows it, and all white space.
XmlOffset(text) ==
    LET After(token, o) == IF o < Len(text) /\ text[o + 1] = token
                           THEN AfterSpace(text, o + 1) ELSE o
        top == AfterSpace(text, 0)
        decl == After("decl", top)
    IN  IF decl = top THEN top ELSE After("doctype", decl)

LineOfOffset(text, o) == Cardinality({i \in 1 .. o : text[i] \in LineEnds})
ColumnOfOffset(text, o) ==
    o - Max({0} \cup {i \in 1 .. o : text[i] \in LineEnds})

Anchor(f, text) ==
    IF f.style = "xml" THEN LineOfOffset(text, XmlOffset(text))
    ELSE LineAnchor(f, LinesOf(text))

\* The insert checker of the XML file type; other built-in types have none.
InsertCapability(f, text) ==
    LET o == XmlOffset(text)
        at == LineOfOffset(text, o)
        lines == LinesOf(text)
        body == LineAt(lines, at + 1) \o LineAt(lines, at + 2)
    IN  IF f.style # "xml" THEN "ok"
        ELSE IF o = Len(text) THEN "unsupported"
        ELSE IF ColumnOfOffset(text, o) > 0 THEN "reflow"
        ELSE IF "ff" \in ToSet(FlattenSeq(body)) THEN "unsupported"
        ELSE "ok"

\* The reader halts a file that would be reflowed, for strip as well as for check.
IsReadable(f, text) == InsertCapability(f, text) = "reflow" => f.reflow
MayPlan(f, text) == /\ InsertCapability(f, text) # "unsupported"
                    /\ IsReadable(f, text)

----------------------------------------------------------------------------
(* Finding a header *)

\* line_has_directive: the marker alone, behind the line prefix if there is one.
HasDirective(f, line, marker) ==
    LET s == Stripped(line)
    IN  IF f.style \in {"line", "cblock"}
        THEN s # <<>> /\ s[1] = "prefix" /\ Stripped(Tail(s)) = <<marker>>
        ELSE s = <<marker>>

\* The C block processor takes a marker without the prefix as well.
LineHasDirective(f, line, marker) ==
    \/ HasDirective(f, line, marker)
    \/ f.style = "cblock" /\ Stripped(line) = <<marker>>

\* The lines of a Markdown text that are fences or lie between them.
Fenced(lines) ==
    LET fences == {i \in DOMAIN lines : Stripped(lines[i]) # <<>> /\ Stripped(lines[i])[1] = "fence"}
    IN  {i \in DOMAIN lines :
           i \in fences \/ Cardinality({j \in fences : j < i}) % 2 = 1}

\* What get_header_bounds searches: Markdown hides the markers of fenced lines.
Searched(f, lines) ==
    IF f.style # "markdown" THEN lines
    ELSE [i \in DOMAIN lines |->
            IF i \in Fenced(lines)
            THEN Without(lines[i], {"start", "end"}) ELSE lines[i]]

\* Start and end markers alternate, each on a line of its own, beginning with a start.
WellPaired(lines) ==
    LET Has(m) == {i \in DOMAIN lines : m \in ToSet(lines[i])}
        Pair(i, j) == i < j /\ (i + 1 .. j - 1) \cap (Has("start") \cup Has("end")) = {}
    IN  /\ Has("start") \cap Has("end") = {}
        /\ \A i \in Has("start") : \E j \in Has("end") : Pair(i, j)
        /\ \A j \in Has("end") : \E i \in Has("start") : Pair(i, j)

\* Mutant: the delimiters of a block comment are not part of the header.
WithDelimiters_MarkersOnly(f, lines, span) == span

\* _collect_bounds_block_comments: take the delimiters with the markers if both are
\* there, with nothing but blank lines between.
WithDelimiters(f, lines, span) ==
    LET above == Max({0} \cup {i \in 1 .. span[1] - 1 : ~IsPureSpacer(lines[i])})
        below == Min({Len(lines) + 1} \cup {i \in span[2] + 1 .. Len(lines) : ~IsPureSpacer(lines[i])})
        Is(i, token) == i \in DOMAIN lines /\ Without(lines[i], {"sp"} \cup LineEnds) = <<token>>
    IN  IF f.style # "line" /\ Is(above, "open") /\ Is(below, "close")
        THEN <<above, below>> ELSE span

\* The spans between lines that are directives: a start behind which there is an end, and
\* that is not itself in the span of an earlier start.
Candidates(f, lines) ==
    LET Starts == {i \in DOMAIN lines : LineHasDirective(f, lines[i], "start")}
        Ends == {j \in DOMAIN lines : LineHasDirective(f, lines[j], "end")}
        Closers(i) == {j \in Ends : j > i}
    IN  {WithDelimiters(f, lines, <<i, Min(Closers(i))>>) :
           i \in {i \in Starts : /\ Closers(i) # {}
                                /\ \A k \in Starts : k < i => Min(Closers(k)) < i}}

NoSpan == <<0, 0>>

\* Mutant: a header that begins right where one belongs is not taken for one.
HeaderBounds_BelowAnchor(f, text) ==
    LET placed == {s \in Candidates(f, LinesOf(text)) : s[1] - 2 - Anchor(f, text) \in {0, 1}}
    IN  IF placed = {} THEN [kind |-> "none", span |-> NoSpan]
        ELSE [kind |-> "span", span |-> CHOOSE s \in placed : \A t \in placed : s[1] <= t[1]]

\* validate_header_location: at most two lines below the place where a header belongs.
ValidLocation(span, anchor) == span[1] - 1 \in anchor .. anchor + 2

\* get_header_bounds: the first candidate at a valid place.
HeaderBounds(f, text) ==
    LET lines == Searched(f, LinesOf(text))
        anchor == Anchor(f, FlattenSeq(lines))
        placed == {s \in Candidates(f, lines) : ValidLocation(s, anchor)}
    IN  IF ~WellPaired(lines) THEN [kind |-> "malformed", span |-> NoSpan]
        ELSE IF placed = {} THEN [kind |-> "none", span |-> NoSpan]
        ELSE [kind |-> "span", span |-> CHOOSE s \in placed : \A t \in placed : s[1] <= t[1]]

----------------------------------------------------------------------------
(* Reading and laying out a header *)

\* _find_inner_marker_indices
InnerMarkers(f, lines, span) ==
    LET begin == Min({i \in span[1] .. span[2] : LineHasDirective(f, lines[i], "start")})
    IN  <<begin, Min({i \in begin + 1 .. span[2] : LineHasDirective(f, lines[i], "end")})>>

\* _remove_line_affixes, and the blanks around what remains.
WithoutAffixes(f, line) ==
    LET bare == Without(line, {"sp"} \cup LineEnds)
        prefixed == f.style \in {"line", "cblock"} /\ bare # <<>> /\ bare[1] = "prefix"
    IN  IF prefixed THEN Tail(bare) ELSE bare

\* parse_fields, up to whether a line is a field: what stands between the markers.
Payload(f, lines, span) ==
    LET m == InnerMarkers(f, lines, span)
        inner == [k \in 1 .. m[2] - m[1] - 1 |-> WithoutAffixes(f, lines[m[1] + k])]
    IN  Without(inner, {<<>>})

\* Mutant: only a header without any field has errors.
HeaderHasErrors_OnlyIfEmpty(f, lines, span) == Payload(f, lines, span) = <<>>

HeaderHasErrors(f, lines, span) ==
    \E i \in DOMAIN Payload(f, lines, span) :
      LET l == Payload(f, lines, span)[i] IN ~(Len(l) = 1 /\ l[1] \in FieldValues)

\* _wrap_line: behind the prefix, without trailing blanks.
WrapLine(f, nl, indent, content) ==
    LET prefix == IF f.style \in {"line", "cblock"} THEN <<"prefix">> ELSE <<>>
        space == IF prefix = <<>> \/ content = <<>> THEN <<>> ELSE <<"sp">>
    IN  indent \o prefix \o space \o content \o <<nl>>

\* render_preamble_lines and render_postamble_lines
Delimiter(f, nl, indent, d) == IF f.style = "line" THEN <<>> ELSE <<indent \o <<d, nl>>>>
Preamble(f, nl, indent) ==
    Delimiter(f, nl, indent, "open")
      \o <<WrapLine(f, nl, indent, <<"start">>), WrapLine(f, nl, indent, <<>>)>>
Postamble(f, nl, indent) ==
    <<WrapLine(f, nl, indent, <<>>), WrapLine(f, nl, indent, <<"end">>)>>
      \o Delimiter(f, nl, indent, "close")

\* render_header_lines for one field.
RenderedHeader(f, nl, indent, value) ==
    Preamble(f, nl, indent) \o <<WrapLine(f, nl, indent, <<"sp", "sp", value>>)>>
      \o Postamble(f, nl, indent)

\* The renderer keeps the indentation of a header's first line if the line begins with
\* the line prefix, which block styles without a prefix always do.
IndentOf(f, line) ==
    LET solid == Min({i \in DOMAIN line : line[i] \notin Space})
    IN  IF f.style \in {"markdown", "xml"} \/ line[solid] = "prefix"
        THEN SubSeq(line, 1, solid - 1) ELSE <<>>

\* _select_header_newline: that of the header there is, else of the line before the
\* anchor, else of the line at it, else the dominant one.
HeaderNewline(f, lines, span) ==
    LET anchor == LineAnchor(f, lines)
        near == IF span # NoSpan THEN SubSeq(lines, span[1], span[2])
                ELSE IF f.style = "xml" THEN <<>>
                ELSE LineAt(lines, anchor) \o LineAt(lines, anchor + 1)
        ends == FlattenSeq([i \in DOMAIN near |-> EndOf(near[i])])
    IN  IF ends = <<>> THEN DominantNewline(lines) ELSE ends[1]

----------------------------------------------------------------------------
(* Inserting, replacing and removing *)

\* prepare_header_for_insertion of the line-oriented processors: whether a blank line is
\* put before and after a header between the lines prev and next, if there are such.
PaddedAsLines(prev, next, nl) ==
    <<prev # <<>> /\ ~IsPureSpacer(prev[1]),
      next # <<>> /\ next[1] # <<nl>> /\ next[1][1] # "crlf">>
PaddedAsCBlock(prev, next) ==
    <<prev # <<>> /\ ~IsBlank(prev[1]), next = <<>> \/ ~IsBlank(next[1])>>
PaddedAsMarkdown(next) == <<FALSE, next # <<>> /\ ~IsBlank(next[1])>>

\* Mutant: a blank line precedes every header below a prolog.
Prepared_AlwaysAfterBlank(f, lines, anchor, header, nl) ==
    (IF anchor > 0 THEN <<<<nl>>>> ELSE <<>>) \o header \o <<<<nl>>>>

Prepared(f, lines, anchor, header, nl) ==
    LET next == LineAt(lines, anchor + 1)
        prev == LineAt(lines, anchor)
        padded == CASE f.style = "line"     -> PaddedAsLines(prev, next, nl)
                    [] f.style = "cblock"   -> PaddedAsCBlock(prev, next)
                    [] f.style = "markdown" -> PaddedAsMarkdown(next)
        BlankIf(c) == IF c THEN <<<<nl>>>> ELSE <<>>
    IN  BlankIf(padded[1]) \o header \o BlankIf(padded[2])

\* _drop_trailing_blank_if_header_at_eof
DropTrailingBlanks(lines, tail) ==
    IF tail >= Len(lines) THEN WithoutTrailingBlanks(lines) ELSE lines

\* _canonicalize_logically_empty_body_after_insert
CanonicalBody(lines, tail) == WithoutTrailingBlanks(SubSeq(lines, 1, Min({tail, Len(lines)})))

InsertedByLine(f, lines, header, nl) ==
    LET anchor == LineAnchor(f, lines)
        prepared == Prepared(f, lines, anchor, header, nl)
        tail == anchor + Len(prepared)
        joined == SubSeq(lines, 1, anchor) \o prepared \o SubSeq(lines, anchor + 1, Len(lines))
        trimmed == DropTrailingBlanks(joined, tail)
    IN  FlattenSeq(IF IsLogicallyEmpty(lines) THEN CanonicalBody(trimmed, tail) ELSE trimmed)

\* Without its last tokens that are in "of" and behind one in "behind".
TrimPairs(t, behind, of) ==
    SubSeq(t, 1, Min({n \in 0 .. Len(t) :
                        \A i \in n + 1 .. Len(t) : i > 1 /\ t[i - 1] \in behind /\ t[i] \in of}))

\* prepare_header_for_insertion_text: what precedes the offset is the prolog or nothing.
InsertedByOffset(text, header, nl) ==
    LET o == XmlOffset(text)
        lineBefore == SubSeq(text, 1 + Max({0} \cup {i \in 1 .. o - 1 : text[i] \in LineEnds}), o)
        afterProlog == \E i \in 1 .. o : text[i] \in {"decl", "doctype"}
        gap == IF ~afterProlog \/ IsPureSpacer(lineBefore) THEN <<>>
               ELSE IF text[o] \in LineEnds THEN <<nl>> ELSE <<nl, nl>>
        whole == SubSeq(text, 1, o) \o gap \o FlattenSeq(header) \o <<nl>>
                   \o SubSeq(text, o + 1, Len(text))
    IN  TrimPairs(TrimPairs(whole, {"crlf"}, {"crlf"}), LineEnds, {"lf"})

\* What an applied check leaves behind.
Checked(f, text, value) ==
    LET lines == LinesOf(text)
        found == HeaderBounds(f, text)
        nl == HeaderNewline(f, lines, found.span)
        replaced == FlattenSeq(SubSeq(lines, 1, found.span[1] - 1)
                      \o RenderedHeader(f, nl, IndentOf(f, lines[found.span[1]]), value)
                      \o SubSeq(lines, found.span[2] + 1, Len(lines)))
        fresh == RenderedHeader(f, nl, <<>>, value)
    IN  IF ~MayPlan(f, text) \/ found.kind = "malformed" THEN text
        ELSE IF found.kind = "span"
             THEN IF HeaderHasErrors(f, lines, found.span) THEN text ELSE replaced
        ELSE IF f.style = "xml" THEN InsertedByOffset(text, fresh, nl)
        ELSE InsertedByLine(f, lines, fresh, nl)

\* Remove line i if it is there and is a blank line of either kind.
DropSpacer(lines, i) ==
    IF i \in DOMAIN lines /\ IsPureSpacer(lines[i]) THEN RemoveAt(lines, i) ELSE lines
DropBareLineEnd(lines, i) ==
    IF i \in DOMAIN lines /\ IsBareLineEnd(lines[i]) THEN RemoveAt(lines, i) ELSE lines

\* strip_header_block: the span, and one blank line behind it, for XML two.
StripHeaderBlock(lines, span) ==
    DropSpacer(SubSeq(lines, 1, span[1] - 1) \o SubSeq(lines, span[2] + 1, Len(lines)), span[1])
StripXmlHeaderBlock(lines, span) == DropSpacer(StripHeaderBlock(lines, span), span[1])

\* What check may have put before a header in a file of mixed line ends goes with it.
WithoutOwnBlank(f, text, at, rest) ==
    LET lines == LinesOf(text)
        anchor == LineAnchor(f, SubSeq(lines, 1, Max({0, at - 2})))
        mixed == LineEnds \subseteq ToSet(text)
    IN  IF mixed /\ f.style # "xml" /\ at = anchor + 2
        THEN DropBareLineEnd(rest, anchor + 1) ELSE rest

\* The stripper step: one more bare line behind the header, the blank line before it, and
\* the last line end if the file had none.
StrippedText(f, text) ==
    LET lines == LinesOf(text)
        found == HeaderBounds(f, text)
        at == found.span[1]
        byProcessor == IF f.style = "xml" THEN StripXmlHeaderBlock(lines, found.span)
                       ELSE StripHeaderBlock(lines, found.span)
        rest == WithoutOwnBlank(f, text, at, DropBareLineEnd(byProcessor, at))
        joined == FlattenSeq(rest)
    IN  IF ~IsReadable(f, text) \/ found.kind # "span" THEN text
        ELSE IF HeaderHasErrors(f, lines, found.span) THEN text
        ELSE IF \A i \in DOMAIN rest : IsBareLineEnd(rest[i])
             THEN IF EndsWithNewline(text) THEN <<HeaderNewline(f, lines, found.span)>> ELSE <<>>
        ELSE IF EndsWithNewline(joined) /\ ~EndsWithNewline(text) THEN Front(joined)
        ELSE joined

----------------------------------------------------------------------------
(* One file under any sequence of applied commands *)

VARIABLES
    format,   \* the format of the file
    value,    \* what the configuration wants the field to say
    first,    \* the text before the first command
    before,   \* the text before the last command
    last,     \* the last command, "none" when the configuration has changed since
    text      \* the text

textVars == <<format, value, first, before, last, text>>

TextInit ==
    /\ format \in Formats
    /\ value \in FieldValues
    /\ first \in Texts[format]
    /\ text = first
    /\ before = first
    /\ last = "none"

Check ==
    /\ text' = Checked(format, text, value)
    /\ before' = text
    /\ last' = "check"
    /\ UNCHANGED <<format, value, first>>

Strip ==
    /\ text' = StrippedText(format, text)
    /\ before' = text
    /\ last' = "strip"
    /\ UNCHANGED <<format, value, first>>

Reconfigure ==
    /\ value' \in FieldValues \ {value}
    /\ last' = "none"
    /\ before' = text
    /\ UNCHANGED <<format, first, text>>

TextNext == Check \/ Strip \/ Reconfigure

TextSpec == TextInit /\ [][TextNext]_textVars

----------------------------------------------------------------------------
(* What a text keeps *)

UserWords(t) == Without(t, Markup)

\* The lines that are not blank, without their line ends.
SolidLines(t) ==
    LET lines == LinesOf(t)
    IN  FlattenSeq([i \in DOMAIN lines |->
          IF IsBlank(lines[i]) THEN <<>> ELSE <<Without(lines[i], LineEnds)>>])

BlankLines(t) == LET lines == LinesOf(t) IN {i \in DOMAIN lines : IsPureSpacer(lines[i])}

\* How a text begins that an interpreter or an XML parser has to recognise.
HasProlog(f, t) ==
    \/ t # <<>> /\ t[1] = "shebang" /\ f.shebang
    \/ AfterSpace(t, 0) < Len(t) /\ t[AfterSpace(t, 0) + 1] = "decl" /\ f.style = "xml"

\* A header would be put behind blanks that a line begins with: those of a last line without
\* a line end, or those before the root element where the policy allows to reflow the line.
StartsBehindBlanks(f, t) ==
    IF f.style = "xml"
    THEN LET o == XmlOffset(t)
         IN  ColumnOfOffset(t, o) > 0 /\ IsPureSpacer(SubSeq(t, o - ColumnOfOffset(t, o) + 1, o))
    ELSE /\ LinesOf(t) # <<>>
         /\ LineAnchor(f, LinesOf(t)) = Len(LinesOf(t))
         /\ Last(t) = "sp"

\* The prolog of a text speaks of markers.
PrologIsMarked(f, t) ==
    \E i \in DOMAIN LinesOf(t) :
       i <= Anchor(f, t) /\ {"start", "end"} \cap ToSet(LinesOf(t)[i]) # {}

\* Every word the user wrote stays, in its order, through any sequence of checks, strips
\* and changed configurations (planner.py, strip_header_block: spans are those of markers,
\* and headers with lines that are no fields are not touched); and a shebang or an XML
\* declaration at the top stays at the top (get_header_insertion_index,
\* get_header_insertion_char_offset).
UserTextStays ==
    /\ UserWords(text) = UserWords(first)
    /\ HasProlog(format, first) => HasProlog(format, text)

\* A second check finds the header the first one wrote, where it wrote it, and has nothing
\* to change (get_header_bounds against what the planner composed).  It does not when the
\* first one wrote the header behind blanks, which the second takes for its indentation.
SecondCheckChangesNothing ==
    [][last = "check" /\ last' = "check"
         => text' = text \/ StartsBehindBlanks(format, before)]_textVars

\* A strip right after a check that inserted a header leaves the lines there were, but for
\* blank ones: nothing of the header stays and nothing of the user goes with it.  Where the
\* policy lets an XML declaration be parted from what follows on its line, it stays parted;
\* and a marker in the prolog may leave the markers of the new text without their partners.
InsertIsUndone ==
    last = "check" /\ last' = "strip" /\ HeaderBounds(format, before).kind = "none"
      => \/ SolidLines(text') = SolidLines(before)
         \/ InsertCapability(format, before) = "reflow"
         \/ PrologIsMarked(format, before)

\* However often a file is checked, reconfigured and stripped, what a strip leaves has at
\* most one blank line more than the file began with: the one between prolog and header
\* (FileTypeHeaderPolicy: "keeping round-trips stable").  A strip that may not touch the
\* header leaves it where it is.
BlankLinesDoNotPileUp ==
    last' = "strip" /\ HeaderBounds(format, text').kind = "none"
      => Cardinality(BlankLines(text')) <= Cardinality(BlankLines(first)) + 1

\* Stripping undoes checking: the lines that are not blank are those there were, and blank
\* ones do not pile up (strip_header_block and the stripper against
\* prepare_header_for_insertion).
StripUndoesInsert == [][InsertIsUndone /\ BlankLinesDoNotPileUp]_textVars

\* The diff that announces or shows a change, taken at its word, makes the new text out of
\* the old one (infer_single_planned_edit, render_structured_unified_diff).
\* It does not where lines are added behind a last line without a line end: nothing
\* in the diff separates the two.
DiffMakesText ==
    LET old == LinesOf(before)
        new == LinesOf(text)
        edit == InferSingleEdit(old, new)
        diff == UnifiedDiff(old, edit, 3)
        body == LinesOf(FlattenSeq(diff.body))
    IN  last # "none" /\ text # before =>
          \/ ~EndsWithNewline(before) /\ before # <<>> /\ edit.end = Len(old) /\ edit.lines # <<>>
          \/ /\ DiffFits(old, diff, body)
             /\ Patched(old, diff, body) = new
====
