---------------------------- MODULE HeaderFields ----------------------------
(***************************************************************************)
(* The lines between the markers of a header: how field names and values   *)
(* become lines, which of them are refused beforehand, and how the lines   *)
(* of an existing header are read back, one after the other, whatever a    *)
(* user has done to them in between.                                       *)
(*                                                                         *)
(* Names, values and lines are sequences of characters.  Characters that   *)
(* matter have a name: sp and tab; nbsp for the white space that strip()   *)
(* takes off and strip(" \t") does not; lf, cr and nul; ls for the Unicode *)
(* line separators; quote and escape; START and END for a whole marker.    *)
(* Others stand for themselves.  What diagnostics say is left out.         *)
(***************************************************************************)
EXTENDS Integers, FiniteSetsExt, SequencesExt

CONSTANTS
    Orders,    \* what headers are made of: records [layout, fields, max, align,
               \* touched], the last for those whose header the user edits.  A layout is
               \* a record [prefix, suffix, indent, before, forbidden]: line_prefix, line_suffix,
               \* line_indent, header_indent and what validate_processor_field refuses; fields
               \* are records [name, value]; max is max_header_line_length, 0 for none
    Missing    \* stands for "no field is pending"

VARIABLES
    order,     \* the header asked for
    encoded,   \* what each field was encoded to, before it was put in a comment
    payload,   \* the lines between the markers
    edited,    \* whether the user has changed them
    at,        \* the line parse_fields reads next; 0 before it is called
    pending,   \* the field whose continuation lines are being read
    parsed     \* HeaderParseResult

fieldVars == <<order, encoded, payload, edited, at, pending, parsed>>

Blanks == {"sp", "tab"}                           \* what strip(" \t") takes off
White == Blanks \cup {"nbsp", "lf", "cr", "ls"}   \* what strip() takes off

-----------------------------------------------------------------------------
(* Characters *)

TrimLeft(s, set) == SubSeq(s, Min({i \in DOMAIN s : s[i] \notin set} \cup {Len(s) + 1}), Len(s))
TrimRight(s, set) == SubSeq(s, 1, Max({i \in DOMAIN s : s[i] \notin set} \cup {0}))
Trim(s, set) == TrimLeft(TrimRight(s, set), set)

Behind(prefix, s) == SubSeq(s, Len(prefix) + 1, Len(s))
Occurs(part, s) == \E i \in DOMAIN s : IsPrefix(part, SubSeq(s, i, Len(s)))
Spaces(n) == [i \in 1 .. Max({0, n}) |-> "sp"]
Sorted(S) == SelectSeq([i \in 1 .. Max(S \cup {0}) |-> i], LAMBDA i : i \in S)

\* normalize_semantic_newlines
Normalized(value) ==
    FlattenSeq([i \in DOMAIN value |->
        CASE value[i] # "cr" -> <<value[i]>>
          [] value[i] = "cr" /\ i < Len(value) /\ value[i + 1] = "lf" -> <<>>
          [] OTHER -> <<"lf">>])

LogicalLines(value) ==
    LET cuts == Sorted({i \in DOMAIN value : value[i] = "lf"})
        from == <<1>> \o [k \in DOMAIN cuts |-> cuts[k] + 1]
        to == [k \in DOMAIN cuts |-> cuts[k] - 1] \o <<Len(value)>>
    IN  [k \in DOMAIN from |-> SubSeq(value, from[k], to[k])]

-----------------------------------------------------------------------------
(* Rendering *)

Escaped(value) ==
    FlattenSeq([i \in DOMAIN value |->
        IF value[i] \in {"escape", "quote"} THEN <<"escape", value[i]>> ELSE <<value[i]>>])
ExactRecord(token, value) == <<token, "=", "sp", "quote">> \o Escaped(value) \o <<"quote">>

\* Mutant: white space at the end of a record is not protected.
Bare_AtTheStartOnly(value) == value # <<>> /\ TrimLeft(value, Blanks) = value

Bare(value) == value # <<>> /\ Trim(value, Blanks) = value
FoldedRecord(value) == IF Bare(value) THEN <<">", "sp">> \o value ELSE ExactRecord(">", value)
LiteralRecord(line) ==
    IF line = <<>> THEN <<"|">> ELSE IF Bare(line) THEN <<"|", "sp">> \o line ELSE ExactRecord("|", line)

\* _wrap_line: the end of the content is stripped of all white space.
PhysicalLine(layout, content, continued) ==
    LET indent == layout.indent \o (IF continued THEN Spaces(2) ELSE <<>>)
        inner == IF content = <<>> THEN <<>> ELSE indent \o TrimRight(content, White)
        parts == SelectSeq(<<layout.prefix, inner, layout.suffix>>, LAMBDA part : part # <<>>)
    IN  layout.before \o FlattenSeq([k \in DOMAIN parts |->
            IF k = 1 THEN parts[k] ELSE <<"sp">> \o parts[k]])

Fits(o, content, continued) == Len(PhysicalLine(o.layout, content, continued)) <= o.max

\* Runs of spaces strictly inside the value behind the first c characters: from, to.
Runs(value, c) ==
    {<<i, j>> \in ((c + 2) .. Len(value)) \X ((c + 2) .. (Len(value) - 1)) :
        /\ i <= j /\ \A k \in i .. j : value[k] = "sp"
        /\ value[i - 1] # "sp" /\ value[j + 1] # "sp"}

\* _wrap_folded_records: cut at the last run of spaces that fits, or else at the first.
\* One space is what the reader puts back; a longer run goes to the next record.
Wrapped(o, value) ==
    LET Piece(c, run) == SubSeq(value, c + 1, run[1] - 1)
        Fitting(c) == {run \in Runs(value, c) :
            \A earlier \in Runs(value, c) :
                earlier[1] <= run[1] => Fits(o, FoldedRecord(Piece(c, earlier)), TRUE)}
        Chosen(c) == LET runs == IF Fitting(c) = {} THEN Runs(value, c) ELSE Fitting(c)
                     IN  CHOOSE run \in runs : \A other \in runs :
                            IF Fitting(c) = {} THEN run[1] <= other[1] ELSE other[1] <= run[1]
        Next(c) == LET run == Chosen(c) IN IF run[1] = run[2] THEN run[2] ELSE run[1] - 1
        Rest(c) == FoldedRecord(SubSeq(value, c + 1, Len(value)))
        Records[c \in 0 .. Len(value)] ==
            IF Runs(value, c) = {} \/ (Fits(o, Rest(c), TRUE) /\ c > 0) THEN <<Rest(c)>>
            ELSE <<FoldedRecord(Piece(c, Chosen(c)))>> \o Records[Next(c)]
    IN  Records[0]

Width(o) ==
    IF o.align THEN Max({Len(o.fields[i].name) : i \in DOMAIN o.fields}) + 1 ELSE 0

\* _encode_field_lines: one ordinary line if that will do.
Encoded(o, field) ==
    LET value == Normalized(field.value)
        opener == field.name \o Spaces(Width(o) - Len(field.name)) \o <<":">>
        ordinary == opener \o <<"sp">> \o value
        records == Wrapped(o, value)
    IN  CASE "lf" \in ToSet(value) ->
               <<opener>> \o [k \in DOMAIN LogicalLines(value) |-> LiteralRecord(LogicalLines(value)[k])]
          [] value # Trim(value, White) -> <<opener, ExactRecord(">", value)>>
          [] o.max # 0 /\ ~Fits(o, ordinary, FALSE) /\ Len(records) >= 2 -> <<opener>> \o records
          [] OTHER -> <<ordinary>>

FieldLines(layout, contents) ==
    [k \in DOMAIN contents |-> PhysicalLine(layout, contents[k], k > 1)]

\* The blank line under the start marker and that over the end marker belong to the payload.
BlankLine(layout) == PhysicalLine(layout, <<>>, FALSE)
RenderedPayload(layout, contents) ==
    <<BlankLine(layout)>> \o FlattenSeq([i \in DOMAIN contents |-> FieldLines(layout, contents[i])])
        \o <<BlankLine(layout)>>

-----------------------------------------------------------------------------
(* Validation *)

Generic(content) == ToSet(content) \cap {"nul", "tab", "START", "END", "ls"} = {}

NameIsValid(name) ==
    /\ name # <<>> /\ name = Trim(name, White)
    /\ ToSet(name) \cap {":", "lf", "cr"} = {}
    /\ Generic(name)

FieldIsValid(layout, name, value) ==
    /\ NameIsValid(name)
    /\ Generic(value)
    /\ \A part \in layout.forbidden : ~Occurs(part, name) /\ ~Occurs(part, value)

-----------------------------------------------------------------------------
(* Reading a line *)

\* _remove_line_affixes
WithoutAffixes(layout, line) ==
    LET head == TrimLeft(line, Blanks)
        prefixed == IsPrefix(layout.prefix, head)
        inner == IF layout.prefix # <<>> /\ prefixed THEN Behind(layout.prefix, head) ELSE line
        bare == TrimRight(inner, Blanks)
        suffixed == IsSuffix(layout.suffix, bare)
        cut == SubSeq(bare, 1, Len(bare) - Len(layout.suffix))
    IN  [text |-> IF layout.suffix = <<>> \/ ~suffixed THEN inner
                  ELSE IF cut # <<>> /\ Last(cut) = "sp" THEN Front(cut) ELSE cut,
         valid |-> (layout.prefix # <<>> => prefixed) /\ (layout.suffix # <<>> => suffixed)]

Cleaned(layout, line) == TrimLeft(WithoutAffixes(layout, line).text, Blanks)
IsContinuation(text) == text # <<>> /\ text[1] \in {"|", ">"}

\* The escapes of a quoted body: each stands before what it protects, and nothing that
\* needs one goes without.
Unescaped(body) ==
    LET Protects[i \in 0 .. Len(body)] == i > 0 /\ body[i] = "escape" /\ ~Protects[i - 1]
        escapes == {i \in DOMAIN body : Protects[i]}
        others == Sorted(DOMAIN body \ escapes)
    IN  [ok |-> \A i \in DOMAIN body :
                  /\ i \in escapes => i < Len(body) /\ body[i + 1] \in {"quote", "escape"}
                  /\ body[i] = "quote" => i - 1 \in escapes,
         value |-> [k \in DOMAIN others |-> body[others[k]]]]

Refused == [mode |-> "none", value |-> <<>>, exact |-> FALSE, ok |-> FALSE]

\* _parse_continuation_record
Record(text) ==
    LET mode == IF text[1] = "|" THEN "literal" ELSE "folded"
        rest == Tail(text)
        quoted == SubSeq(rest, 3, Len(rest))
        body == SubSeq(quoted, 2, Len(quoted) - 1)
        Of(value, exact) ==
            IF ToSet(value) \cap {"nul", "tab", "cr", "lf", "ls"} # {} THEN Refused
            ELSE [mode |-> mode, value |-> value, exact |-> exact, ok |-> TRUE]
    IN  CASE rest = <<>> -> IF mode = "folded" THEN Refused ELSE Of(<<>>, FALSE)
          [] IsPrefix(<<"=">>, rest) ->
               IF /\ IsPrefix(<<"=", "sp", "quote">>, rest)
                  /\ Len(quoted) >= 2 /\ Last(quoted) = "quote" /\ Unescaped(body).ok
               THEN Of(Unescaped(body).value, TRUE) ELSE Refused
          [] IsPrefix(<<"sp">>, rest) /\ Bare(Tail(rest)) -> Of(Tail(rest), FALSE)
          [] OTHER -> Refused

\* _FIELD_RE: something in front of the first colon.
IsField(text) == \E i \in DOMAIN text : i > 1 /\ text[i] = ":" /\ text[1] # ":"
NameOf(text) == Trim(SubSeq(text, 1, Min({i \in DOMAIN text : text[i] = ":"}) - 1), White)
ValueOf(text) == Trim(SubSeq(text, Min({i \in DOMAIN text : text[i] = ":"}) + 1, Len(text)), White)

-----------------------------------------------------------------------------
(* The parser: parse_fields *)

NoField == [name |-> Missing, records |-> <<>>, malformed |-> FALSE]
NothingParsed == [fields |-> [n \in {} |-> <<>>], ok |-> 0, errors |-> 0]

Mode == IF pending.records = <<>> THEN "none" ELSE pending.records[1].mode
Failed(result) == [result EXCEPT !.errors = @ + 1]

\* commit_field and the count that goes with it.
Committed(result, name, value) ==
    IF FieldIsValid(order.layout, name, value)
    THEN [fields |-> [n \in DOMAIN result.fields \cup {name} |->
                         IF n = name THEN value ELSE result.fields[n]],
          ok |-> result.ok + 1, errors |-> result.errors]
    ELSE Failed(result)

PendingValue ==
    LET records == pending.records
    IN  FlattenSeq([k \in DOMAIN records |->
            (CASE k = 1 -> <<>> [] Mode = "literal" -> <<"lf">>
               [] OTHER -> IF records[k].exact THEN <<>> ELSE <<"sp">>) \o records[k].value])

ScalarIsWhole == Mode = "literal" => Len(pending.records) >= 2

\* close_pending
Closed ==
    CASE pending.name = Missing -> parsed
      [] pending.name # Missing /\ (pending.malformed \/ ~ScalarIsWhole) -> Failed(parsed)
      [] OTHER -> Committed(parsed, pending.name, PendingValue)

Line == Cleaned(order.layout, payload[at])
Reading == at \in DOMAIN payload

\* Mutant: the lines beneath a field stay for the next.
Settled_KeepsRecords == [pending EXCEPT !.name = Missing, !.malformed = FALSE]

Settled == NoField

ReadBlank ==
    /\ Reading /\ Trim(Line, Blanks) = <<>>
    /\ parsed' = Closed /\ pending' = Settled

\* A continuation line where no field is pending, or the field is malformed already.
ReadOrphan ==
    /\ Reading /\ IsContinuation(Line) /\ (pending.name = Missing \/ pending.malformed)
    /\ parsed' = IF pending.name = Missing THEN Failed(parsed) ELSE parsed
    /\ UNCHANGED pending

\* The first record sets the mode of its field; one of the other mode spoils it.
ReadRecord ==
    /\ Reading /\ IsContinuation(Line) /\ pending.name # Missing /\ ~pending.malformed
    /\ LET record == IF WithoutAffixes(order.layout, payload[at]).valid THEN Record(Line) ELSE Refused
       IN  pending' = IF record.ok /\ Mode \in {"none", record.mode}
                      THEN [pending EXCEPT !.records = Append(@, record)]
                      ELSE [pending EXCEPT !.malformed = TRUE]
    /\ UNCHANGED parsed

ReadField ==
    /\ Reading /\ IsField(Line) /\ ~IsContinuation(Line)
    /\ IF ValueOf(Line) = <<>>
       THEN parsed' = Closed /\ pending' = [Settled EXCEPT !.name = NameOf(Line)]
       ELSE /\ parsed' = Committed(Closed, NameOf(Line), ValueOf(Line))
            /\ pending' = Settled

\* Any other line spoils a field that has records, and is an error of its own elsewhere.
ReadOther ==
    /\ Reading /\ Trim(Line, Blanks) # <<>> /\ ~IsContinuation(Line) /\ ~IsField(Line)
    /\ IF pending.name # Missing /\ Mode # "none"
       THEN pending' = [pending EXCEPT !.malformed = TRUE] /\ UNCHANGED parsed
       ELSE parsed' = Failed(Closed) /\ pending' = Settled

ReadLine ==
    /\ ReadBlank \/ ReadOrphan \/ ReadRecord \/ ReadField \/ ReadOther
    /\ at' = at + 1
    /\ UNCHANGED <<order, encoded, payload, edited>>

ReadEnd ==
    /\ at = Len(payload) + 1 /\ payload # <<>>
    /\ parsed' = Closed /\ pending' = NoField /\ at' = at + 1
    /\ UNCHANGED <<order, encoded, payload, edited>>

\* The renderer refuses a header with a field that could not be read back.
Render ==
    /\ at = 0 /\ payload = <<>>
    /\ \A i \in DOMAIN order.fields :
          FieldIsValid(order.layout, order.fields[i].name, Normalized(order.fields[i].value))
    /\ encoded' = [i \in DOMAIN order.fields |-> Encoded(order, order.fields[i])]
    /\ payload' = RenderedPayload(order.layout, encoded')
    /\ UNCHANGED <<order, edited, at, pending, parsed>>

\* A line is lost, doubled, exchanged with the next or cut off at its end.
EditHeader ==
    /\ at = 0 /\ payload # <<>> /\ ~edited /\ order.touched
    /\ \E i \in DOMAIN payload :
          \/ payload' \in {RemoveAt(payload, i), InsertAt(payload, i, payload[i]),
                           ReplaceAt(payload, i, SubSeq(payload[i], 1, Len(payload[i]) - 1))}
          \/ i < Len(payload) /\ payload' = [payload EXCEPT ![i] = payload[i + 1], ![i + 1] = payload[i]]
    /\ edited' = TRUE
    /\ UNCHANGED <<order, encoded, at, pending, parsed>>

OpenHeader ==
    /\ at = 0 /\ payload # <<>>
    /\ at' = 1
    /\ UNCHANGED <<order, encoded, payload, edited, pending, parsed>>

FieldsInit ==
    /\ order \in Orders
    /\ encoded = <<>> /\ payload = <<>> /\ edited = FALSE /\ at = 0 /\ pending = NoField /\ parsed = NothingParsed

FieldsNext == Render \/ EditHeader \/ OpenHeader \/ ReadLine \/ ReadEnd

-----------------------------------------------------------------------------
(* What must hold. *)

Finished == payload # <<>> /\ at > Len(payload) + 1

(* Two kinds of field are rendered and cannot be read back, although validation lets
   them pass: those whose name begins with the sign of a continuation line, and those
   with a record that ends in white space other than blanks, which _wrap_line takes off. *)
Survives(k) ==
    /\ ~IsContinuation(order.fields[k].name)
    /\ \A i \in DOMAIN encoded[k] : i > 1 => Last(encoded[k][i]) \notin White \ Blanks

\* The lines of field k stand together at i, and nothing that follows is taken for one.
IntactAt(k, i) ==
    LET after == i + Len(encoded[k])
    IN  /\ after <= Len(payload) + 1
        /\ SubSeq(payload, i, after - 1) = FieldLines(order.layout, encoded[k])
        /\ after \in DOMAIN payload =>
             LET next == Cleaned(order.layout, payload[after])
             IN  ~IsContinuation(next) /\ (Trim(next, Blanks) = <<>> \/ IsField(next))

NamedAgain(name, i) ==
    \E j \in DOMAIN payload :
        LET text == Cleaned(order.layout, payload[j]) IN j > i /\ IsField(text) /\ NameOf(text) = name

(* A header that was rendered is read back as what it was made of: without an error, and
   to the last character.  After an edit each field that is still intact is, whatever
   became of its neighbours (render_header_lines, parse_fields). *)
ParseUndoesRender ==
    Finished /\ (\A k \in DOMAIN order.fields : Survives(k)) =>
        /\ ~edited => parsed.errors = 0 /\ parsed.ok = Len(order.fields)
        /\ \A k \in DOMAIN order.fields : \A i \in DOMAIN payload :
              IntactAt(k, i) /\ ~NamedAgain(order.fields[k].name, i) =>
                /\ order.fields[k].name \in DOMAIN parsed.fields
                /\ parsed.fields[order.fields[k].name] = Normalized(order.fields[k].value)
=============================================================================
