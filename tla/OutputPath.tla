------------------------------ MODULE OutputPath ------------------------------
(***************************************************************************)
(* What a terminal's output goes through: the reader thread of             *)
(* crates/server/pty/src/terminal.rs reads it in chunks of any size,       *)
(* ServerOutputProcessor takes out the sequences the server handles        *)
(* itself, AnchorTracker (parser.rs) parses what is left, and              *)
(* ScrollbackRing keeps it.  The ring is the module of that name, driven   *)
(* by the safe splits the tracker reports.                                 *)
(*                                                                         *)
(* Bytes are strings: those the processor and the parser tell apart.  The  *)
(* number of a parameter, with the separator before it, is one byte.  A    *)
(* program prints whole words: characters and complete control sequences.  *)
(***************************************************************************)
EXTENDS ScrollbackRing, AnchorPrefix

CONSTANT MaxWords   \* bound: words a program prints

VARIABLES
  words,     \* what the program prints, word by word (fixed at the start)
  position,  \* how many of its bytes the reader has read
  pending,   \* ServerOutputProcessor: bytes held back
  windows,   \* cfg!(windows): skip_initial_cursor_response (fixed at the start)
  skip,      \* skip_next_cursor_position_response
  chunk,     \* filtered bytes the reader has not pushed to the ring yet
  output,    \* history: all filtered bytes
  reports,   \* history: the columns reported to the program
  title,     \* the terminal's title; <<>> is None
  tracker    \* AnchorTracker: the parser's state, at_safe_split, the anchor state

pathVars ==
  <<vars, words, position, pending, windows, skip, chunk, output, reports, title, tracker>>

-----------------------------------------------------------------------------
(* Words *)

CursorPositionQuery  == <<"esc", "[", "6", "n">>
Win32InputModePrefix == <<"esc", "[", "?", "9001">>
FocusEventModePrefix == <<"esc", "[", "?", "1004">>
OscPrefix            == <<"esc", "]">>

KeptWords ==
  {<<"a">>, <<"cr">>, <<"u1", "u2">>,                  \* text, a control, UTF-8
   <<"esc", "[", "0", "m">>,                           \* SGR
   <<"esc", "[", "?", "1", "h">>,                      \* another private mode
   <<"esc", "]", "8", "semi", "esc", "\\">>,              \* an OSC that is no title
   <<"esc", "P", "a", "esc", "\\">>}                   \* a DCS string

StrippedWords ==
  {CursorPositionQuery,
   Win32InputModePrefix \o <<"h">>,
   FocusEventModePrefix \o <<"l">>,
   <<"esc", "]", "0", "semi", "a", "bel">>,
   <<"esc", "]", "2", "semi", "u1", "u2", "esc", "\\">>}

\* Words that change the state an anchor keeps.
StateWords ==
  {<<"a">>, <<"nl">>, <<"tab">>,
   <<"esc", "[", "1", "semi95", "m">>, <<"esc", "[", "22", "m">>,
   <<"esc", "[", "38", "semi5", "semi200", "m">>, <<"esc", "[", "38", "semi5", "semi300", "m">>,
   <<"esc", "[", "48", ":2", ":1", ":2", ":3", "m">>,
   <<"esc", "[", "?", "7", "l">>, <<"esc", "[", "?", "1049", "semi2004", "h">>,
   <<"esc", "[", "?", "1002", "h">>,
   <<"esc", "(", "0">>,
   <<"esc", "[", "65535", "B">>, <<"esc", "[", "6", "semi7", "H">>}

Scripts ==
  UNION {[1..n -> S] : n \in 1..MaxWords, S \in {KeptWords \cup StrippedWords, StateWords}}

Script == FlattenSeq(words)

-----------------------------------------------------------------------------
(* ServerOutputProcessor *)

Keep == [kind |-> "keep", len |-> 1, title |-> <<>>]
Hold == [kind |-> "hold", len |-> 0, title |-> <<>>]
Drop(n) == [kind |-> "drop", len |-> n, title |-> <<>>]

\* split_prefixed_control_sequence: the prefix and then h or l.
split_prefixed_control_sequence(rest, prefix) ==
  IF IsPrefix(rest, prefix) THEN Hold
  ELSE IF IsPrefix(prefix, rest) /\ rest[Len(prefix) + 1] \in {"h", "l"}
       THEN Drop(Len(prefix) + 1)
       ELSE Keep

\* find_osc_terminator: where BEL or ESC \ stands.
find_osc_terminator(text) ==
  {k \in DOMAIN text :
     \/ text[k] = "bel"
     \/ text[k] = "esc" /\ k < Len(text) /\ text[k + 1] = "\\"}

\* Mutant of split_osc_title_sequence: any OSC is taken for a title.
MutAnyOscIsTitle(rest) ==
  LET text == SubSeq(rest, 5, Len(rest))
      ends == find_osc_terminator(text)
      at   == CHOOSE k \in ends : \A j \in ends : k <= j
  IN  IF IsPrefix(rest, OscPrefix) THEN Hold
      ELSE IF ~IsPrefix(OscPrefix, rest) THEN Keep
      ELSE IF Len(rest) = 3 \/ ends = {} THEN Hold
      ELSE [kind  |-> "title",
            len   |-> 4 + at + (IF text[at] = "bel" THEN 0 ELSE 1),
            title |-> SubSeq(text, 1, at - 1)]

split_osc_title_sequence(rest) ==
  LET start == Len(OscPrefix) + 2
      text  == SubSeq(rest, start + 1, Len(rest))
      ends  == find_osc_terminator(text)
      at    == CHOOSE k \in ends : \A j \in ends : k <= j
  IN  IF IsPrefix(rest, OscPrefix) THEN Hold
      ELSE IF ~IsPrefix(OscPrefix, rest) \/ rest[3] \notin {"0", "2"} THEN Keep
      ELSE IF Len(rest) = 3 THEN Hold
      ELSE IF rest[4] # "semi" THEN Keep
      ELSE IF ends = {} THEN Hold
      ELSE [kind  |-> "title",
            len   |-> start + at + (IF text[at] = "bel" THEN 0 ELSE 1),
            title |-> SubSeq(text, 1, at - 1)]

\* What process does with the bytes from one index on: the tests in their
\* order.  A rest that is the whole query is still held back, because the
\* first test accepts it.
Matches(rest) ==
  LET win32 == split_prefixed_control_sequence(rest, Win32InputModePrefix)
      focus == split_prefixed_control_sequence(rest, FocusEventModePrefix)
  IN  IF IsPrefix(rest, CursorPositionQuery) THEN Hold
      ELSE IF IsPrefix(CursorPositionQuery, rest)
      THEN [kind |-> "query", len |-> Len(CursorPositionQuery), title |-> <<>>]
      ELSE IF win32.kind # "keep" THEN win32
      ELSE IF focus.kind # "keep" THEN focus
      ELSE split_osc_title_sequence(rest)

\* One turn of the loop of process, at index i; run is what the turns from the
\* later indices on give.
ProcessFrom(input, run, i) ==
  LET rest == SubSeq(input, i, Len(input))
      m    == Matches(rest)
  IN  IF i > Len(input) \/ m.kind = "hold"
      THEN [out |-> <<>>, queries |-> 0, titles |-> <<>>, pending |-> rest]
      ELSE CASE m.kind = "keep"  -> [run[i + m.len] EXCEPT !.out = <<input[i]>> \o @]
             [] m.kind = "query" -> [run[i + m.len] EXCEPT !.queries = @ + 1]
             [] m.kind = "title" -> [run[i + m.len] EXCEPT !.titles = <<m.title>> \o @]
             [] OTHER            -> run[i + m.len]

\* The loop of process over one input: what it passes on, how many queries it
\* met, the titles, and what it keeps pending.
process(input) ==
  LET run[i \in 1..(Len(input) + 1)] == ProcessFrom(input, run, i)
  IN  run[1]

-----------------------------------------------------------------------------
(* AnchorTracker over the vte parser (external): states and callbacks *)

Controls == {"cr", "nl", "tab", "bel"}

\* The parameters in a CSI sequence: the first, one after ; and one after :.
FirstParam ==
  [b \in {"0", "1", "6", "7", "22", "38", "48", "1002", "1004", "1049", "9001", "65535"} |->
     CASE b = "0" -> 0 [] b = "1" -> 1 [] b = "6" -> 6 [] b = "7" -> 7 [] b = "22" -> 22
       [] b = "38" -> 38 [] b = "48" -> 48 [] b = "1002" -> 1002 [] b = "1004" -> 1004
       [] b = "1049" -> 1049 [] b = "9001" -> 9001 [] b = "65535" -> 65535]
NextParam ==
  [b \in {"semi5", "semi7", "semi95", "semi200", "semi300", "semi2004"} |->
     CASE b = "semi5" -> 5 [] b = "semi7" -> 7 [] b = "semi95" -> 95
       [] b = "semi200" -> 200 [] b = "semi300" -> 300 [] b = "semi2004" -> 2004]
SubParam ==
  [b \in {":1", ":2", ":3"} |->
     CASE b = ":1" -> 1 [] b = ":2" -> 2 [] b = ":3" -> 3]
CsiBytes   == {"?"} \cup DOMAIN FirstParam \cup DOMAIN NextParam \cup DOMAIN SubParam

\* The state after a byte, and the callbacks the parser makes for it.
Vte(state, b) ==
  CASE b = "esc" ->
         [next  |-> "escape",
          calls |-> CASE state = "osc" -> {"osc_dispatch"} [] state = "dcs" -> {"unhook"}
                      [] OTHER -> {}]
    [] state = "osc" /\ b # "esc" ->
         IF b = "bel" THEN [next |-> "ground", calls |-> {"osc_dispatch"}]
                      ELSE [next |-> "osc", calls |-> {}]
    [] state = "dcs" /\ b # "esc" -> [next |-> "dcs", calls |-> {"put"}]
    [] state \in {"ground", "escape", "csi"} /\ b \in Controls ->
         [next |-> state, calls |-> {"execute"}]
    [] state = "ground" /\ b = "u1" -> [next |-> "utf8", calls |-> {}]
    [] state = "ground" /\ b \notin Controls \cup {"u1", "esc"} ->
         [next |-> "ground", calls |-> {"print"}]
    [] state = "utf8" /\ b # "esc" -> [next |-> "ground", calls |-> {"print"}]
    [] state = "escape" /\ b = "[" -> [next |-> "csi", calls |-> {}]
    [] state = "escape" /\ b = "]" -> [next |-> "osc", calls |-> {}]
    [] state = "escape" /\ b = "P" -> [next |-> "dcs", calls |-> {"hook"}]
    [] state = "escape" /\ b \in Range(Markers) -> [next |-> "escape", calls |-> {}]
    [] state = "escape" /\ b \notin Controls \cup {"[", "]", "P", "esc"} \cup Range(Markers) ->
         [next |-> "ground", calls |-> {"esc_dispatch"}]
    [] state = "csi" /\ b \in CsiBytes -> [next |-> "csi", calls |-> {}]
    [] OTHER -> [next |-> "ground", calls |-> {"csi_dispatch"}]

\* Mutant of SafeAfter: hook and put leave the flag set.
MutSafeInStrings(calls) == calls # {}

\* The callbacks that set at_safe_split; the others clear it, as advance does
\* before every byte.
SafeAfter(calls) ==
  calls \cap {"print", "execute", "unhook", "osc_dispatch", "csi_dispatch", "esc_dispatch"} # {}

\* The parameters and the marker the parser has collected, with a byte.
Collected(b) ==
  LET params == tracker.params
      last   == Len(params)
  IN  CASE b = "esc" -> [marker |-> "", params |-> <<>>]
        [] tracker.state = "csi" /\ b \in DOMAIN FirstParam ->
             [marker |-> tracker.marker, params |-> Append(params, <<FirstParam[b]>>)]
        [] tracker.state = "csi" /\ b \in DOMAIN NextParam ->
             [marker |-> tracker.marker, params |-> Append(params, <<NextParam[b]>>)]
        [] tracker.state = "csi" /\ b \in DOMAIN SubParam /\ last > 0 ->
             [marker |-> tracker.marker, params |-> [params EXCEPT ![last] = Append(@, SubParam[b])]]
        [] b = "?" \/ (tracker.state = "escape" /\ b \in Range(Markers)) ->
             [marker |-> b, params |-> params]
        [] OTHER -> [marker |-> tracker.marker, params |-> params]

\* advance: one byte.
advance(b) ==
  LET v == Vte(tracker.state, b)
      c == Collected(b)
  IN  [state  |-> v.next,
       safe   |-> SafeAfter(v.calls),
       marker |-> c.marker,
       params |-> c.params,
       anchor |-> CASE "print" \in v.calls -> Perform(tracker.anchor, Char)
                    [] "execute" \in v.calls -> Perform(tracker.anchor, Execute(b))
                    [] "csi_dispatch" \in v.calls ->
                         Perform(tracker.anchor, Csi(c.marker, c.params, b))
                    [] "esc_dispatch" \in v.calls -> Perform(tracker.anchor, Esc(c.marker, b))
                    [] OTHER -> tracker.anchor]

-----------------------------------------------------------------------------
(* The reader thread *)

PathInit ==
  /\ Init
  /\ words \in Scripts
  /\ position = 0
  /\ pending = <<>>
  /\ windows \in BOOLEAN
  /\ skip = windows
  /\ chunk = <<>>
  /\ output = <<>>
  /\ reports = <<>>
  /\ title = <<>>
  /\ tracker = [state |-> "ground", safe |-> TRUE, marker |-> "", params |-> <<>>,
                anchor |-> DefaultState]

\* Mutant of Answered: the query to be skipped is answered as well.
MutAnswersAll(queries) == queries

\* How many of the queries met in one call of process get a report: all, but for
\* the first one ever when it is to be skipped.
Answered(queries) == IF skip /\ queries > 0 THEN queries - 1 ELSE queries

\* One read of n bytes.  The cursor is the ring's before the chunk is pushed;
\* it is what every query of the chunk is answered with.
Read(n) ==
  LET r == process(pending \o SubSeq(Script, position + 1, position + n))
  IN  /\ chunk = <<>>
      /\ position + n <= Len(Script)
      /\ position' = position + n
      /\ pending' = r.pending
      /\ skip' = (skip /\ r.queries = 0)
      /\ reports' = reports \o [k \in 1..Answered(r.queries) |-> tracker.anchor.col]
      /\ title' = IF r.titles = <<>> THEN title ELSE Last(r.titles)
      /\ chunk' = r.out
      /\ output' = output \o r.out
      /\ UNCHANGED <<vars, words, windows, tracker>>

\* ring.push, byte by byte.
Push ==
  /\ chunk # <<>>
  /\ tracker' = advance(Head(chunk))
  /\ PushByte(tracker'.safe)
  /\ chunk' = Tail(chunk)
  /\ UNCHANGED <<words, position, pending, windows, skip, output, reports, title>>

PathNext ==
  \/ \E n \in 1..Len(Script) : Read(n)
  \/ Push

\* The reader thread runs while there is output to read.
PathSpec == PathInit /\ [][PathNext]_pathVars /\ WF_pathVars(PathNext)

-----------------------------------------------------------------------------
(* Properties *)

\* However the output is cut into reads, what is filtered, held back and taken
\* for the title is what one read of it all would have given, and as many
\* queries are answered: each that one read would have met, once, but for the
\* first of a program on Windows, which is skipped in whichever read it ends.
ChunkIndependent ==
  LET all     == process(SubSeq(Script, 1, position))
      skipped == windows /\ all.queries > 0
  IN  /\ output = all.out
      /\ pending = all.pending
      /\ title = IF all.titles = <<>> THEN <<>> ELSE Last(all.titles)
      /\ Len(reports) = IF skipped THEN all.queries - 1 ELSE all.queries
      /\ skip <=> windows /\ ~ skipped

\* The clients get every word a program prints except exactly those the server
\* handles itself: nothing else is swallowed and none of those leaks, also
\* where they begin alike.
FiltersWholeWords ==
  (position = Len(Script) /\ chunk = <<>>) =>
     /\ output = FlattenSeq([k \in DOMAIN words |->
                              IF words[k] \in StrippedWords THEN <<>> ELSE words[k]])
     /\ pending \in {<<>>, CursorPositionQuery}

\* A position is called a safe split in the middle of a sequence or a character
\* only directly after an ESC or a control.
SplitsOutsideSequences ==
  (tracker.safe /\ tracker.state # "ground") =>
     output[head_seq] \in Controls \cup {"esc"}

\* The prefix of a snapshot (render_prefix_from_anchor) gives any terminal the
\* state the anchor was taken in: whatever the terminal showed before, it then
\* has the attributes, colours, modes, charsets and cursor the program set.  The
\* mouse comes back or stays off (a mode that apply_modes switches off after the
\* one that is on takes it along), and so does all but the last cell of a u16.
PrefixRestores ==
  LET a     == tracker.anchor
      dirty == [row |-> 3, col |-> 4, sgr |-> [on |-> {"faint", "blink"}, fg |-> <<"palette", 2>>,
                                               bg |-> <<"indexed", 17>>],
                modes |-> Modes, mouse |-> "x10", g |-> [i \in 1..4 |-> "A"]]
      back  == Replay(dirty, render_prefix_from_anchor(a))
  IN  tracker.safe =>
        /\ <<back.sgr, back.modes, back.g>> = <<a.sgr, a.modes, a.g>>
        /\ back.mouse \in {a.mouse, "off"}
        /\ \A f \in {"row", "col"} :
             back[f] = IF a[f] = MaxU16 THEN MaxU16 - 1 ELSE a[f]

\* server_output_processor_replies_to_cursor_position_query (terminal.rs:767):
\* a program that asks for the cursor position is told it, as often as it asks
\* (where the first query was not answered in advance).
QueryAnswered ==
  ~skip => <>(Len(reports) = Len(SelectSeq(words, LAMBDA w : w = CursorPositionQuery)))

\* A safe split is a place where a parser can start afresh: not so behind the
\* ESC of a string terminator and behind a control inside a CSI sequence.
SafeSplitIsGround == tracker.safe => tracker.state = "ground"
=============================================================================
