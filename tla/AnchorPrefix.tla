----------------------------- MODULE AnchorPrefix -----------------------------
(***************************************************************************)
(* The state of a terminal that AnchorTracker keeps at an anchor           *)
(* (crates/server/pty/src/parser.rs), how control functions change it, and *)
(* the prefix from which a client's terminal gets it back                  *)
(* (render_prefix_from_anchor, crates/shared/proto/src/snapshot.rs).       *)
(*                                                                         *)
(* A control function is what the vte parser hands over: its kind, its     *)
(* marker, its parameters (each a sequence of subparameters) and its final *)
(* byte.  The prefix is a sequence of them instead of the text that        *)
(* spells them.  Titles are filtered before the tracker sees the output,   *)
(* and nothing sets gl and gr, so the three are left out.                  *)
(***************************************************************************)
EXTENDS Integers, Sequences, SequencesExt

Csi(marker, params, final) ==
  [kind |-> "csi", marker |-> marker, params |-> params, final |-> final]
Esc(marker, final) ==
  [kind |-> "esc", marker |-> marker, params |-> <<>>, final |-> final]
Execute(byte) ==
  [kind |-> "execute", marker |-> "", params |-> <<>>, final |-> byte]
Char ==
  [kind |-> "print", marker |-> "", params |-> <<>>, final |-> "a"]

MaxU16 == 65535
saturating_add(a, b) == IF a + b > MaxU16 THEN MaxU16 ELSE a + b
saturating_sub(a, b) == IF a < b THEN 0 ELSE a - b

NoColor == <<"none">>
PlainSgr == [on |-> {}, fg |-> NoColor, bg |-> NoColor]
Modes == {"cursor_keys", "origin", "autowrap", "alt_screen", "bracketed_paste"}
Markers == <<"(", ")", "*", "+">>

\* AnchorStateMut::default.
DefaultState ==
  [row |-> 0, col |-> 0, sgr |-> PlainSgr, modes |-> {"autowrap"}, mouse |-> "off",
   g |-> [i \in 1..4 |-> "B"]]

-----------------------------------------------------------------------------
(* SGR *)

Attr ==
  [code \in {1, 2, 3, 4, 5, 7, 9} |->
     CASE code = 1 -> "bold" [] code = 2 -> "faint" [] code = 3 -> "italic"
       [] code = 4 -> "underline" [] code = 5 -> "blink" [] code = 7 -> "reverse"
       [] code = 9 -> "strikethrough"]
AttrOff ==
  [code \in {21, 22, 23, 24, 25, 27, 29} |->
     CASE code = 21 -> {"bold", "faint"} [] code = 22 -> {"bold", "faint"}
       [] code = 23 -> {"italic"} [] code = 24 -> {"underline"}
       [] code = 25 -> {"blink"} [] code = 27 -> {"reverse"}
       [] code = 29 -> {"strikethrough"}]

\* parse_extended_color: 38 or 48 at an index, with its colour in subparameters
\* or in the parameters that follow; how many parameters it takes.  No colour
\* when a number is missing or is no u8.
parse_extended_color(items, index) ==
  LET inline == Len(items[index]) > 1
      v == IF inline THEN SubSeq(items[index], 2, Len(items[index]))
           ELSE [k \in 1..(Len(items) - index) |-> items[index + k][1]]
      Bytes(n) == Len(v) > n /\ \A k \in 2..(n + 1) : v[k] <= 255
      took(n) == IF inline THEN 1 ELSE n + 2
  IN  IF Len(v) > 0 /\ v[1] = 5 /\ Bytes(1)
      THEN [color |-> <<"indexed", v[2]>>, consumed |-> took(1)]
      ELSE IF Len(v) > 0 /\ v[1] = 2 /\ Bytes(3)
      THEN [color |-> <<"rgb", v[2], v[3], v[4]>>, consumed |-> took(3)]
      ELSE [color |-> NoColor, consumed |-> 1]

\* One code of sgr that stands alone.
SgrCode(s, code) ==
  CASE code = 0               -> PlainSgr
    [] code \in DOMAIN Attr    -> [s EXCEPT !.on = @ \cup {Attr[code]}]
    [] code \in DOMAIN AttrOff -> [s EXCEPT !.on = @ \ AttrOff[code]]
    [] code \in 30..37         -> [s EXCEPT !.fg = <<"palette", code - 30>>]
    [] code = 39               -> [s EXCEPT !.fg = NoColor]
    [] code \in 40..47         -> [s EXCEPT !.bg = <<"palette", code - 40>>]
    [] code = 49               -> [s EXCEPT !.bg = NoColor]
    [] code \in 90..97         -> [s EXCEPT !.fg = <<"palette", code - 82>>]
    [] code \in 100..107       -> [s EXCEPT !.bg = <<"palette", code - 92>>]
    [] OTHER                   -> s

\* One turn of the loop of sgr, at index i; acc.skip counts the parameters a
\* colour has taken.
SgrTurn(items, acc, i) ==
  LET code == items[i][1]
      ext  == parse_extended_color(items, i)
  IN  IF acc.skip > 0 THEN [acc EXCEPT !.skip = @ - 1]
      ELSE IF code \notin {38, 48} THEN [acc EXCEPT !.s = SgrCode(@, code)]
      ELSE IF ext.color = NoColor THEN acc
      ELSE [s    |-> IF code = 38 THEN [acc.s EXCEPT !.fg = ext.color]
                                  ELSE [acc.s EXCEPT !.bg = ext.color],
            skip |-> ext.consumed - 1]

\* sgr: the codes from left to right, past the parameters a colour has taken.
sgr(s, items) ==
  LET run[n \in 0..Len(items)] ==
        IF n = 0 THEN [s |-> s, skip |-> 0] ELSE SgrTurn(items, run[n - 1], n)
  IN  IF items = <<>> THEN PlainSgr ELSE run[Len(items)].s

-----------------------------------------------------------------------------
(* Modes, charsets and the cursor *)

ModeOf ==
  [mode \in {1, 6, 7, 1049, 2004} |->
     CASE mode = 1 -> "cursor_keys" [] mode = 6 -> "origin" [] mode = 7 -> "autowrap"
       [] mode = 1049 -> "alt_screen" [] mode = 2004 -> "bracketed_paste"]
MouseOf ==
  [mode \in {9, 1000, 1002, 1003} |->
     CASE mode = 9 -> "x10" [] mode = 1000 -> "normal" [] mode = 1002 -> "button_event"
       [] mode = 1003 -> "any_event"]

\* One parameter of mode_set: switching any of the mouse modes off switches the
\* mouse off.
SetMode(a, mode, on) ==
  CASE mode \in DOMAIN ModeOf ->
         [a EXCEPT !.modes = IF on THEN @ \cup {ModeOf[mode]} ELSE @ \ {ModeOf[mode]}]
    [] mode \in DOMAIN MouseOf -> [a EXCEPT !.mouse = IF on THEN MouseOf[mode] ELSE "off"]
    [] OTHER -> a

mode_set(a, params, on) ==
  LET run[n \in 0..Len(params)] ==
        IF n = 0 THEN a ELSE SetMode(run[n - 1], params[n][1], on)
  IN  run[Len(params)]

\* first_param and second_param: a parameter that is missing or 0 is 1.
param(params, n) == IF Len(params) >= n /\ params[n][1] # 0 THEN params[n][1] ELSE 1

csi_dispatch(a, c) ==
  LET n == param(c.params, 1)
  IN  CASE c.final = "m" -> [a EXCEPT !.sgr = sgr(@, c.params)]
        [] c.final = "H" ->   \* and f
             [a EXCEPT !.row = saturating_sub(n, 1),
                       !.col = saturating_sub(param(c.params, 2), 1)]
        [] c.final = "A" -> [a EXCEPT !.row = saturating_sub(@, n)]
        [] c.final = "B" -> [a EXCEPT !.row = saturating_add(@, n)]
        [] c.final = "C" -> [a EXCEPT !.col = saturating_add(@, n)]
        [] c.final = "D" -> [a EXCEPT !.col = saturating_sub(@, n)]
        [] c.final = "E" -> [a EXCEPT !.row = saturating_add(@, n), !.col = 0]
        [] c.final = "F" -> [a EXCEPT !.row = saturating_sub(@, n), !.col = 0]
        [] c.final = "G" -> [a EXCEPT !.col = saturating_sub(n, 1)]
        [] c.final = "d" -> [a EXCEPT !.row = saturating_sub(n, 1)]
        [] c.final = "h" -> IF c.marker = "?" THEN mode_set(a, c.params, TRUE) ELSE a
        [] c.final = "l" -> IF c.marker = "?" THEN mode_set(a, c.params, FALSE) ELSE a
        [] OTHER -> a

\* esc_dispatch: a designation of G0 to G3.
esc_dispatch(a, c) ==
  [a EXCEPT !.g = [i \in 1..4 |-> IF Markers[i] = c.marker THEN c.final ELSE a.g[i]]]

execute(a, byte) ==
  CASE byte = "nl"  -> [a EXCEPT !.row = saturating_add(@, 1), !.col = 0]
    [] byte = "cr"  -> [a EXCEPT !.col = 0]
    [] byte = "bs"  -> [a EXCEPT !.col = saturating_sub(@, 1)]
    [] byte = "tab" -> [a EXCEPT !.col = saturating_add((@ \div 8) * 8, 8)]
    [] OTHER -> a

\* TrackerPerform: what one control function does to the state.
Perform(a, c) ==
  CASE c.kind = "csi"     -> csi_dispatch(a, c)
    [] c.kind = "esc"     -> esc_dispatch(a, c)
    [] c.kind = "execute" -> execute(a, c.final)
    [] OTHER              -> [a EXCEPT !.col = saturating_add(@, 1)]

-----------------------------------------------------------------------------
(* The prefix *)

color_params(color, foreground) ==
  CASE color = NoColor -> <<>>
    [] color[1] = "palette" ->
         <<<<(IF color[2] < 8 THEN (IF foreground THEN 30 ELSE 40)
                              ELSE (IF foreground THEN 90 ELSE 100)) + (color[2] % 8)>>>>
    [] color[1] = "indexed" -> <<<<IF foreground THEN 38 ELSE 48>>, <<5>>, <<color[2]>>>>
    [] OTHER -> <<<<IF foreground THEN 38 ELSE 48>>, <<2>>,
                  <<color[2]>>, <<color[3]>>, <<color[4]>>>>

AttrParam(s, code) == IF Attr[code] \in s.on THEN <<<<code>>>> ELSE <<>>

apply_sgr(s) ==
  LET params == AttrParam(s, 1) \o AttrParam(s, 2) \o AttrParam(s, 3) \o AttrParam(s, 4)
                \o AttrParam(s, 5) \o AttrParam(s, 7) \o AttrParam(s, 9)
                \o color_params(s.fg, TRUE) \o color_params(s.bg, FALSE)
  IN  IF params = <<>> THEN <<>> ELSE <<Csi("", params, "m")>>

set_private_mode(mode, enabled) == Csi("?", <<<<mode>>>>, IF enabled THEN "h" ELSE "l")

\* Mutant of apply_modes: a mode that is off is taken for granted.
MutOnlyModesThatAreOn(a) ==
  SelectSeq(<<set_private_mode(1, "cursor_keys" \in a.modes),
              set_private_mode(6, "origin" \in a.modes),
              set_private_mode(7, "autowrap" \in a.modes),
              set_private_mode(1049, "alt_screen" \in a.modes),
              set_private_mode(2004, "bracketed_paste" \in a.modes)>>,
            LAMBDA c : c.final = "h")

apply_modes(a) ==
  <<set_private_mode(1, "cursor_keys" \in a.modes),
    set_private_mode(6, "origin" \in a.modes),
    set_private_mode(7, "autowrap" \in a.modes),
    set_private_mode(1000, a.mouse # "off"),
    set_private_mode(1002, a.mouse = "button_event"),
    set_private_mode(1003, a.mouse = "any_event"),
    set_private_mode(1005, FALSE),
    set_private_mode(1006, a.mouse # "off"),
    set_private_mode(1049, "alt_screen" \in a.modes),
    set_private_mode(2004, "bracketed_paste" \in a.modes)>>

apply_charset(a) == [i \in 1..4 |-> Esc(Markers[i], a.g[i])] \o <<Execute("si")>>

render_prefix_from_anchor(a) ==
  <<Csi("", <<<<0>>>>, "m"), set_private_mode(25, TRUE)>>
  \o apply_sgr(a.sgr) \o apply_modes(a) \o apply_charset(a)
  \o <<Csi("", <<<<saturating_add(a.row, 1)>>, <<saturating_add(a.col, 1)>>>>, "H")>>

\* A terminal that is in state a and is sent control functions.
Replay(a, functions) ==
  LET run[n \in 0..Len(functions)] ==
        IF n = 0 THEN a ELSE Perform(run[n - 1], functions[n])
  IN  run[Len(functions)]
=============================================================================
