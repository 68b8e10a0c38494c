------------------------------ MODULE Commands ------------------------------
(***************************************************************************)
(* The text of commands: OutCommand and EscapedWriter write it             *)
(* (tsproto-packets/src/packets.rs), CommandParser reads it (commands.rs). *)
(* A text is a sequence of characters, an argument a pair of its name and  *)
(* its value, a part a sequence of arguments; parts are separated by pipes.*)
(***************************************************************************)
EXTENDS Integers, Sequences, SequencesExt

Space == " "
Pipe == "|"
Equals == "="
Slash == "/"
Escape == "esc"                        \* the backslash
Whitespace == {Space, "tab", "newline"} \* the others of 0b 0c 09 0d 0a are alike

\* The letter that stands for a character after the escape character.
Letters == [c \in {Space, Pipe, "tab", "newline"} |->
              CASE c = Space -> "s" [] c = Pipe -> "p" [] c = "tab" -> "t" [] c = "newline" -> "n"]

IsAlphanumeric(c) == c \notin Whitespace \cup {Pipe, Equals, Slash, Escape, "_"}

----------------------------------------------------------------------------
(* Writing *)

\* Mutant: the escape character itself is written as it is.
EscapedButEscapes(value) ==
  FlattenSeq([i \in DOMAIN value |->
    IF value[i] \in DOMAIN Letters THEN <<Escape, Letters[value[i]]>> ELSE <<value[i]>>])

\* EscapedWriter, one character
EscapedChar(c) ==
  IF c \in DOMAIN Letters THEN <<Escape, Letters[c]>>
  ELSE IF c \in {Escape, Slash} THEN <<Escape, c>> ELSE <<c>>

Escaped(value) ==
  LET text[n \in 0 .. Len(value)] ==
        IF n = 0 THEN <<>> ELSE text[n - 1] \o EscapedChar(value[n])
  IN text[Len(value)]

\* write_arg (write_bin_arg does the same): no space at the start of a part,
\* and no equals sign before an empty value.
WriteArg(text, arg) ==
  text \o (IF text = <<>> \/ Last(text) = Pipe THEN <<>> ELSE <<Space>>)
       \o arg.name \o (IF arg.value = <<>> THEN <<>> ELSE <<Equals>> \o Escaped(arg.value))

WritePart(text, part) ==
  LET after[n \in 0 .. Len(part)] ==
        IF n = 0 THEN text ELSE WriteArg(after[n - 1], part[n])
  IN after[Len(part)]

\* OutCommand::new, then all parts with start_new_part in between.
Write(name, parts) ==
  LET after[n \in 0 .. Len(parts)] ==
        IF n = 0 THEN name
        ELSE WritePart(IF n = 1 THEN after[n - 1] ELSE Append(after[n - 1], Pipe), parts[n])
  IN after[Len(parts)]

----------------------------------------------------------------------------
(* Reading *)

\* The first of some places in the text, or its end.
FirstOf(text, places) == IF places = {} THEN Len(text) + 1 ELSE Min(places)
FirstIn(text, i, chars) == FirstOf(text, {j \in i .. Len(text) : text[j] \in chars})

\* CommandParser::new: alphanumeric characters, if a space or the end follows.
NameEnd(text) ==
  LET end == FirstOf(text, {j \in DOMAIN text : ~IsAlphanumeric(text[j])})
  IN IF end > Len(text) \/ text[end] = Space THEN end ELSE 1

\* unescape: an escape character at the end is dropped.
UnescapedChar(acc, c) ==
  IF acc.escape
  THEN [escape |-> FALSE,
        out |-> Append(acc.out, IF \E d \in DOMAIN Letters : Letters[d] = c
                                THEN CHOOSE d \in DOMAIN Letters : Letters[d] = c ELSE c)]
  ELSE IF c = Escape THEN [acc EXCEPT !.escape = TRUE]
  ELSE [acc EXCEPT !.out = Append(@, c)]

Unescaped(raw) ==
  LET read[n \in 0 .. Len(raw)] ==
        IF n = 0 THEN [escape |-> FALSE, out |-> <<>>] ELSE UnescapedChar(read[n - 1], raw[n])
  IN read[Len(raw)].out

NextCommand == <<"NextCommand">>
Argument(name, value) == <<"Argument", name, value>>

\* CommandParser::next: the item at place i, and the place after it.  A value
\* ends at the first whitespace or pipe, escaped or not; a name does not end
\* at other whitespace than a space.
Item(text, i) ==
  IF text[i] = Pipe THEN [item |-> NextCommand, after |-> i + 1]
  ELSE LET name_end == FirstIn(text, i, {Space, Equals, Pipe})
           name == SubSeq(text, i, name_end - 1)
           value_end == FirstIn(text, name_end + 1, Whitespace \cup {Pipe})
       IN IF name_end > Len(text) \/ text[name_end] # Equals
          THEN [item |-> Argument(name, <<>>), after |-> name_end]
          ELSE [item |-> Argument(name, Unescaped(SubSeq(text, name_end + 1, value_end - 1))),
                after |-> value_end]

SkipSpace(text, i) == FirstOf(text, {j \in i .. Len(text) : text[j] \notin Whitespace})

\* All items after the name.
Items(text) ==
  LET from[i \in 1 .. Len(text) + 1] ==
        LET j == SkipSpace(text, i) IN
        IF j > Len(text) THEN <<>>
        ELSE LET next == Item(text, j) IN <<next.item>> \o from[next.after]
  IN from[NameEnd(text)]

Name(text) == SubSeq(text, 1, NameEnd(text) - 1)

\* The items that stand for some parts.
ItemsOf(parts) ==
  LET items[n \in 0 .. Len(parts)] ==
        IF n = 0 THEN <<>>
        ELSE items[n - 1] \o (IF n = 1 THEN <<>> ELSE <<NextCommand>>)
               \o [j \in DOMAIN parts[n] |-> Argument(parts[n][j].name, parts[n][j].value)]
  IN items[Len(parts)]

=============================================================================
