----------------------------- MODULE ConfigText -----------------------------
(***************************************************************************)
(* The text of fastbootcfg.txt and the parser and editor of config.c.      *)
(*                                                                         *)
(* A text is a sequence of tokens.  A key stands for its name together     *)
(* with the " = " that makes it a definition, EOL for one line break       *)
(* character (the program writes two), and every other token for a piece   *)
(* of a value or of a comment.  Positions are indices of the text, and the *)
(* NULL pointer is 0.                                                      *)
(***************************************************************************)
EXTENDS Integers, FiniteSets, SequencesExt

CONSTANTS
  PathKeys, PadKeys, WordKeys, IntKeys,   \* keys, by how they are converted
  EOL,
  Tokens,        \* what a text consists of
  PathParts,     \* tokens a valid path consists of
  Buttons,       \* the buttons in the order of convTable
  Words,         \* tokens of modeTable and boolStates
  Digits, Zero,  \* numbers as written by itoa; what atoi makes of no number
  MaxFileSize,
  Null

Keys == PathKeys \union PadKeys \union WordKeys \union IntKeys

ASSUME TextAssumption ==
  /\ MaxFileSize \in Nat /\ Zero \in Digits
  /\ EOL \notin Keys /\ Keys \union {EOL} \subseteq Tokens
\* A key is converted in one way, and neither it nor a line break is a number.
ASSUME KindsAssumption ==
  /\ PathKeys \intersect (PadKeys \union WordKeys \union IntKeys) = {}
  /\ PadKeys \intersect (WordKeys \union IntKeys) = {} /\ WordKeys \intersect IntKeys = {}
  /\ Digits \intersect (Keys \union {EOL}) = {}
  /\ Buttons \in Seq(Tokens)

NoAttribute == [textData |-> 0, textLength |-> 0, data |-> Null]

-----------------------------------------------------------------------------
(* Reading.                                                                *)

LineStarts(text) ==
  {i \in DOMAIN text : i = 1 \/ text[i - 1] = EOL}

\* The position at or behind i at which the line ends.
LineEnd(text, i) ==
  CHOOSE j \in i .. Len(text) + 1 :
    /\ j = Len(text) + 1 \/ text[j] = EOL
    /\ \A h \in i .. j - 1 : text[h] # EOL

\* Where the values of the definitions of a key begin.
Definitions(text, key) ==
  {i + 1 : i \in {j \in LineStarts(text) : text[j] = key}}

parseDefinition(text, i) == LineEnd(text, i) - i

isValidPath(value) == value # <<>> /\ ToSet(value) \subseteq PathParts

\* atoi skips line breaks too: an empty value reads on in the next line.
atoi(text, i) ==
  LET rest == {j \in i .. Len(text) : text[j] # EOL}
      first == CHOOSE j \in rest : \A h \in rest : j <= h
  IN IF rest # {} /\ text[first] \in Digits THEN text[first] ELSE Zero

parsePath(value) == IF isValidPath(value) THEN value ELSE Null
parseBootOptionPad(value) == ToSet(value) \intersect ToSet(Buttons)
parseBootMode(value) ==
  IF value # <<>> /\ value[1] \in Words THEN value[1] ELSE Null

\* The native form of the value at i, Null if it has none.
Parse(text, key, i) ==
  LET value == SubSeq(text, i, LineEnd(text, i) - 1)
  IN CASE key \in PathKeys -> parsePath(value)
       [] key \in PadKeys  -> parseBootOptionPad(value)
       [] key \in WordKeys -> parseBootMode(value)
       [] key \in IntKeys  -> atoi(text, i)

\* The first definition of every key.
parseConfigFile(text) ==
  [key \in Keys |->
     LET found == Definitions(text, key)
         first == CHOOSE i \in found : \A j \in found : i <= j
     IN IF found = {} THEN NoAttribute
        ELSE [textData |-> first, textLength |-> parseDefinition(text, first),
              data |-> Parse(text, key, first)]]

-----------------------------------------------------------------------------
(* Writing.  An editor state is the text with the attributes of its keys.  *)

\* What the write functions accept, and the text they make of it.
Accepts(key, data) == CASE key \in PathKeys -> isValidPath(data)
                        [] key \in WordKeys -> data \in Words
                        [] OTHER -> TRUE
writeBootOptionPad(data) ==
  LET names[n \in 0 .. Len(Buttons)] ==
        IF n = 0 THEN <<>>
        ELSE IF Buttons[n] \in data THEN Append(names[n - 1], Buttons[n])
        ELSE names[n - 1]
  IN names[Len(Buttons)]
Format(key, data) == CASE key \in PathKeys -> data
                       [] key \in PadKeys  -> writeBootOptionPad(data)
                       [] OTHER            -> <<data>>

Remaining(text) == MaxFileSize - Len(text)

\* Mutant: no line break in front.
SeparatorMissing(text) == <<>>

\* A line break in front, if the text does not end with one.
Separator(text) ==
  IF text # <<>> /\ Last(text) # EOL THEN <<EOL, EOL>> ELSE <<>>

DefinitionFits(text, value) ==
  Len(Separator(text)) + 1 + Len(value) + 2 <= Remaining(text)

\* Mutant: they stay.
ShiftNone(attributes, at, diff) == attributes

\* The pointers behind the edited place move with the text.
Shift(attributes, at, diff) ==
  [key \in Keys |-> IF attributes[key].textData > at
                    THEN [attributes[key] EXCEPT !.textData = @ + diff]
                    ELSE attributes[key]]

\* The edited state and the new length: 0, and nothing edited, if there is
\* no room for the new value beside the old one.
writeUpdateDefinitionText(state, at, length, value) ==
  IF Len(value) > Remaining(state.text) THEN [state |-> state, length |-> 0]
  ELSE [state |->
          [text |-> SubSeq(state.text, 1, at - 1) \o value
                      \o SubSeq(state.text, at + length, Len(state.text)),
           attributes |-> Shift(state.attributes, at, Len(value) - length)],
        length |-> Len(value)]

writeAddDefinitionText(state, key, value) ==
  IF ~DefinitionFits(state.text, value)
  THEN [state |-> state, textData |-> 0]
  ELSE LET line == state.text \o Separator(state.text) \o <<key>>
       IN [state |-> [state EXCEPT !.text = line \o value \o <<EOL, EOL>>],
           textData |-> Len(line) + 1]

\* The write functions: the data is set whether or not the text had room.
writeAttribute(state, key, data) ==
  LET attr == state.attributes[key]
      value == Format(key, data)
      added == writeAddDefinitionText(state, key, value)
      updated == writeUpdateDefinitionText(state, attr.textData,
                                           attr.textLength, value)
  IN IF attr.textData = 0
     THEN [added.state EXCEPT !.attributes[key] =
             [textData |-> added.textData, textLength |-> Len(value),
              data |-> data]]
     ELSE [updated.state EXCEPT !.attributes[key].textLength = updated.length,
                                !.attributes[key].data = data]

\* Is there room for the write?
HasRoom(state, key, data) ==
  IF state.attributes[key].textData = 0
  THEN DefinitionFits(state.text, Format(key, data))
  ELSE Len(Format(key, data)) <= Remaining(state.text)

\* The first character of the line of position i.  The search stops in front
\* of the first character of the text, so a text that begins with a line
\* break loses it with its second line.
LineBegin(text, i) ==
  LET breaks == {j \in 2 .. i : text[j] = EOL}
  IN IF breaks = {} THEN 1
     ELSE 1 + CHOOSE j \in breaks : \A h \in breaks : j >= h

\* Mutant: the next line is taken for the second line break.
NextLineGreedy(text, i) ==
  LET end == LineEnd(text, i) IN IF end >= Len(text) THEN end + 1 ELSE end + 2

\* Behind the line break, which may be one character or two.
NextLine(text, i) ==
  LET end == LineEnd(text, i)
  IN CASE end = Len(text) + 1 -> end
       [] end < Len(text) /\ text[end + 1] = EOL -> end + 2
       [] OTHER -> end + 1

Removable(attr) == attr.textData # 0 /\ attr.textLength # 0

removeDefinition(state, key) ==
  LET attr == state.attributes[key]
      begin == LineBegin(state.text, attr.textData)
      behind == NextLine(state.text, attr.textData + attr.textLength)
      removed == writeUpdateDefinitionText(state, begin, behind - begin, <<>>)
  IN [removed.state EXCEPT !.attributes[key] = NoAttribute]

-----------------------------------------------------------------------------
(* Reference definitions for the properties.                               *)

\* Keys defined more than once: only the first definition counts.
DefinedTwice(text) ==
  {key \in Keys : Cardinality(Definitions(text, key)) > 1}

\* No line begins with a number, so that atoi finds none behind an empty value.
NoNumbers(text) == \A i \in LineStarts(text) : text[i] \notin Digits

\* The rest of the line at a position, which may be the NULL pointer.
ValueText(text, i) ==
  IF i = 0 THEN Null ELSE SubSeq(text, i, LineEnd(text, i) - 1)

\* The lines of a text that are not empty, without those of some positions.
LinesBeside(text, positions) ==
  LET begins == {b \in LineStarts(text) :
                   /\ text[b] # EOL
                   /\ positions \intersect (b + 1 .. LineEnd(text, b)) = {}}
      order == SetToSortSeq(begins, <)
  IN [n \in DOMAIN order |->
        SubSeq(text, order[n], LineEnd(text, order[n]) - 1)]
=============================================================================
