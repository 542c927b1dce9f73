--------------------------- MODULE VariableInput ----------------------------
(***************************************************************************)
(* components/ui/variable-input.tsx: the input that offers the names of    *)
(* variables while a reference {{name}} is typed: the URL bar, and the     *)
(* cells of tables.  The URL bar stays when another tab is shown, so its   *)
(* value can change under an open list of names.                           *)
(*                                                                         *)
(* A text is a sequence of symbols: "{{" and "}}" are one each, so that a  *)
(* cursor between two braces is left out.  A cursor is the number of       *)
(* symbols before it.                                                      *)
(***************************************************************************)
EXTENDS Naturals, SequencesExt, Selection

CONSTANTS
  Letters, Suggestions,     \* the names that can be offered, in order
  InputTabs,
  MaxLength, MaxInputActs   \* bounds: symbols of a text, acts of the user

OpenBraces == "{{"
CloseBraces == "}}"

ASSUME InputAssumption ==
  /\ {OpenBraces, CloseBraces} \cap Letters = {} /\ Suggestions \in Seq(Seq(Letters))

VARIABLES
  values,          \* of each tab
  shownTab,
  cursor,
  isFocused,
  dropdownOpen, dropdownItems, activeIndex,
  closing,         \* timers that will close the list
  inputActs

dropdownVars == <<dropdownOpen, dropdownItems, activeIndex>>
inputVars == <<values, shownTab, cursor, isFocused, dropdownVars, closing, inputActs>>

Symbols == {OpenBraces, CloseBraces} \cup Letters
Value == values[shownTab]
NoName == <<"undefined">>

InputInit ==
  /\ values \in [InputTabs -> {<<>>, <<OpenBraces>>}] /\ shownTab \in InputTabs /\ cursor = 0
  /\ isFocused = FALSE /\ dropdownOpen = FALSE /\ dropdownItems = <<>> /\ activeIndex = 1
  /\ closing = 0 /\ inputActs = 0

(* The references in a text, from the "{{" to the "}}".                    *)
VarTokens(value) ==
  {t \in (DOMAIN value) \X (DOMAIN value) :
     /\ value[t[1]] = OpenBraces /\ value[t[2]] = CloseBraces /\ t[1] < t[2]
     /\ \A n \in t[1] + 1 .. t[2] - 1 : value[n] \notin {OpenBraces, CloseBraces}}

(* Where the reference begins that the cursor is in: 0 for nowhere.        *)
ContextStart(value, pos) ==
  LET opens == {n \in 1..pos : value[n] = OpenBraces}
      last == CHOOSE n \in opens : \A m \in opens : m <= n
  IN IF opens = {} \/ (\E n \in last..pos : value[n] = CloseBraces) THEN 0 ELSE last

Offered(value, pos) ==
  LET start == ContextStart(value, pos)
      partial == SubSeq(value, start + 1, pos)
  IN IF start = 0 THEN <<>>
     ELSE Among(Suggestions, {n \in DOMAIN Suggestions : IsPrefix(partial, Suggestions[n]) /\ Suggestions[n] # partial})

(* Mutant: the name that was marked in the old list stays marked.          *)
UpdateDropdownKeepsActive(value, pos) ==
  IF Offered(value, pos) = <<>> THEN dropdownOpen' = FALSE /\ UNCHANGED <<dropdownItems, activeIndex>>
  ELSE dropdownOpen' = TRUE /\ dropdownItems' = Offered(value, pos) /\ UNCHANGED activeIndex

UpdateDropdown(value, pos) ==
  IF Offered(value, pos) = <<>> THEN dropdownOpen' = FALSE /\ UNCHANGED <<dropdownItems, activeIndex>>
  ELSE dropdownOpen' = TRUE /\ dropdownItems' = Offered(value, pos) /\ activeIndex' = 1

(* In the place of what was typed of the name; a "}}" after it is used.    *)
ApplyCompletion(key) ==
  LET start == ContextStart(Value, cursor)
      end == IF cursor < Len(Value) /\ Value[cursor + 1] = CloseBraces THEN cursor + 1 ELSE cursor
  IN IF start = 0 THEN UNCHANGED <<values, cursor, isFocused, dropdownVars>>
     ELSE /\ values' = [values EXCEPT ![shownTab] =
                          SubSeq(@, 1, start) \o key \o <<CloseBraces>> \o SubSeq(@, end + 1, Len(@))]
          /\ cursor' = start + Len(key) + 1 /\ isFocused' = TRUE
          /\ dropdownOpen' = FALSE /\ UNCHANGED <<dropdownItems, activeIndex>>

(***************************************************************************)
(* The events of the input.                                                *)
(***************************************************************************)
HandleChange ==
  /\ isFocused
  /\ \E value \in {InsertAt(Value, cursor + 1, s) : s \in Symbols} :
       /\ Len(value) <= MaxLength
       /\ values' = [values EXCEPT ![shownTab] = value] /\ cursor' = cursor + 1
       /\ UpdateDropdown(value, cursor + 1)
  /\ UNCHANGED <<shownTab, isFocused, closing>>

Backspace ==
  /\ isFocused /\ cursor > 0
  /\ LET value == RemoveAt(Value, cursor) IN
     /\ values' = [values EXCEPT ![shownTab] = value] /\ cursor' = cursor - 1
     /\ UpdateDropdown(value, cursor - 1)
  /\ UNCHANGED <<shownTab, isFocused, closing>>

Arrow ==
  /\ isFocused /\ dropdownOpen
  /\ activeIndex' \in {IF activeIndex < Len(dropdownItems) THEN activeIndex + 1 ELSE Len(dropdownItems),
                       IF activeIndex > 1 THEN activeIndex - 1 ELSE 1}
  /\ UNCHANGED <<values, shownTab, cursor, isFocused, dropdownOpen, dropdownItems, closing>>

Enter ==
  /\ isFocused /\ dropdownOpen
  /\ ApplyCompletion(IF activeIndex \in DOMAIN dropdownItems THEN dropdownItems[activeIndex] ELSE NoName)
  /\ UNCHANGED <<shownTab, closing>>

Escape ==
  /\ isFocused /\ dropdownOpen /\ dropdownOpen' = FALSE
  /\ UNCHANGED <<values, shownTab, cursor, isFocused, dropdownItems, activeIndex, closing>>

(* The mouse: over a name, on a name.                                      *)
MouseEnter ==
  /\ dropdownOpen /\ activeIndex' \in DOMAIN dropdownItems
  /\ UNCHANGED <<values, shownTab, cursor, isFocused, dropdownOpen, dropdownItems, closing>>

MouseDown ==
  /\ dropdownOpen /\ \E n \in DOMAIN dropdownItems : ApplyCompletion(dropdownItems[n])
  /\ UNCHANGED <<shownTab, closing>>

(* Nothing listens to the cursor.                                          *)
MoveCursor ==
  /\ isFocused /\ cursor' \in 0..Len(Value)
  /\ UNCHANGED <<values, shownTab, isFocused, dropdownVars, closing>>

HandleFocus ==
  /\ ~isFocused /\ isFocused' = TRUE
  /\ UNCHANGED <<values, shownTab, cursor, dropdownVars, closing>>

HandleBlur ==
  /\ isFocused /\ isFocused' = FALSE /\ closing' = closing + 1
  /\ UNCHANGED <<values, shownTab, cursor, dropdownVars>>

(* After a while, and although the input may have the focus again.         *)
CloseLater ==
  /\ closing > 0 /\ closing' = closing - 1 /\ dropdownOpen' = FALSE
  /\ UNCHANGED <<values, shownTab, cursor, isFocused, dropdownItems, activeIndex>>

(* The browser puts the cursor behind another value.                       *)
SwitchInputTab ==
  /\ \E t \in InputTabs \ {shownTab} :
       shownTab' = t /\ cursor' = IF values[t] = Value THEN cursor ELSE Len(values[t])
  /\ UNCHANGED <<values, isFocused, dropdownVars, closing>>

InputAct ==
  \/ HandleChange \/ Backspace \/ Arrow \/ Enter \/ Escape \/ MouseEnter \/ MouseDown
  \/ MoveCursor \/ HandleFocus \/ HandleBlur \/ SwitchInputTab

InputNext ==
  \/ InputAct /\ inputActs < MaxInputActs /\ inputActs' = inputActs + 1
  \/ CloseLater /\ UNCHANGED inputActs

InputSpec == InputInit /\ [][InputNext]_inputVars
-----------------------------------------------------------------------------
(***************************************************************************)
(* However old the list is that a name is chosen from, by key or mouse:    *)
(* what comes into the text is a name of the list, it is a reference       *)
(* there, and nothing is taken away but what was typed of a name before    *)
(* the cursor and one "}}" after it, in the tab that is shown.             *)
(***************************************************************************)
CompletionInPlace ==
  [][values' # values /\ (Enter \/ MouseDown) =>
       /\ \A t \in InputTabs \ {shownTab} : values'[t] = values[t]
       /\ \E key \in ToSet(dropdownItems), i \in 1..cursor, j \in {cursor, cursor + 1} :
            /\ values'[shownTab] = SubSeq(Value, 1, i) \o key \o <<CloseBraces>> \o SubSeq(Value, j + 1, Len(Value))
            /\ \A n \in i + 1 .. cursor : Value[n] \in Letters
            /\ j > cursor => j <= Len(Value) /\ Value[j] = CloseBraces
            /\ <<i, i + Len(key) + 1>> \in VarTokens(values'[shownTab])]_inputVars
=============================================================================
