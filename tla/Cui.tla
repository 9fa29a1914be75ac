-------------------------------- MODULE Cui --------------------------------
(***************************************************************************)
(* The curses interface of util/intop/cui.py: the list of rows with its    *)
(* selection, the dialogs for the sort key, the threshold and the filters, *)
(* the edit field they use, and the details of a row.                      *)
(*                                                                         *)
(* mode says which loop waits for a key.  Every step but the drawing of    *)
(* the view is what one key does, up to where the next key is read.  What  *)
(* get_data answers is an input, any of Answers, on every call (Intop has  *)
(* what it really answers); of the model only its settings are kept.       *)
(***************************************************************************)
EXTENDS Integers, Sequences, SequencesExt

CONSTANTS
    Answers,        \* the sequences of rows get_data may return
    Lines,          \* the lines of the window that show rows
    NumSortKeys,    \* the number of sort keys
    Filters,        \* the number of filters
    Matches(_, _),  \* whether a text matches the regular expression of a filter
    Digits,         \* the characters of numbers, in their order
    Letters,        \* the other characters filters may have
    ThresholdWidth, \* the width of the edit fields, 15 and 21 in the code
    FilterWidth,
    ThresholdMax    \* 4294967295 in the code

VARIABLES
    mode,       \* where the interface is
    model_settings,     \* [sort_key, threshold, filters]; an absent filter is <<>>
    data,       \* the rows of the list
    selection,  \* the row selected, from 0; -1: none
    lit,        \* the row highlighted on the screen
    detail,     \* the row whose details are shown
    dialog,     \* the line selected in a dialog, from 0
    edit        \* [value, position, initial] of the edit field

listVars == <<data, selection, lit>>
cuiVars == <<mode, model_settings, listVars, detail, dialog, edit>>

NoRow == "None"
DigitChars == Range(Digits)

Modes == {"draw", "list", "sort", "threshold", "filters", "filter", "details", "quit",
          "type_error", "index_error"}

-----------------------------------------------------------------------------
(* Numbers and what is written for them.                                   *)

ToInt(text) ==
    FoldLeft(LAMBDA n, c : n * Len(Digits) + (CHOOSE i \in DOMAIN Digits : Digits[i] = c) - 1, 0, text)

\* The digits str gives: no zero in front of others.
Numerals ==
    {text \in BoundedSeq(DigitChars, ThresholdWidth - 2) :
        text # <<>> /\ (text[1] = Digits[1] => Len(text) = 1)}
ToStr(n) == CHOOSE text \in Numerals : ToInt(text) = n

\* The rows are rows, and the edit field has room for every threshold.
ASSUME CuiAssumption ==
    /\ \A answer \in Answers : answer \in Seq(Range(answer)) /\ NoRow \notin Range(answer)
    /\ Lines \in Nat /\ NumSortKeys \in Nat \ {0} /\ Filters \in Nat \ {0}
    /\ Digits \in Seq(DigitChars) /\ Len(Digits) > 1
    /\ ThresholdWidth \in Nat /\ FilterWidth \in Nat \ {0, 1} /\ ThresholdMax \in Nat
    /\ \A n \in 0 .. ThresholdMax : \E text \in Numerals : ToInt(text) = n

-----------------------------------------------------------------------------
(* getkey: what was typed, character by character, and the key it makes.   *)

Converted ==
    [KEY_DOWN |-> "Down", KEY_UP |-> "Up", KEY_LEFT |-> "Left", KEY_RIGHT |-> "Right"] @@
    ("^U" :> "NAK" @@ "^H" :> "BS" @@ "^_" :> "BS" @@ "^?" :> "BS" @@ "^L" :> "FF" @@ "^R" :> "DC2")
Arrows == [A |-> "Up", B |-> "Down", C |-> "Right", D |-> "Left"]

\* A sequence that breaks off is no key but curses.error, except the escape
\* alone; one that is not known counts as its last character.
getkey(typed) ==
    CASE typed = <<>> \/ typed \in {<<"ESC", "O">>, <<"ESC", "[">>, <<"ESC", "[", "3">>} -> "error"
      [] typed = <<"ESC">> -> "ESC"
      [] Len(typed) = 1 /\ typed[1] \in DOMAIN Converted -> Converted[typed[1]]
      [] Len(typed) = 3 /\ typed[3] \in DOMAIN Arrows -> Arrows[typed[3]]
      [] typed = <<"ESC", "[", "3", "~">> -> "DEL"
      [] OTHER -> typed[Len(typed)]

Plain == {"Enter", "k", "j", "h", "l", "r", "s", "t", "f", "q"} \cup DigitChars \cup Letters
Typed == {<<>>, <<"ESC">>, <<"ESC", "O">>, <<"ESC", "[">>, <<"ESC", "[", "3">>,
          <<"ESC", "[", "3", "~">>, <<"ESC", "[", "3", "q">>, <<"KEY_HOME">>}
         \cup {<<c>> : c \in Plain \cup DOMAIN Converted} \cup {<<"ESC", c>> : c \in Plain}
         \cup {<<"ESC", c, a>> : c \in {"O", "["}, a \in DOMAIN Arrows \cup {"k"}}

UpKeys == {"k", "Up"}
DownKeys == {"j", "Down"}
FirstKeys == {"h", "Left"}
LastKeys == {"l", "Right"}
LeaveKeys == {"q", "ESC"}

-----------------------------------------------------------------------------
(* The list.                                                               *)

\* Mutant: the selection may be one past the last row.
ClampedPast(sel, rows) ==
    IF sel > Len(rows) THEN Len(rows) ELSE IF sel < 0 /\ rows # <<>> THEN 0 ELSE sel

\* The selection update_data leaves.
Clamped(sel, rows) ==
    IF sel >= Len(rows) THEN Len(rows) - 1 ELSE IF sel < 0 /\ rows # <<>> THEN 0 ELSE sel

update_data ==
    \E answer \in Answers :
        /\ data' = IF Len(answer) <= Lines THEN answer ELSE SubSeq(answer, 1, Lines)
        /\ selection' = Clamped(selection, data')

redraw ==
    /\ update_data
    /\ lit' = IF selection' + 1 \in DOMAIN data' THEN data'[selection' + 1] ELSE NoRow

\* interact: the view is drawn before every key.
write_view ==
    /\ mode = "draw"
    /\ redraw
    /\ mode' = "list"
    /\ UNCHANGED <<model_settings, detail, dialog, edit>>

\* A key of the list that moves the selection.
Select(sel) ==
    /\ mode = "list"
    /\ selection' = sel
    /\ mode' = "draw"
    /\ UNCHANGED <<model_settings, data, lit, detail, dialog, edit>>

move_up(key) == key \in UpKeys /\ Select(IF selection - 1 < 0 THEN 0 ELSE selection - 1)
move_down(key) ==
    key \in DownKeys /\ Select(IF selection + 1 >= Len(data) THEN Len(data) - 1 ELSE selection + 1)
move_first(key) == key \in FirstKeys /\ Select(0)
move_last(key) == key \in LastKeys /\ Select(Len(data) - 1)

UpdateKey(key) ==
    /\ mode = "list" /\ key \in {"r", "FF", "DC2"}
    /\ update_data
    /\ mode' = "draw"
    /\ UNCHANGED <<model_settings, lit, detail, dialog, edit>>

view_details(key) ==
    /\ mode = "list" /\ key = "Enter"
    /\ IF 0 > selection \/ selection > Len(data) THEN mode' = "draw" /\ UNCHANGED detail
       ELSE IF selection = Len(data) THEN mode' = "index_error" /\ UNCHANGED detail
       ELSE mode' = "details" /\ detail' = data[selection + 1]
    /\ UNCHANGED <<model_settings, listVars, dialog, edit>>

LeaveDetails(key) ==
    /\ mode = "details" /\ key \in LeaveKeys \cup {"Enter"}
    /\ mode' = "draw" /\ detail' = NoRow
    /\ UNCHANGED <<model_settings, listVars, dialog, edit>>

quit(key) ==
    /\ mode = "list" /\ key \in LeaveKeys
    /\ mode' = "quit"
    /\ UNCHANGED <<model_settings, listVars, detail, dialog, edit>>

\* A key without a handler, or none: the view is drawn again.
OtherKey(key) ==
    /\ mode = "list"
    /\ key \notin UNION {UpKeys, DownKeys, FirstKeys, LastKeys, LeaveKeys,
                         {"r", "FF", "DC2", "Enter", "s", "t", "f"}}
    /\ mode' = "draw"
    /\ UNCHANGED <<model_settings, listVars, detail, dialog, edit>>

-----------------------------------------------------------------------------
(* The edit field.                                                         *)

EditOf(text) == [value |-> text, position |-> Len(text), initial |-> text]
NoEdit == EditOf(<<>>)

Width == IF mode = "threshold" THEN ThresholdWidth ELSE FilterWidth
Chars == IF mode = "threshold" THEN DigitChars ELSE DigitChars \cup Letters

Editing == mode \in {"threshold", "filter"}

\* The value without the character after position.
Without(position) ==
    SubSeq(edit.value, 1, position) \o SubSeq(edit.value, position + 2, Len(edit.value))

Edited(value, position) ==
    /\ edit' = [edit EXCEPT !.value = value, !.position = position]
    /\ UNCHANGED <<mode, model_settings, listVars, detail, dialog>>

EditMove(key) ==
    /\ Editing
    /\ \/ key = "Up" /\ Edited(edit.value, 0)
       \/ key = "Down" /\ Edited(edit.value, Len(edit.value))
       \/ key = "Left" /\ edit.position > 0 /\ Edited(edit.value, edit.position - 1)
       \/ key = "Right" /\ edit.position < Len(edit.value) /\ Edited(edit.value, edit.position + 1)

\* Mutant: the position is left behind what is cut off.
EditDeleteStays(key) ==
    /\ Editing
    /\ \/ key = "BS" /\ edit.position > 0 /\ Edited(Without(edit.position - 1), edit.position)
       \/ key = "DEL" /\ edit.position < Len(edit.value) /\ Edited(Without(edit.position), edit.position)
       \/ key = "NAK" /\ Edited(<<>>, 0)

EditDelete(key) ==
    /\ Editing
    /\ \/ key = "BS" /\ edit.position > 0 /\ Edited(Without(edit.position - 1), edit.position - 1)
       \/ key = "DEL" /\ edit.position < Len(edit.value) /\ Edited(Without(edit.position), edit.position)
       \/ key = "NAK" /\ Edited(<<>>, 0)

EditInsert(key) ==
    /\ Editing /\ key \in Chars \ LeaveKeys
    /\ Len(edit.value) < Width - 2
    /\ Edited(SubSeq(edit.value, 1, edit.position) \o <<key>>
                  \o SubSeq(edit.value, edit.position + 1, Len(edit.value)),
              edit.position + 1)

\* Control-L and control-R are numbers, which cannot be looked for in a string.
EditTypeError(key) ==
    /\ Editing /\ key \in {"FF", "DC2"}
    /\ Len(edit.value) < Width - 2
    /\ mode' = "type_error"
    /\ UNCHANGED <<model_settings, listVars, detail, dialog, edit>>

-----------------------------------------------------------------------------
(* The threshold.                                                          *)

set_threshold(key) ==
    /\ mode = "list" /\ key = "t"
    /\ edit' = EditOf(ToStr(model_settings.threshold))
    /\ mode' = "threshold"
    /\ UNCHANGED <<model_settings, listVars, detail, dialog>>

Capped(n) == IF n > ThresholdMax THEN ThresholdMax ELSE n

ThresholdIs(text) ==
    /\ mode = "threshold"
    /\ model_settings' = [model_settings EXCEPT !.threshold = Capped(ToInt(text))]
    /\ redraw
    /\ mode' = "draw" /\ edit' = NoEdit
    /\ UNCHANGED <<detail, dialog>>

-----------------------------------------------------------------------------
(* The dialogs for the sort key and the filters.                           *)

set_sort_key(key) ==
    /\ mode = "list" /\ key = "s"
    /\ dialog' = model_settings.sort_key
    /\ mode' = "sort"
    /\ UNCHANGED <<model_settings, listVars, detail, edit>>

view_filters(key) ==
    /\ mode = "list" /\ key = "f"
    /\ dialog' = 0
    /\ mode' = "filters"
    /\ UNCHANGED <<model_settings, listVars, detail, edit>>

DialogMove(key) ==
    /\ mode \in {"sort", "filters"}
    /\ LET last == (IF mode = "sort" THEN NumSortKeys ELSE Filters) - 1 IN
       \/ key \in UpKeys /\ dialog' = (IF dialog - 1 < 0 THEN 0 ELSE dialog - 1)
       \/ key \in DownKeys /\ dialog' = (IF dialog + 1 > last THEN last ELSE dialog + 1)
       \/ key \in FirstKeys /\ dialog' = 0
       \/ key \in LastKeys /\ dialog' = last
    /\ UNCHANGED <<mode, model_settings, listVars, detail, edit>>

DialogLeave(key) ==
    /\ mode \in {"sort", "filters"} /\ key \in LeaveKeys
    /\ redraw
    /\ mode' = "draw" /\ dialog' = 0
    /\ UNCHANGED <<model_settings, detail, edit>>

SortKeyIs(key) ==
    /\ mode = "sort" /\ key = "Enter"
    /\ model_settings' = [model_settings EXCEPT !.sort_key = dialog]
    /\ redraw
    /\ mode' = "draw" /\ dialog' = 0
    /\ UNCHANGED <<detail, edit>>

\* Lines of the dialog are counted from 0, as in the code.
FilterEdit(key) ==
    /\ mode = "filters" /\ key = "Enter"
    /\ edit' = EditOf(model_settings.filters[dialog])
    /\ mode' = "filter"
    /\ UNCHANGED <<model_settings, listVars, detail, dialog>>

FilterClear(key) ==
    /\ mode = "filters" /\ key \in {"BS", "DEL"}
    /\ model_settings' = [model_settings EXCEPT !.filters[dialog] = <<>>]
    /\ UNCHANGED <<mode, listVars, detail, dialog, edit>>

\* Mutant: the next try begins with nothing.
FilterIsForgets(text) ==
    /\ mode = "filter"
    /\ IF text = <<>> \/ Matches(dialog, text)
       THEN /\ model_settings' = [model_settings EXCEPT !.filters[dialog] = text]
            /\ mode' = "filters" /\ edit' = NoEdit
       ELSE edit' = NoEdit /\ UNCHANGED <<mode, model_settings>>
    /\ UNCHANGED <<listVars, detail, dialog>>

\* A value that does not match is what the next try begins with.
FilterIs(text) ==
    /\ mode = "filter"
    /\ IF text = <<>> \/ Matches(dialog, text)
       THEN /\ model_settings' = [model_settings EXCEPT !.filters[dialog] = text]
            /\ mode' = "filters" /\ edit' = NoEdit
       ELSE edit' = EditOf(text) /\ UNCHANGED <<mode, model_settings>>
    /\ UNCHANGED <<listVars, detail, dialog>>

\* get_value returns what was typed, or what was there before.
EditConfirm(key) == key = "Enter" /\ (ThresholdIs(edit.value) \/ FilterIs(edit.value))
EditRevert(key) == key \in LeaveKeys /\ (ThresholdIs(edit.initial) \/ FilterIs(edit.initial))

-----------------------------------------------------------------------------
CuiInit ==
    /\ mode = "draw"
    /\ model_settings = [sort_key |-> NumSortKeys - 1, threshold |-> 0,
                   filters |-> [f \in 0 .. Filters - 1 |-> <<>>]]
    /\ \E answer \in Answers :
          /\ data = IF Len(answer) <= Lines THEN answer ELSE SubSeq(answer, 1, Lines)
          /\ selection = Clamped(0, data)
    /\ lit = NoRow /\ detail = NoRow /\ dialog = 0 /\ edit = NoEdit

ListKey(key) ==
    \/ move_up(key) \/ move_down(key) \/ move_first(key) \/ move_last(key)
    \/ UpdateKey(key) \/ view_details(key) \/ LeaveDetails(key) \/ quit(key) \/ OtherKey(key)
DialogKey(key) ==
    \/ set_sort_key(key) \/ view_filters(key) \/ set_threshold(key)
    \/ DialogMove(key) \/ DialogLeave(key) \/ SortKeyIs(key) \/ FilterEdit(key) \/ FilterClear(key)
EditKey(key) ==
    \/ EditMove(key) \/ EditDelete(key) \/ EditInsert(key) \/ EditTypeError(key)
    \/ EditConfirm(key) \/ EditRevert(key)

CuiNext ==
    \/ write_view
    \/ \E typed \in Typed : LET key == getkey(typed) IN ListKey(key) \/ DialogKey(key) \/ EditKey(key)

CuiSpec == CuiInit /\ [][CuiNext]_cuiVars

-----------------------------------------------------------------------------
\* The variables have their types: in particular the value of an edit field
\* leaves it two columns, and the cursor stands in the value or at its end.
CuiTypeOK ==
    /\ mode \in Modes
    /\ selection \in -1 .. Lines /\ Len(data) <= Lines
    /\ model_settings.sort_key \in 0 .. NumSortKeys - 1 /\ model_settings.threshold \in 0 .. ThresholdMax
    /\ mode = "sort" => dialog \in 0 .. NumSortKeys - 1
    /\ mode \in {"filters", "filter"} => dialog \in 0 .. Filters - 1
    /\ edit.position \in 0 .. Len(edit.value)
    /\ Editing => Len(edit.value) <= Width - 2

\* The details are those of the row highlighted when Enter was pressed, and
\* there always is that row: rows that go away between two keys take the
\* selection with them (view_details, update_data).
DetailsOfShown ==
    /\ mode # "index_error"
    /\ mode = "details" => detail = lit /\ detail # NoRow

\* Leaving an edit field by q or escape changes no setting, after whatever was
\* typed and refused before ("revert value to original").
EscapeKeeps == [][(\E key \in LeaveKeys : EditRevert(key)) => model_settings' = model_settings]_cuiVars
=============================================================================
