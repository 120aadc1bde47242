------------------------------ MODULE MCConfig ------------------------------
(***************************************************************************)
(* A configuration with one boot slot, its buttons, the boot mode and the  *)
(* splash duration, and a buffer that three edits can fill.                *)
(***************************************************************************)
EXTENDS Config

CONSTANTS option, buttons, mode, duration, a, b, bad, A, B, normal, remark

MCTokens == {option, buttons, mode, duration, EOL, a, b, bad, A, B, normal, remark, 0, 5}
MCButtons == <<A, B>>
MCButtonsOf == (option :> buttons)
MCDataOf ==
  (option :> {<<a>>, <<a, b>>, <<bad>>}) @@ (buttons :> {{A}})
    @@ (mode :> {normal}) @@ (duration :> {5})
MCDefault == <<mode, normal, EOL, EOL>>
MCTexts == {
  \* written by the program
  <<mode, normal, EOL, EOL, option, a, EOL, EOL>>,
  \* by hand: a comment that names a key, no line break at the end
  <<remark, option, EOL, buttons, B, A>>,
  \* one key twice, single line breaks, one in front
  <<EOL, option, a, EOL, mode, normal, EOL, option, b>>,
  \* values that are not valid or empty
  <<option, bad, EOL, EOL, buttons, EOL, EOL, duration, remark>>,
  <<remark, EOL, EOL, remark, EOL, option, a, EOL, EOL, EOL, remark>>,
  <<>>,
  \* too large
  [i \in 1 .. MaxFileSize + 1 |-> remark]}

\* RoundTrip is about such texts.
ASSUME NumbersApart
=============================================================================
