------------------------------- MODULE EditText -------------------------------
(***************************************************************************)
(* The edit box of GLUI (glui_edittext.cpp), as far as its owner depends   *)
(* on it.  Leaving the box stores its text in the owner's variable and     *)
(* then calls back if the text is not the one the box remembers.  The box  *)
(* remembers its text when it is entered with the Tab key, or anew after   *)
(* the Return key, and not when it is entered with a click.                *)
(***************************************************************************)

Entrance == {"mouse", "tab"}

\* Return leaves the box and enters it again; Escape, Tab or a click elsewhere
\* in the panel leave it.
Departure == {"return", "away"}

\* activate(how): the text the box compares with, when it is entered showing
\* text and remembers orig_text.
Activated(how, orig_text, text) == IF how = "tab" THEN text ELSE orig_text

\* deactivate() calls back if the text changed.
CallsBack(orig_text, text) == orig_text # text

\* What the box remembers once it is left, showing text.
Remembered(leave, orig_text, text) ==
    IF leave = "return" THEN text ELSE orig_text

=============================================================================
