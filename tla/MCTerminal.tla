----------------------------- MODULE MCTerminal -----------------------------
(* Instance of Terminal for TLC: one reader and a task that does not read. *)
EXTENDS Terminal

\* Keys by scan code: Backspace, the keypad's '*' and Space.  With SHIFT they
\* are 232, newline and NUL; none of them is listed.
MCkbdus == 14 :> 8 @@ 55 :> 42 @@ 57 :> 32
MCshiftNums == << >>

\* A word, a new line and a tab.
MCOutputs == {<<97, 97, 97>>, <<NL>>, <<HT>>}

\* pids of one and of two digits.
MCIds == [p \in Proc |-> 9 + p]
=============================================================================
