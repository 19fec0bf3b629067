------------------------------ MODULE Terminal ------------------------------
(***************************************************************************)
(* Keyboard, scanf and screen together: the keyboard interrupt puts every  *)
(* key on the screen, whether it stores it or not, programs print between  *)
(* the keys, and the timer interrupt rewrites the status bar.              *)
(***************************************************************************)
EXTENDS Input, Console

CONSTANTS
    Outputs,   \* strings programs print
    Ids,       \* Ids[p]: pid of task p
    MaxPuts    \* bound: how many keys and strings are put on the screen

\* pids are positive, and the text of the status bar fits in a row.
ASSUME TerminalAssumption ==
    /\ Outputs \subseteq Seq(Chars)
    /\ Ids \in [Proc -> Nat \ {0}]
    /\ MaxPuts \in Nat
    /\ \A p \in Proc : Len(StatusText(Ids[p], N)) <= W

VARIABLES
    screen,
    puts,      \* number of keys and strings so far
    shown,     \* pid in the status bar, 0 before the first tick
    anchor,    \* ghost: where the cursor was when scanf was called
    astray,    \* ghost: since then something else was put on the screen
    wide       \* ghost: a row got more characters than it has columns

screenVars == <<screen, puts, shown, anchor, astray, wide>>
allVars == <<vars, screenVars>>

TerminalInit ==
    /\ Init
    /\ screen = BlankScreen
    /\ puts = 0 /\ shown = 0
    /\ anchor = 0 /\ astray = FALSE /\ wide = FALSE

\* Put a string on the screen; strayed says whether it is anything but the
\* echo of a character that is stored or taken back.
Puts(str, strayed) ==
    /\ puts < MaxPuts
    /\ puts' = puts + 1
    /\ screen' = print(screen, str)
    /\ wide' = (wide \/ Overruns(screen, str))
    /\ astray' = (astray \/ strayed \/ Overruns(screen, str))
    /\ UNCHANGED <<shown, anchor>>

TermShift(state) == Shift(state) /\ UNCHANGED screenVars
TermEnter == Enter /\ Puts(<<NL>>, TRUE)

\* Only a printable character shows as one position of the line.
TermKey(k) == Key(k) /\ Puts(<<Chr(k)>>, Chr(k) \notin Printable)

\* Backspace is echoed even if there is nothing to take back.
TermBackspace(k) == Backspace(k) /\ Puts(<<Chr(k)>>, curBuffIndex = 0)

\* Until an Enter has been noticed, keys are echoed and not stored.
KeyDropped(k) ==
    /\ enterPressed = 1
    /\ Puts(<<Chr(k)>>, TRUE)
    /\ UNCHANGED vars

\* A task prints.
TermPrint(str) == Puts(str, TRUE) /\ UNCHANGED vars

TermScanf(p, f, new) ==
    /\ Scanf(p, f, new)
    /\ anchor' = Cursor(screen)
    /\ astray' = FALSE
    /\ UNCHANGED <<screen, puts, shown, wide>>

TermEnterToMemory(p) == EnterToMemory(p) /\ UNCHANGED screenVars

\* timer_handler writes the status bar before it switches tasks.
TermTick ==
    /\ Tick
    /\ screen' = print_status_bar(screen, Ids[current_task], N)
    /\ shown' = Ids[current_task]
    /\ UNCHANGED <<puts, anchor, astray, wide>>

TerminalNext ==
    \/ \E state \in {0, 1} : TermShift(state)
    \/ TermEnter
    \/ \E k \in Keys : TermBackspace(k)
    \/ \E k \in Keys : TermKey(k)
    \/ \E k \in Keys : KeyDropped(k)
    \/ \E str \in Outputs : TermPrint(str)
    \/ \E p \in Proc, f \in Formats, new \in BOOLEAN : TermScanf(p, f, new)
    \/ \E p \in Proc : TermEnterToMemory(p)
    \/ TermTick

\* As in Input.
TerminalSpec ==
    /\ TerminalInit
    /\ [][TerminalNext]_allVars
    /\ WF_allVars(TermTick)
    /\ \A p \in Readers : SF_allVars(TermEnterToMemory(p))
-----------------------------------------------------------------------------
(* Properties.                                                             *)

\* While scanf reads and nothing but its line is put on the screen, the user
\* sees the line the program will get, from where the cursor was up to the
\* cursor, across key presses, Backspace and ticks of the timer.
EchoIsLine ==
    \A p \in Readers :
        format[p] # NoFormat /\ ~ ended /\ ~ astray =>
            /\ Cursor(screen) = anchor + Len(typed)
            /\ \A i \in DOMAIN typed : screen.at[anchor + i - 1] = typed[i]

\* What the texts of the tasks have at column c.
Leftovers(c) ==
    {StatusText(Ids[p], N)[c + 1] :
        p \in {q \in Proc : c < Len(StatusText(Ids[q], N))}}

\* The last row of the screen at column c when pid is shown: its text, blanks
\* up to where clear_line clears, and beyond that what a longer text left.
LastRow(pid, c) ==
    LET text == IF pid = 0 THEN << >> ELSE StatusText(pid, N)
    IN  IF c < Len(text) THEN {text[c + 1]}
        ELSE IF pid = 0 \/ c < CLEARED THEN {BLANK}
        ELSE {BLANK} \cup Leftovers(c)

\* As long as no row got more characters than it has columns, text never
\* touches the status bar: the cursor stays in the rows of text however often
\* they scroll, and the last row shows the task of the last tick.  Beyond the
\* text it is blank, except that past the columns clear_line clears (25 of a
\* text of 27 or more) the end of a longer text may stay, and then the last
\* number reads as one with more digits.
StatusIntact ==
    ~ wide =>
        /\ screen.y \in 0 .. (ROWS - 1)
        /\ \A c \in 0 .. (W - 1) : screen.at[ROWS * W + c] = BLANK
        /\ \A c \in 0 .. (W - 1) :
                screen.at[(ROWS + 1) * W + c] \in LastRow(shown, c)
=============================================================================
