------------------------------ MODULE Console ------------------------------
(***************************************************************************)
(* The screen of Deep OS: putc_with_attr and scroll (sys/putc.c), and the  *)
(* status bar the timer interrupt writes below the text                    *)
(* (sys/utilities.c).                                                      *)
(*                                                                         *)
(* A screen is a record: the characters of the video memory by offset, and *)
(* the cursor x_cord, y_cord.  Attributes (bold) and the clock at the end  *)
(* of the last row are left out.                                           *)
(***************************************************************************)
EXTENDS Integers, Sequences

CONSTANTS
    W,        \* columns: 80
    ROWS,     \* rows of text: 23; two more hold the status bar
    TAB,      \* distance of a tab: 8
    CLEARED   \* columns clear_line clears: 25

ASSUME ConsoleAssumption ==
    /\ W \in Nat \ {0} /\ ROWS \in Nat \ {0}
    /\ TAB \in 1 .. W
    /\ CLEARED \in 0 .. W

\* Characters are their codes.  A char is signed: 128 and above are negative.
BS == 8
HT == 9
NL == 10
BLANK == 32
Printable == BLANK .. 127
Offsets == 0 .. ((ROWS + 2) * W - 1)

Cursor(s) == s.y * W + s.x
BlankScreen == [at |-> [o \in Offsets |-> BLANK], x |-> 0, y |-> 0]

\* One character in the video memory; past its end nothing is visible.
Poke(at, o, c) == [p \in Offsets |-> IF p = o THEN c ELSE at[p]]

\* Seeded fault: the cell under the cursor is erased before the cursor moves.
BackspaceErasesHere(s) ==
    LET t == IF s.x > 0 THEN [s EXCEPT !.x = @ - 1]
             ELSE [s EXCEPT !.x = W - 1, !.y = IF @ > 0 THEN @ - 1 ELSE 0]
    IN  IF s.x = W - 1 THEN s ELSE [t EXCEPT !.at = Poke(@, Cursor(s), BLANK)]

\* Back one position, at the start of a row to the end of the row above.
Backspaced(s) ==
    LET x == IF s.x > 0 THEN s.x - 1 ELSE W - 1
        y == IF s.x > 0 THEN s.y ELSE IF s.y > 0 THEN s.y - 1 ELSE 0
    IN  [at |-> Poke(s.at, y * W + x, BLANK), x |-> x, y |-> y]

Tabbed(s) ==
    [at |-> s.at, x |-> (s.x + TAB) % W,
     y |-> IF s.x + TAB > W - 1 THEN s.y + 1 ELSE s.y]

\* A printable character.  x_cord grows past the last column: the text goes
\* on in the next row of the memory, and y_cord stays.
Printed(s, c) ==
    [at |-> Poke(s.at, Cursor(s), c), x |-> s.x + 1, y |-> s.y]

\* Seeded fault: the text may reach the first row of the status bar.
ScrollLate(s) ==
    IF s.y <= ROWS THEN s ELSE [s EXCEPT !.x = 0, !.y = ROWS]

scroll(s) ==
    IF s.y <= ROWS - 1 THEN s
    ELSE [at |-> [o \in Offsets |->
                    IF o < (ROWS - 1) * W THEN s.at[o + W]
                    ELSE IF o < ROWS * W THEN BLANK ELSE s.at[o]],
          x |-> 0, y |-> ROWS - 1]

\* Other characters below ' ', the negative ones among them, do nothing.
putc(s, c) ==
    scroll(IF c = BS THEN Backspaced(s)
           ELSE IF c = NL THEN [at |-> s.at, x |-> 0, y |-> s.y + 1]
           ELSE IF c = HT THEN Tabbed(s)
           ELSE IF c \in Printable THEN Printed(s, c)
           ELSE s)

\* The system call print, and sys_write, character by character:
\* screens(s, str)[k] is the screen s after the first k characters of str.
screens(s, str) ==
    LET after[k \in 0 .. Len(str)] ==
            IF k = 0 THEN s ELSE putc(after[k - 1], str[k])
    IN  after

print(s, str) == screens(s, str)[Len(str)]

\* A character of str is printed beyond the last column.
Overruns(s, str) ==
    \E k \in DOMAIN str : /\ screens(s, str)[k - 1].x >= W
                          /\ str[k] \in Printable

-----------------------------------------------------------------------------
\* The decimal digits of a number.
itoa(num) ==
    LET digits[n \in 0 .. num] ==
            IF n < 10 THEN <<48 + n>>
            ELSE digits[n \div 10] \o <<48 + (n % 10)>>
    IN  digits[num]

\* print_current_task: the running task and the number of tasks.  Of the two
\* labels the first letters, 'C' and 'N', are kept.
StatusText(pid, numtasks) ==
    <<67>> \o itoa(pid) \o <<78>> \o itoa(numtasks)

\* The cells clear_line blanks.
clear_line(line) == (line * W) .. (line * W + CLEARED - 1)

\* print_status_bar: clear_line(23), clear_line(24) and print_current_task.
print_status_bar(s, pid, numtasks) ==
    LET text == StatusText(pid, numtasks)
        last == (ROWS + 1) * W
    IN  [s EXCEPT !.at = [o \in Offsets |->
            IF o >= last /\ o - last < Len(text) THEN text[o - last + 1]
            ELSE IF o \in clear_line(ROWS) \cup clear_line(ROWS + 1) THEN BLANK
            ELSE s.at[o]]]
=============================================================================
