------------------------------- MODULE Input -------------------------------
(***************************************************************************)
(* Line input in Deep OS: the keyboard interrupt (sys/kb.c), the two       *)
(* system calls behind scanf (sscanfSystemCall and enterToMemory of        *)
(* sys/syscall.c, libc/scanf.c) and updateKeyPressEvent, which the timer   *)
(* interrupt calls (sys/timer.c).                                          *)
(*                                                                         *)
(* scanf passes the kernel the address of its variable keyPressed, spins   *)
(* in user mode until the variable is set, and then has the kernel copy    *)
(* the line.  A task that spins is READY, so the scheduler, which runs the *)
(* READY tasks round robin (module Tasks), comes back to it.  Each action  *)
(* is one interrupt or system call; all of them run with interrupts        *)
(* disabled.  Module Terminal adds the screen.                             *)
(***************************************************************************)
EXTENDS Integers, SequencesExt

CONSTANTS
    N,        \* number of READY tasks
    Readers,  \* the tasks that call scanf
    Keys,     \* scan codes other than those of left SHIFT and Enter
    kbdus,    \* kbdus[k]: the character of key k; 0 for Ctrl, Alt, arrows...
    shiftNums,  \* the characters with SHIFT of the keys that have one listed:
              \* the row of numbers and the cases of the switch
    BufSize   \* how many characters are typed at most: buff has 256

Proc == 0 .. (N - 1)
ASSUME InputAssumption ==
    /\ N \in Nat \ {0}
    /\ Readers \subseteq Proc
    /\ BufSize \in Nat \ {0}

Chars == 0 .. 255                  \* unsigned char
NUL == 0
BKSP == 8                          \* '\b'

ASSUME KeysAssumption ==
    /\ kbdus \in [Keys -> Chars]
    /\ DOMAIN shiftNums \subseteq Keys
    /\ \A k \in DOMAIN shiftNums : shiftNums[k] \in Chars

\* The character of a key with SHIFT.  What is not listed is 32 less, which
\* makes capitals of letters, NUL of Space and newline of the keypad's '*'.
Shifted(k) ==
    IF k \in DOMAIN shiftNums THEN shiftNums[k] ELSE (kbdus[k] - 32) % 256

NoFormat == ""
NoProc == -1
NewArray == [i \in 1 .. BufSize |-> NUL]
Formats == {"%s", "%c"}            \* "%d" goes through the same loop as "%s"

VARIABLES
    current_task,
    waiting_for_input,    \* field of each task
    enterPressed, keyPressedPtr,
    buff, curBuffIndex,
    SHIFT_PRESSED,
    keyPressed,           \* in user memory: the variable scanf spins on
    format,               \* format[p]: the conversion p spins in, or NoFormat
    result,               \* result[p]: the array p passes to scanf
    typed,                \* the line as typed since scanf was called
    ended,                \* TRUE: Enter was pressed since then
    late                  \* TRUE: a key was stored after the wake-up

kbdVars == <<buff, curBuffIndex, enterPressed, SHIFT_PRESSED>>
userVars == <<keyPressed, format, result>>
ghostVars == <<typed, ended, late>>
vars == <<current_task, waiting_for_input, keyPressedPtr, kbdVars, userVars,
          ghostVars>>

Init ==
    /\ current_task = 0
    /\ waiting_for_input = [p \in Proc |-> 0]
    /\ enterPressed = 0
    /\ keyPressedPtr = NoProc
    /\ buff = [i \in 0 .. (BufSize - 1) |-> NUL]
    /\ curBuffIndex = 0
    /\ SHIFT_PRESSED = 0
    /\ keyPressed = [p \in Proc |-> 0]
    /\ format = [p \in Proc |-> NoFormat]
    /\ result = [p \in Proc |-> NewArray]
    /\ typed = << >>
    /\ ended = FALSE
    /\ late = FALSE
-----------------------------------------------------------------------------
(* keyboard_handler.                                                       *)

Shift(state) ==
    /\ SHIFT_PRESSED' = state
    /\ UNCHANGED <<current_task, waiting_for_input, keyPressedPtr, buff,
                   curBuffIndex, enterPressed, userVars, ghostVars>>

Enter ==
    /\ enterPressed' = 1
    /\ ended' = TRUE
    /\ UNCHANGED <<current_task, waiting_for_input, keyPressedPtr, buff,
                   curBuffIndex, SHIFT_PRESSED, userVars, typed, late>>

\* Seeded fault: keys are stored after Enter too.
StoresAlways == late' = (late \/ (ended /\ enterPressed = 0))

\* A key is stored unless an Enter has not been noticed yet.  Ghosts: the
\* line typed ends with Enter; a key stored after the wake-up is late.
Stores ==
    /\ enterPressed = 0
    /\ late' = (late \/ ended)

\* pressedKey of keyboard_handler.
Chr(k) == IF SHIFT_PRESSED = 1 THEN Shifted(k) ELSE kbdus[k]

\* A key with the character Backspace; with SHIFT the key of that name is
\* 232, a character like others.
Backspace(k) ==
    /\ Chr(k) = BKSP
    /\ Stores
    /\ curBuffIndex' = IF curBuffIndex > 0 THEN curBuffIndex - 1 ELSE 0
    /\ buff' = [buff EXCEPT ![curBuffIndex'] = NUL]
    /\ typed' = IF ended \/ typed = << >> THEN typed
                ELSE SubSeq(typed, 1, Len(typed) - 1)
    /\ UNCHANGED <<current_task, waiting_for_input, keyPressedPtr,
                   enterPressed, SHIFT_PRESSED, userVars, ended>>

\* Every other character is stored, NUL too.  The code does not compare the
\* index with the size of buff.
Key(k) ==
    /\ Chr(k) # BKSP
    /\ Stores
    /\ curBuffIndex < BufSize
    /\ buff' = [buff EXCEPT ![curBuffIndex] = Chr(k)]
    /\ curBuffIndex' = curBuffIndex + 1
    /\ typed' = IF ended THEN typed ELSE Append(typed, Chr(k))
    /\ UNCHANGED <<current_task, waiting_for_input, keyPressedPtr,
                   enterPressed, SHIFT_PRESSED, userVars, ended>>
-----------------------------------------------------------------------------
(* scanf, run by current_task.                                             *)

\* Seeded fault: an Enter pressed before the call is not forgotten.
KeepsEnter(p, f, new) ==
    /\ current_task = p
    /\ p \in Readers
    /\ format[p] = NoFormat
    /\ format' = [format EXCEPT ![p] = f]
    /\ keyPressed' = [keyPressed EXCEPT ![p] = 0]
    /\ keyPressedPtr' = p
    /\ waiting_for_input' = [waiting_for_input EXCEPT ![p] = 1]
    /\ curBuffIndex' = 0
    /\ typed' = << >> /\ ended' = FALSE /\ late' = FALSE
    /\ result' = [result EXCEPT ![p] = IF new THEN NewArray ELSE @]
    /\ UNCHANGED <<current_task, buff, enterPressed, SHIFT_PRESSED>>

\* scanf clears keyPressed and calls sscanfSystemCall, which forgets what
\* was typed before.  The program passes a new array, or one it has used.
Scanf(p, f, new) ==
    /\ current_task = p
    /\ p \in Readers
    /\ format[p] = NoFormat
    /\ format' = [format EXCEPT ![p] = f]
    /\ keyPressed' = [keyPressed EXCEPT ![p] = 0]
    /\ keyPressedPtr' = p
    /\ waiting_for_input' = [waiting_for_input EXCEPT ![p] = 1]
    /\ enterPressed' = 0
    /\ curBuffIndex' = 0
    /\ typed' = << >> /\ ended' = FALSE /\ late' = FALSE
    /\ result' = [result EXCEPT ![p] = IF new THEN NewArray ELSE @]
    /\ UNCHANGED <<current_task, buff, SHIFT_PRESSED>>

\* Seeded fault: the copy stops one character early.
CopiesOneShort(p) ==
    /\ current_task = p
    /\ format[p] # NoFormat
    /\ keyPressed[p] = 1
    /\ result' = [result EXCEPT ![p] =
            [i \in 1 .. BufSize |-> IF i < curBuffIndex THEN buff[i - 1] ELSE @[i]]]
    /\ format' = [format EXCEPT ![p] = NoFormat]
    /\ UNCHANGED <<current_task, waiting_for_input, keyPressedPtr, kbdVars,
                   keyPressed, ghostVars>>

\* The spin ends and enterToMemory copies the line: "%s" the characters up
\* to curBuffIndex without a NUL after them, "%c" the first one, whatever the
\* index.
EnterToMemory(p) ==
    /\ current_task = p
    /\ format[p] # NoFormat
    /\ keyPressed[p] = 1
    /\ result' = [result EXCEPT ![p] =
            [i \in 1 .. BufSize |->
                IF i <= IF format[p] = "%c" THEN 1 ELSE curBuffIndex
                THEN buff[i - 1] ELSE @[i]]]
    /\ format' = [format EXCEPT ![p] = NoFormat]
    /\ UNCHANGED <<current_task, waiting_for_input, keyPressedPtr, kbdVars,
                   keyPressed, ghostVars>>

\* Seeded fault: the task that runs next is looked at.
WakesNextTask ==
    enterPressed = 1 /\ waiting_for_input[(current_task + 1) % N] = 1

\* updateKeyPressEvent has something to do.
Wakes == enterPressed = 1 /\ waiting_for_input[current_task] = 1

\* timer_handler.  keyPressedPtr is an address in the stack of the task that
\* called scanf last, but it is written in the address space of current_task;
\* there it can be a page of either task.
Tick ==
    /\ IF Wakes
       THEN /\ waiting_for_input' = [waiting_for_input EXCEPT ![current_task] = 0]
            /\ enterPressed' = 0
            /\ \E p \in {keyPressedPtr, current_task} :
                keyPressed' = [keyPressed EXCEPT ![p] = 1]
       ELSE UNCHANGED <<waiting_for_input, enterPressed, keyPressed>>
    /\ current_task' = (current_task + 1) % N
    /\ UNCHANGED <<keyPressedPtr, buff, curBuffIndex, SHIFT_PRESSED, format,
                   result, ghostVars>>

Next ==
    \/ \E state \in {0, 1} : Shift(state)
    \/ Enter
    \/ \E k \in Keys : Backspace(k)
    \/ \E k \in Keys : Key(k)
    \/ \E p \in Proc, f \in Formats, new \in BOOLEAN : Scanf(p, f, new)
    \/ \E p \in Proc : EnterToMemory(p)
    \/ Tick

\* The timer keeps interrupting, and a task that has the CPU again and again
\* gets to read the variable it spins on.
Fairness ==
    /\ WF_vars(Tick)
    /\ \A p \in Readers : SF_vars(EnterToMemory(p))

Spec == Init /\ [][Next]_vars /\ Fairness
-----------------------------------------------------------------------------
(* Properties, for one reader.                                             *)

\* Type invariant.
TypeOK ==
    /\ current_task \in Proc
    /\ waiting_for_input \in [Proc -> {0, 1}]
    /\ enterPressed \in {0, 1}
    /\ keyPressedPtr \in Proc \cup {NoProc}
    /\ buff \in [0 .. (BufSize - 1) -> Chars]
    /\ curBuffIndex \in 0 .. BufSize
    /\ SHIFT_PRESSED \in {0, 1}
    /\ keyPressed \in [Proc -> {0, 1}]
    /\ format \in [Proc -> Formats \cup {NoFormat}]

\* scanf is woken only by an Enter pressed after it was called; an Enter
\* pressed earlier, while the program did something else, does not end it.
WokenByEnter ==
    \A p \in Readers : format[p] # NoFormat /\ keyPressed[p] = 1 => ended

\* While scanf waits, the buffer holds the line as typed and edited since
\* scanf was called, and Enter freezes it: keys pressed between Enter and the
\* wake-up are not stored.
BufferIsLine ==
    \A p \in Readers :
        format[p] # NoFormat /\ ~ late =>
            [i \in 1 .. curBuffIndex |-> buff[i - 1]] = typed

\* What a program reads as a string: the characters before the first NUL.
StringIn(chars) ==
    LET nuls == {i \in DOMAIN chars : chars[i] = NUL}
    IN  SubSeq(chars, 1, Min(nuls \cup {Len(chars) + 1}) - 1)

\* "%s" stores every character that was typed up to Enter, unless a key
\* arrived between the wake-up by the timer and the copy.  The program reads
\* them up to the first NUL: a line with Shift+Space, Ctrl or an arrow key in
\* it is cut there, and a line without one is read whole.  A new array holds
\* nothing else; one that was used before may go on with the rest of a longer
\* line.
LineDelivered ==
    [][\A p \in Readers :
        EnterToMemory(p) /\ format[p] = "%s" /\ ~ late =>
            /\ \A i \in DOMAIN typed : result'[p][i] = typed[i]
            /\ IsPrefix(StringIn(typed), StringIn(result'[p]))
            /\ result[p] = NewArray \/ NUL \in Range(typed) =>
                    StringIn(result'[p]) = StringIn(typed)]_vars

\* After Enter a waiting scanf returns.
ScanfReturns ==
    \A p \in Readers :
        format[p] # NoFormat /\ enterPressed = 1 /\ waiting_for_input[p] = 1
            ~> format[p] = NoFormat
=============================================================================
