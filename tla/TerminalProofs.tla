--------------------------- MODULE TerminalProofs ---------------------------
(***************************************************************************)
(* Proofs about keyboard, scanf and screen: every step of Terminal is a    *)
(* step of Input, so what is proved of Input's steps holds of the terminal *)
(* too.                                                                    *)
(***************************************************************************)
EXTENDS Terminal, NatLemmas, SequenceTheorems, TLAPS

\* Type invariant of what the programs and the ghosts hold.
HistoryOK ==
    /\ result \in [Proc -> [1 .. BufSize -> Chars]]
    /\ typed \in Seq(Chars)
    /\ ended \in BOOLEAN /\ late \in BOOLEAN

\* An Enter the timer has not noticed yet was pressed after the last call of
\* scanf: sscanfSystemCall forgets the ones before.
EnterAfterCall == enterPressed = 1 => ended

\* BufferIsLine position by position, whether a task reads or not.
BufferHoldsTyped ==
    ~ late =>
        /\ Len(typed) = curBuffIndex
        /\ \A i \in 1 .. curBuffIndex : typed[i] = buff[i - 1]

\* The inductive invariant.
InputInv ==
    TypeOK /\ HistoryOK /\ EnterAfterCall /\ BufferHoldsTyped

-----------------------------------------------------------------------------
LEMMA ProcFacts ==
    /\ 0 \in Proc
    /\ \A p \in Proc : (p + 1) % N \in Proc
    /\ NoProc \notin Proc
    /\ Readers \subseteq Proc
<1>1. N \in Nat \ {0} /\ Readers \subseteq Proc  BY InputAssumption
<1>2. \A p \in Proc : (p + 1) % N \in 0 .. (N - 1)
    <2> TAKE p \in Proc
    <2>1. p + 1 \in Int  BY <1>1 DEF Proc
    <2>2. QED  BY <1>1, <2>1
<1>3. QED  BY <1>1, <1>2 DEF Proc, NoProc

LEMMA InitInput ==
    ASSUME Init
    PROVE  InputInv
<1>1. BufSize \in Nat \ {0}  BY InputAssumption
<1>2. TypeOK
    BY <1>1, ProcFacts DEF Init, TypeOK, Formats, NoProc
<1>3. HistoryOK
    <2>1. NewArray \in [1 .. BufSize -> Chars]  BY DEF NewArray, Chars, NUL
    <2>2. << >> \in Seq(Chars)  OBVIOUS
    <2>3. QED  BY <2>1, <2>2 DEF Init, HistoryOK
<1>4. EnterAfterCall  BY DEF Init, EnterAfterCall
<1>5. BufferHoldsTyped  BY DEF Init, BufferHoldsTyped
<1>6. QED  BY <1>2, <1>3, <1>4, <1>5 DEF InputInv

\* The character of a key is one of Chars.
LEMMA KeyChar ==
    ASSUME NEW k \in Keys
    PROVE  Chr(k) \in Chars
<1>1. kbdus[k] \in 0 .. 255  BY KeysAssumption DEF Chars
<1>2. (kbdus[k] - 32) % 256 \in 0 .. 255  BY <1>1
<1>3. Shifted(k) \in Chars  BY <1>2, KeysAssumption DEF Shifted, Chars
<1>4. QED  BY <1>1, <1>3 DEF Chr, Chars

LEMMA ShiftInput ==
    ASSUME InputInv, NEW state \in {0, 1}, Shift(state)
    PROVE  InputInv'
<1> USE DEF Shift, userVars, ghostVars
<1>1. TypeOK'  BY DEF InputInv, TypeOK
<1>2. HistoryOK'  BY DEF InputInv, HistoryOK
<1>3. EnterAfterCall'  BY DEF InputInv, EnterAfterCall
<1>4. BufferHoldsTyped'  BY DEF InputInv, BufferHoldsTyped
<1>5. QED  BY <1>1, <1>2, <1>3, <1>4 DEF InputInv

LEMMA EnterInput ==
    ASSUME InputInv, Enter
    PROVE  InputInv'
<1> USE DEF Enter, userVars
<1>1. TypeOK'  BY DEF InputInv, TypeOK
<1>2. HistoryOK'  BY DEF InputInv, HistoryOK
<1>3. EnterAfterCall'  BY DEF InputInv, EnterAfterCall
<1>4. BufferHoldsTyped'  BY DEF InputInv, BufferHoldsTyped
<1>5. QED  BY <1>1, <1>2, <1>3, <1>4 DEF InputInv

LEMMA BackspaceInput ==
    ASSUME InputInv, NEW k \in Keys, Backspace(k)
    PROVE  InputInv'
<1> USE DEF Backspace, Stores, userVars
<1>1. BufSize \in Nat \ {0}  BY InputAssumption
<1>2. /\ curBuffIndex \in Nat /\ curBuffIndex <= BufSize
      /\ curBuffIndex' \in 0 .. (BufSize - 1)
      /\ curBuffIndex > 0 => curBuffIndex' = curBuffIndex - 1
      /\ curBuffIndex = 0 => curBuffIndex' = 0
    BY <1>1 DEF InputInv, TypeOK
<1>3. /\ buff' \in [0 .. (BufSize - 1) -> Chars]
      /\ \A i \in 0 .. (BufSize - 1) : i # curBuffIndex' => buff'[i] = buff[i]
    BY <1>2 DEF InputInv, TypeOK, Chars, NUL
<1>4. TypeOK'  BY <1>1, <1>2, <1>3 DEF InputInv, TypeOK
<1>5. typed' \in Seq(Chars)
    BY DEF InputInv, HistoryOK
<1>6. HistoryOK'  BY <1>5 DEF InputInv, HistoryOK
<1>7. EnterAfterCall'  BY DEF InputInv, EnterAfterCall
<1>8. BufferHoldsTyped'
    <2> SUFFICES ASSUME ~ late'
                 PROVE  /\ Len(typed') = curBuffIndex'
                        /\ \A i \in 1 .. curBuffIndex' : typed'[i] = buff'[i - 1]
        BY DEF BufferHoldsTyped
    <2>1. ~ late /\ ~ ended  BY DEF InputInv, HistoryOK
    <2>2. /\ typed \in Seq(Chars) /\ Len(typed) = curBuffIndex
          /\ \A i \in 1 .. curBuffIndex : typed[i] = buff[i - 1]
        BY <2>1 DEF InputInv, HistoryOK, BufferHoldsTyped
    <2>3. CASE curBuffIndex = 0
        BY <1>2, <2>1, <2>2, <2>3
    <2>4. CASE curBuffIndex > 0
        <3>1. typed' = SubSeq(typed, 1, Len(typed) - 1)  BY <2>1, <2>2, <2>4
        <3>2. /\ Len(typed') = curBuffIndex - 1
              /\ \A i \in 1 .. (curBuffIndex - 1) : typed'[i] = typed[i]
            BY <1>2, <2>2, <2>4, <3>1
        <3>3. ASSUME NEW i \in 1 .. (curBuffIndex - 1)
              PROVE  typed'[i] = buff'[i - 1]
            <4>1. i - 1 \in 0 .. (BufSize - 1) /\ i - 1 # curBuffIndex'
                BY <1>1, <1>2, <2>4
            <4>2. i \in 1 .. curBuffIndex  BY <1>2
            <4>3. QED  BY <1>3, <2>2, <3>2, <4>1, <4>2
        <3>4. QED  BY <1>2, <2>4, <3>2, <3>3
    <2>5. QED  BY <1>2, <2>3, <2>4
<1>9. QED  BY <1>4, <1>6, <1>7, <1>8 DEF InputInv

LEMMA KeyInput ==
    ASSUME InputInv, NEW k \in Keys, Key(k)
    PROVE  InputInv'
<1> DEFINE ch == Chr(k)
<1>1. BufSize \in Nat \ {0}  BY InputAssumption
<1>2. ch \in Chars  BY KeyChar
<1>3. /\ Stores /\ curBuffIndex < BufSize
      /\ buff' = [buff EXCEPT ![curBuffIndex] = ch]
      /\ curBuffIndex' = curBuffIndex + 1
      /\ typed' = IF ended THEN typed ELSE Append(typed, ch)
      /\ UNCHANGED <<current_task, waiting_for_input, keyPressedPtr,
                     enterPressed, SHIFT_PRESSED, userVars, ended>>
    BY DEF Key
<1> HIDE DEF ch
<1> USE DEF Stores, userVars
<1>4. curBuffIndex \in 0 .. (BufSize - 1)  BY <1>1, <1>3 DEF InputInv, TypeOK
<1>5. /\ buff' \in [0 .. (BufSize - 1) -> Chars]
      /\ buff'[curBuffIndex] = ch
      /\ \A i \in 0 .. (BufSize - 1) : i # curBuffIndex => buff'[i] = buff[i]
    BY <1>2, <1>3, <1>4 DEF InputInv, TypeOK
<1>6. TypeOK'  BY <1>1, <1>3, <1>4, <1>5 DEF InputInv, TypeOK
<1>7. typed' \in Seq(Chars)  BY <1>2, <1>3 DEF InputInv, HistoryOK
<1>8. HistoryOK'  BY <1>3, <1>7 DEF InputInv, HistoryOK
<1>9. EnterAfterCall'  BY <1>3 DEF InputInv, EnterAfterCall
<1>10. BufferHoldsTyped'
    <2> SUFFICES ASSUME ~ late'
                 PROVE  /\ Len(typed') = curBuffIndex'
                        /\ \A i \in 1 .. curBuffIndex' : typed'[i] = buff'[i - 1]
        BY DEF BufferHoldsTyped
    <2>1. ~ late /\ ~ ended  BY <1>3 DEF InputInv, HistoryOK
    <2>2. /\ typed \in Seq(Chars) /\ Len(typed) = curBuffIndex
          /\ \A i \in 1 .. curBuffIndex : typed[i] = buff[i - 1]
        BY <2>1 DEF InputInv, HistoryOK, BufferHoldsTyped
    <2>3. typed' = Append(typed, ch)  BY <1>3, <2>1
    <2>4. /\ Len(typed') = curBuffIndex + 1
          /\ typed'[curBuffIndex + 1] = ch
          /\ \A i \in 1 .. curBuffIndex : typed'[i] = typed[i]
        BY <1>2, <2>2, <2>3
    <2>5. ASSUME NEW i \in 1 .. (curBuffIndex + 1)
          PROVE  typed'[i] = buff'[i - 1]
        <3>1. CASE i = curBuffIndex + 1  BY <1>4, <1>5, <2>4, <3>1
        <3>2. CASE i # curBuffIndex + 1
            <4>1. i \in 1 .. curBuffIndex /\ i - 1 \in 0 .. (BufSize - 1)
                  /\ i - 1 # curBuffIndex
                BY <1>1, <1>4, <3>2
            <4>2. QED  BY <1>5, <2>2, <2>4, <4>1
        <3>3. QED  BY <3>1, <3>2
    <2>6. QED  BY <1>3, <2>4, <2>5
<1>11. QED  BY <1>6, <1>8, <1>9, <1>10 DEF InputInv

LEMMA ScanfInput ==
    ASSUME InputInv, NEW p \in Proc, NEW f \in Formats, NEW new \in BOOLEAN,
           Scanf(p, f, new)
    PROVE  InputInv'
<1> USE DEF Scanf
<1>1. BufSize \in Nat \ {0}  BY InputAssumption
<1>2. TypeOK'  BY <1>1 DEF InputInv, TypeOK
<1>3. HistoryOK'
    <2>1. NewArray \in [1 .. BufSize -> Chars]  BY DEF NewArray, Chars, NUL
    <2>2. result' \in [Proc -> [1 .. BufSize -> Chars]]
        BY <2>1 DEF InputInv, HistoryOK
    <2>3. typed' \in Seq(Chars) /\ ended' = FALSE /\ late' = FALSE  OBVIOUS
    <2>4. QED  BY <2>2, <2>3 DEF HistoryOK
<1>4. EnterAfterCall'  BY DEF EnterAfterCall
<1>5. BufferHoldsTyped'  BY DEF BufferHoldsTyped
<1>6. QED  BY <1>2, <1>3, <1>4, <1>5 DEF InputInv

\* What enterToMemory copies are characters of the buffer.
LEMMA EnterToMemoryInput ==
    ASSUME InputInv, NEW p \in Proc, EnterToMemory(p)
    PROVE  InputInv'
<1> USE DEF EnterToMemory, kbdVars, ghostVars
<1>1. BufSize \in Nat \ {0}  BY InputAssumption
<1>2. TypeOK'  BY DEF InputInv, TypeOK
<1>3. ASSUME NEW i \in 1 .. BufSize
      PROVE  buff[i - 1] \in Chars
    <2>1. i - 1 \in 0 .. (BufSize - 1)  BY <1>1
    <2>2. QED  BY <2>1 DEF InputInv, TypeOK
<1>4. result' \in [Proc -> [1 .. BufSize -> Chars]]
    <2> DEFINE copied == [i \in 1 .. BufSize |->
                            IF i <= IF format[p] = "%c" THEN 1 ELSE curBuffIndex
                            THEN buff[i - 1] ELSE result[p][i]]
    <2>1. result' = [result EXCEPT ![p] = copied]  OBVIOUS
    <2>2. result \in [Proc -> [1 .. BufSize -> Chars]]
        BY DEF InputInv, HistoryOK
    <2>3. copied \in [1 .. BufSize -> Chars]  BY <1>3, <2>2
    <2> HIDE DEF copied
    <2>4. QED  BY <2>1, <2>2, <2>3
<1>5. HistoryOK'  BY <1>4 DEF InputInv, HistoryOK
<1>6. EnterAfterCall'  BY DEF InputInv, EnterAfterCall
<1>7. BufferHoldsTyped'  BY DEF InputInv, BufferHoldsTyped
<1>8. QED  BY <1>2, <1>5, <1>6, <1>7 DEF InputInv

LEMMA TickInput ==
    ASSUME InputInv, Tick
    PROVE  InputInv'
<1> USE DEF Tick, ghostVars
<1>1. current_task' \in Proc  BY ProcFacts DEF InputInv, TypeOK
<1>2. /\ waiting_for_input' \in [Proc -> {0, 1}]
      /\ enterPressed' \in {0, 1}
      /\ keyPressed' \in [Proc -> {0, 1}]
    <2>1. CASE Wakes  BY <2>1 DEF InputInv, TypeOK
    <2>2. CASE ~ Wakes  BY <2>2 DEF InputInv, TypeOK
    <2>3. QED  BY <2>1, <2>2
<1>3. TypeOK'  BY <1>1, <1>2 DEF InputInv, TypeOK
<1>4. HistoryOK'  BY DEF InputInv, HistoryOK
<1>5. EnterAfterCall'
    <2>1. enterPressed' = 0 \/ enterPressed' = enterPressed  OBVIOUS
    <2>2. QED  BY <2>1 DEF InputInv, EnterAfterCall
<1>6. BufferHoldsTyped'  BY DEF InputInv, BufferHoldsTyped
<1>7. QED  BY <1>3, <1>4, <1>5, <1>6 DEF InputInv

LEMMA StepInput ==
    ASSUME InputInv, [Next]_vars
    PROVE  InputInv'
<1>1. CASE UNCHANGED vars
    BY <1>1 DEF vars, kbdVars, userVars, ghostVars, InputInv, TypeOK, HistoryOK,
                EnterAfterCall, BufferHoldsTyped
<1>2. CASE Next
    BY <1>2, ShiftInput, EnterInput, BackspaceInput, KeyInput, ScanfInput,
       EnterToMemoryInput, TickInput DEF Next
<1>3. QED  BY <1>1, <1>2

-----------------------------------------------------------------------------
(* The terminal runs Input.                                                *)

\* Every step of the terminal is a step of Input, or changes the screen only.
LEMMA TerminalStep ==
    ASSUME [TerminalNext]_allVars
    PROVE  [Next]_vars
<1>1. CASE UNCHANGED allVars  BY <1>1 DEF allVars
<1>2. CASE \E state \in {0, 1} : TermShift(state)
    BY <1>2 DEF TermShift, Next
<1>3. CASE TermEnter  BY <1>3 DEF TermEnter, Next
<1>4. CASE \E k \in Keys : TermBackspace(k)  BY <1>4 DEF TermBackspace, Next
<1>5. CASE \E k \in Keys : TermKey(k)  BY <1>5 DEF TermKey, Next
<1>6. CASE \E k \in Keys : KeyDropped(k)  BY <1>6 DEF KeyDropped
<1>7. CASE \E str \in Outputs : TermPrint(str)  BY <1>7 DEF TermPrint
<1>8. CASE \E p \in Proc, f \in Formats, new \in BOOLEAN : TermScanf(p, f, new)
    BY <1>8 DEF TermScanf, Next
<1>9. CASE \E p \in Proc : TermEnterToMemory(p)
    BY <1>9 DEF TermEnterToMemory, Next
<1>10. CASE TermTick  BY <1>10 DEF TermTick, Next
<1>11. QED
    BY <1>1, <1>2, <1>3, <1>4, <1>5, <1>6, <1>7, <1>8, <1>9, <1>10
       DEF TerminalNext

LEMMA InputInvariant == TerminalSpec => []InputInv
<1>1. TerminalInit => InputInv  BY InitInput DEF TerminalInit
<1>2. InputInv /\ [TerminalNext]_allVars => InputInv'
    BY TerminalStep, StepInput
<1>3. QED  BY <1>1, <1>2, PTL DEF TerminalSpec

-----------------------------------------------------------------------------
(* The line scanf gets.                                                    *)

\* The inductive invariant says the same as BufferIsLine, position by
\* position.
LEMMA LineInBuffer ==
    ASSUME InputInv, ~ late
    PROVE  [i \in 1 .. curBuffIndex |-> buff[i - 1]] = typed
<1> DEFINE line == [i \in 1 .. curBuffIndex |-> buff[i - 1]]
<1>1. /\ typed \in Seq(Chars) /\ Len(typed) = curBuffIndex
      /\ \A i \in 1 .. curBuffIndex : typed[i] = buff[i - 1]
    BY DEF InputInv, HistoryOK, BufferHoldsTyped
<1>2. typed = [i \in 1 .. Len(typed) |-> typed[i]]  BY <1>1
<1>3. QED  BY <1>1, <1>2

\* The buffer is the line typed since scanf was called (the keyboard
\* interrupt and sscanfSystemCall), for any number of readers and keys and
\* any size of the buffer.
THEOREM BufferIsLineHolds == TerminalSpec => []BufferIsLine
<1>1. InputInv => BufferIsLine  BY LineInBuffer DEF BufferIsLine
<1>2. QED  BY <1>1, InputInvariant, PTL

\* A single task reads.  With two, the call of one forgets the Enter the
\* other was woken by.
OneReader == \A p, q \in Readers : p = q

LEMMA WokenStep ==
    ASSUME OneReader, InputInv, WokenByEnter, [Next]_vars
    PROVE  WokenByEnter'
<1> SUFFICES ASSUME NEW p \in Readers, format'[p] # NoFormat, keyPressed'[p] = 1
             PROVE  ended'
    BY DEF WokenByEnter
<1>1. p \in Proc  BY ProcFacts
<1>2. /\ format \in [Proc -> Formats \cup {NoFormat}]
      /\ keyPressed \in [Proc -> {0, 1}]
      /\ EnterAfterCall
    BY DEF InputInv, TypeOK
<1>3. CASE UNCHANGED <<format, keyPressed>> /\ (ended => ended')
    BY <1>3 DEF WokenByEnter
<1>4. CASE UNCHANGED vars
    BY <1>3, <1>4 DEF vars, userVars, ghostVars
<1>5. CASE \E state \in {0, 1} : Shift(state)
    BY <1>3, <1>5 DEF Shift, userVars, ghostVars
<1>6. CASE Enter  BY <1>6 DEF Enter
<1>7. CASE \E k \in Keys : Backspace(k)
    BY <1>3, <1>7 DEF Backspace, userVars
<1>8. CASE \E k \in Keys : Key(k)
    BY <1>3, <1>8 DEF Key, userVars
<1>9. ASSUME NEW q \in Proc, NEW f \in Formats, NEW new \in BOOLEAN,
             Scanf(q, f, new)
      PROVE  ended'
    <2>1. q = p  BY <1>9 DEF Scanf, OneReader
    <2>2. keyPressed'[p] = 0  BY <1>1, <1>2, <1>9, <2>1 DEF Scanf
    <2>3. QED  BY <2>2
<1>10. ASSUME NEW q \in Proc, EnterToMemory(q)
       PROVE  ended'
    <2>1. format[p] # NoFormat  BY <1>1, <1>2, <1>10 DEF EnterToMemory
    <2>2. QED  BY <1>10, <2>1 DEF EnterToMemory, ghostVars, WokenByEnter
<1>11. CASE Tick
    <2>1. UNCHANGED <<format, ended>>  BY <1>11 DEF Tick, ghostVars
    <2>2. CASE Wakes  BY <1>2, <2>1, <2>2 DEF Wakes, EnterAfterCall
    <2>3. CASE ~ Wakes  BY <1>3, <1>11, <2>1, <2>3 DEF Tick
    <2>4. QED  BY <2>2, <2>3
<1>12. QED
    BY <1>4, <1>5, <1>6, <1>7, <1>8, <1>9, <1>10, <1>11 DEF Next

\* scanf ends by an Enter pressed after it was called, never by an earlier
\* one, if one task reads at a time (sscanfSystemCall clears enterPressed and
\* keyPressed; updateKeyPressEvent sets keyPressed).
THEOREM WokenByEnterHolds ==
    ASSUME OneReader
    PROVE  TerminalSpec => []WokenByEnter
<1>1. TerminalInit => WokenByEnter
    BY ProcFacts DEF TerminalInit, Init, WokenByEnter
<1>2. InputInv /\ WokenByEnter /\ [TerminalNext]_allVars => WokenByEnter'
    BY OneReader, TerminalStep, WokenStep
<1>3. QED  BY <1>1, <1>2, InputInvariant, PTL DEF TerminalSpec

\* A string is what stands before position m, if m holds the first NUL or is
\* the position after the end.
LEMMA StringEnds ==
    ASSUME NEW a \in Seq(Chars)
    PROVE  \E m \in 1 .. (Len(a) + 1) :
              /\ StringIn(a) = SubSeq(a, 1, m - 1)
              /\ \A i \in 1 .. Len(a) : i < m => a[i] # NUL
              /\ m \in 1 .. Len(a) => a[m] = NUL
<1> DEFINE nuls == {i \in DOMAIN a : a[i] = NUL}
           ends == nuls \cup {Len(a) + 1}
<1>1. Len(a) \in Nat /\ DOMAIN a = 1 .. Len(a)  OBVIOUS
<1>2. ends \subseteq Nat /\ ends # {} /\ ends \subseteq 1 .. (Len(a) + 1)
    BY <1>1
<1>3. PICK m \in ends : \A i \in ends : m <= i
    <2> HIDE DEF ends
    <2>1. QED  BY <1>2, NatLeast
<1>4. Min(ends) = m
    <2>1. Min(ends) \in ends /\ \A i \in ends : Min(ends) <= i
        BY <1>3 DEF Min
    <2> HIDE DEF ends
    <2>2. Min(ends) \in Nat /\ m \in Nat /\ Min(ends) <= m /\ m <= Min(ends)
        BY <1>2, <1>3, <2>1
    <2>3. QED  BY <2>2
<1>5. \A i \in 1 .. Len(a) : i < m => a[i] # NUL
    BY <1>1, <1>2, <1>3
<1>6. m \in 1 .. Len(a) => a[m] = NUL  BY <1>1, <1>3
<1>7. StringIn(a) = SubSeq(a, 1, m - 1)  BY <1>4 DEF StringIn
<1>8. QED  BY <1>2, <1>3, <1>5, <1>6, <1>7

\* An array that starts with the characters of line holds the string of line,
\* and nothing else if line has a NUL or one follows it.
LEMMA StringCopied ==
    ASSUME NEW line \in Seq(Chars), NEW a \in Seq(Chars), Len(line) <= Len(a),
           \A i \in 1 .. Len(line) : a[i] = line[i]
    PROVE  /\ IsPrefix(StringIn(line), StringIn(a))
           /\ (\/ NUL \in Range(line)
               \/ Len(line) < Len(a) => a[Len(line) + 1] = NUL)
                => StringIn(a) = StringIn(line)
<1>1. Len(line) \in Nat /\ Len(a) \in Nat  OBVIOUS
<1>2. PICK m \in 1 .. (Len(a) + 1) :
              /\ StringIn(a) = SubSeq(a, 1, m - 1)
              /\ \A i \in 1 .. Len(a) : i < m => a[i] # NUL
              /\ m \in 1 .. Len(a) => a[m] = NUL
    BY StringEnds
<1>3. PICK k \in 1 .. (Len(line) + 1) :
              /\ StringIn(line) = SubSeq(line, 1, k - 1)
              /\ \A i \in 1 .. Len(line) : i < k => line[i] # NUL
              /\ k \in 1 .. Len(line) => line[k] = NUL
    BY StringEnds
<1>4. k <= m
    <2>1. CASE m < k
        <3>1. m \in 1 .. Len(line) /\ m \in 1 .. Len(a)  BY <1>1, <2>1
        <3>2. a[m] = NUL /\ line[m] # NUL /\ a[m] = line[m]
            BY <1>2, <1>3, <2>1, <3>1
        <3>3. QED  BY <3>2
    <2>2. QED  BY <1>1, <2>1
<1>5. SubSeq(line, 1, k - 1) = SubSeq(a, 1, k - 1)
    <2>1. SubSeq(line, 1, k - 1) = [i \in 1 .. (k - 1) |-> line[i]]
        BY <1>1
    <2>2. SubSeq(a, 1, k - 1) = [i \in 1 .. (k - 1) |-> a[i]]
        BY <1>1
    <2>3. \A i \in 1 .. (k - 1) : a[i] = line[i]  BY <1>1
    <2>4. QED  BY <2>1, <2>2, <2>3
<1>6. IsPrefix(StringIn(line), StringIn(a))
    <2> DEFINE s == SubSeq(a, 1, m - 1)
               t == SubSeq(a, 1, k - 1)
    <2>1. /\ s \in Seq(Chars) /\ Len(s) = m - 1
          /\ \A i \in 1 .. (m - 1) : s[i] = a[i]
        BY <1>1
    <2>2. /\ t \in Seq(Chars) /\ Len(t) = k - 1
          /\ \A i \in 1 .. (k - 1) : t[i] = a[i]
        BY <1>1
    <2> HIDE DEF s, t
    <2>3. Len(t) <= Len(s)  BY <1>1, <1>4, <2>1, <2>2
    <2>4. SubSeq(t, 1, Len(t)) = [i \in 1 .. (k - 1) |-> t[i]]
        BY <1>1, <2>2
    <2>5. SubSeq(s, 1, Len(t)) = [i \in 1 .. (k - 1) |-> s[i]]
        BY <1>1, <2>1, <2>2, <2>3
    <2>6. \A i \in 1 .. (k - 1) : s[i] = t[i]  BY <1>1, <1>4, <2>1, <2>2
    <2>7. IsPrefix(t, s)  BY <2>3, <2>4, <2>5, <2>6 DEF IsPrefix
    <2>8. QED  BY <1>2, <1>3, <1>5, <2>7 DEF s, t
<1>7. ASSUME \/ NUL \in Range(line)
             \/ Len(line) < Len(a) => a[Len(line) + 1] = NUL
      PROVE  StringIn(a) = StringIn(line)
    <2>1. CASE k \in 1 .. Len(line)
        <3>1. k \in 1 .. Len(a) /\ a[k] = NUL  BY <1>1, <1>3, <2>1
        <3>2. m = k  BY <1>1, <1>2, <1>4, <3>1
        <3>3. QED  BY <1>2, <1>3, <1>5, <3>2
    <2>2. CASE k = Len(line) + 1
        <3>1. NUL \notin Range(line)
            BY <1>1, <1>3, <2>2 DEF Range
        <3>2. CASE Len(line) < Len(a)
            <4>1. k \in 1 .. Len(a) /\ a[k] = NUL
                BY <1>1, <1>7, <2>2, <3>1, <3>2
            <4>2. m = k  BY <1>1, <1>2, <1>4, <4>1
            <4>3. QED  BY <1>2, <1>3, <1>5, <4>2
        <3>3. CASE Len(line) = Len(a)
            <4>1. m = k  BY <1>1, <1>4, <2>2, <3>3
            <4>2. QED  BY <1>2, <1>3, <1>5, <4>1
        <3>4. QED  BY <1>1, <3>2, <3>3
    <2>3. QED  BY <1>1, <2>1, <2>2
<1>8. QED  BY <1>6, <1>7

\* What LineDelivered says of one copy.
Delivered(p) ==
    /\ \A i \in DOMAIN typed : result'[p][i] = typed[i]
    /\ IsPrefix(StringIn(typed), StringIn(result'[p]))
    /\ result[p] = NewArray \/ NUL \in Range(typed) =>
            StringIn(result'[p]) = StringIn(typed)

\* enterToMemory hands over the line.
LEMMA CopyIsLine ==
    ASSUME InputInv, NEW p \in Proc, EnterToMemory(p), format[p] = "%s", ~ late
    PROVE  Delivered(p)
<1> DEFINE a == result'[p]
<1>1. BufSize \in Nat \ {0}  BY InputAssumption
<1>2. /\ typed \in Seq(Chars) /\ Len(typed) = curBuffIndex
      /\ curBuffIndex \in 0 .. BufSize
      /\ \A i \in 1 .. curBuffIndex : typed[i] = buff[i - 1]
      /\ result \in [Proc -> [1 .. BufSize -> Chars]]
    BY DEF InputInv, TypeOK, HistoryOK, BufferHoldsTyped
<1>3. a \in [1 .. BufSize -> Chars]
    <2>1. InputInv'  BY EnterToMemoryInput
    <2>2. QED  BY <2>1 DEF InputInv, HistoryOK
<1>4. ASSUME NEW i \in 1 .. BufSize
      PROVE  a[i] = IF i <= curBuffIndex THEN buff[i - 1] ELSE result[p][i]
    BY <1>2 DEF EnterToMemory
<1> HIDE DEF a
<1>5. \A i \in 1 .. curBuffIndex : a[i] = typed[i]
    <2> TAKE i \in 1 .. curBuffIndex
    <2>1. i \in 1 .. BufSize /\ i <= curBuffIndex  BY <1>1, <1>2
    <2>2. QED  BY <1>2, <1>4, <2>1
<1>6. a \in Seq(Chars) /\ Len(a) = BufSize  BY <1>1, <1>3
<1>7. ASSUME result[p] = NewArray, Len(typed) < Len(a)
      PROVE  a[Len(typed) + 1] = NUL
    <2>1. curBuffIndex + 1 \in 1 .. BufSize  BY <1>1, <1>2, <1>6, <1>7
    <2>2. QED  BY <1>2, <1>4, <1>7, <2>1 DEF NewArray
<1>8. /\ IsPrefix(StringIn(typed), StringIn(a))
      /\ result[p] = NewArray \/ NUL \in Range(typed) =>
            StringIn(a) = StringIn(typed)
    BY <1>1, <1>2, <1>5, <1>6, <1>7, StringCopied
<1>9. DOMAIN typed = 1 .. curBuffIndex  BY <1>2
<1>10. QED  BY <1>5, <1>8, <1>9 DEF a, Delivered

\* scanf("%s") gets every character typed up to Enter, read up to the first
\* NUL, unless a key arrived between the wake-up and the copy (enterToMemory
\* of sys/syscall.c), for every keyboard table and size of the buffer.
THEOREM LineDeliveredHolds == TerminalSpec => LineDelivered
<1> DEFINE Delivers ==
        \A p \in Readers :
            EnterToMemory(p) /\ format[p] = "%s" /\ ~ late => Delivered(p)
<1>1. InputInv /\ [TerminalNext]_allVars => [Delivers]_vars
    <2>1. InputInv => Delivers  BY ProcFacts, CopyIsLine
    <2>2. QED  BY <2>1
<1> HIDE DEF Delivers
<1>2. TerminalSpec => [][Delivers]_vars
    BY <1>1, InputInvariant, PTL DEF TerminalSpec
<1>3. QED  BY <1>2 DEF LineDelivered, Delivers, Delivered

-----------------------------------------------------------------------------
(* The screen.                                                             *)

\* A screen between two calls of putc, and one before scroll.
IsScreen(s) ==
    /\ s = [at |-> s.at, x |-> s.x, y |-> s.y]
    /\ s.x \in Nat /\ s.y \in 0 .. (ROWS - 1)
Unscrolled(s) ==
    /\ s = [at |-> s.at, x |-> s.x, y |-> s.y]
    /\ s.x \in Nat /\ s.y \in 0 .. ROWS

\* s and t show the same status bar.
SameBar(s, t) == \A o \in Offsets : o >= ROWS * W => t.at[o] = s.at[o]

\* Products of the constants, as the arithmetic of offsets needs them.
LEMMA Geometry ==
    /\ W \in Nat \ {0} /\ ROWS \in Nat \ {0}
    /\ ROWS * W \in Nat
    /\ (ROWS - 1) * W = ROWS * W - W
    /\ (ROWS + 1) * W = ROWS * W + W
    /\ (ROWS - 1) * W \in Nat
    /\ Offsets = 0 .. (ROWS * W + W + W - 1)
<1>1. W \in Nat \ {0} /\ ROWS \in Nat \ {0}  BY ConsoleAssumption
<1>2. ROWS * W \in Nat /\ (ROWS - 1) * W \in Nat  BY <1>1
<1>3. /\ (ROWS - 1) * W = ROWS * W - W
      /\ (ROWS + 1) * W = ROWS * W + W
      /\ (ROWS + 2) * W = ROWS * W + W + W
    BY <1>1
<1>4. QED  BY <1>1, <1>2, <1>3 DEF Offsets

\* A position of a row of text comes before the status bar.
LEMMA CellInText ==
    ASSUME NEW x \in Nat, x < W, NEW y \in 0 .. (ROWS - 1)
    PROVE  y * W + x \in 0 .. (ROWS * W - 1)
<1>1. W \in Nat \ {0} /\ ROWS \in Nat \ {0} /\ ROWS * W \in Nat  BY Geometry
<1>2. PICK d \in Nat : ROWS = y + 1 + d  BY <1>1, ROWS - y - 1 \in Nat
<1>3. ROWS * W = y * W + W + d * W  BY <1>1, <1>2
<1>4. d * W \in Nat /\ y * W \in Nat  BY <1>1
<1>5. QED  BY <1>1, <1>3, <1>4

\* scroll moves the rows of text up and leaves the status bar alone.
LEMMA ScrollScreen ==
    ASSUME NEW s, Unscrolled(s)
    PROVE  /\ IsScreen(scroll(s))
           /\ s.y <= ROWS - 1 => scroll(s) = s
           /\ s.x <= W => scroll(s).x <= W
           /\ SameBar(s, scroll(s))
<1>1. /\ W \in Nat \ {0} /\ ROWS \in Nat \ {0} /\ ROWS * W \in Nat
      /\ (ROWS - 1) * W = ROWS * W - W
      /\ Offsets = 0 .. (ROWS * W + W + W - 1)
    BY Geometry
<1>2. CASE s.y <= ROWS - 1
    <2>1. scroll(s) = s  BY <1>2 DEF scroll
    <2>2. IsScreen(s)  BY <1>1, <1>2 DEF IsScreen, Unscrolled
    <2>3. QED  BY <2>1, <2>2 DEF SameBar
<1>3. CASE ~ (s.y <= ROWS - 1)
    <2> DEFINE moved == [o \in Offsets |->
                    IF o < (ROWS - 1) * W THEN s.at[o + W]
                    ELSE IF o < ROWS * W THEN BLANK ELSE s.at[o]]
    <2>1. scroll(s) = [at |-> moved, x |-> 0, y |-> ROWS - 1]
        BY <1>3 DEF scroll
    <2>2. \A o \in Offsets : o >= ROWS * W => moved[o] = s.at[o]
        BY <1>1
    <2> HIDE DEF moved
    <2>3. ROWS - 1 \in 0 .. (ROWS - 1) /\ 0 <= W  BY <1>1
    <2>4. QED  BY <1>3, <2>1, <2>2, <2>3 DEF IsScreen, SameBar
<1>4. QED  BY <1>2, <1>3

\* Backspace: where the cursor goes, and that only the cell under it is
\* erased.
LEMMA BackspacedScreen ==
    ASSUME NEW s, IsScreen(s)
    PROVE  /\ IsScreen(Backspaced(s))
           /\ s.x <= W => Backspaced(s).x < W
           /\ Cursor(s) > 0 => Cursor(Backspaced(s)) = Cursor(s) - 1
           /\ \A p \in Offsets : p # Cursor(Backspaced(s)) =>
                Backspaced(s).at[p] = s.at[p]
<1> DEFINE x == IF s.x > 0 THEN s.x - 1 ELSE W - 1
           y == IF s.x > 0 THEN s.y ELSE IF s.y > 0 THEN s.y - 1 ELSE 0
<1>1. W \in Nat \ {0} /\ ROWS \in Nat \ {0}  BY Geometry
<1>2. s.x \in Nat /\ s.y \in 0 .. (ROWS - 1)  BY DEF IsScreen
<1>3. /\ x \in Nat /\ y \in 0 .. (ROWS - 1)
      /\ s.x > 0 => x = s.x - 1 /\ y = s.y
      /\ s.x = 0 => x = W - 1
      /\ s.x = 0 /\ s.y > 0 => y = s.y - 1
    BY <1>1, <1>2
<1>4. Backspaced(s) = [at |-> Poke(s.at, y * W + x, BLANK), x |-> x, y |-> y]
    BY DEF Backspaced
<1> HIDE DEF x, y
<1>5. Cursor(Backspaced(s)) = y * W + x  BY <1>4 DEF Cursor
<1>6. Cursor(s) > 0 => y * W + x = Cursor(s) - 1
    <2>1. CASE s.x > 0
        <3>1. s.y * W \in Nat  BY <1>1, <1>2
        <3>2. QED  BY <1>2, <1>3, <2>1, <3>1 DEF Cursor
    <2>2. CASE s.x = 0 /\ s.y > 0
        <3>1. (s.y - 1) * W = s.y * W - W /\ s.y * W \in Nat  BY <1>1, <1>2
        <3>2. QED  BY <1>1, <1>2, <1>3, <2>2, <3>1 DEF Cursor
    <2>3. CASE s.x = 0 /\ s.y = 0
        BY <1>1, <2>3 DEF Cursor
    <2>4. QED  BY <1>2, <2>1, <2>2, <2>3
<1>7. IsScreen(Backspaced(s))  BY <1>3, <1>4 DEF IsScreen
<1>8. s.x <= W => Backspaced(s).x < W  BY <1>1, <1>2, <1>3, <1>4
<1>9. \A p \in Offsets : p # y * W + x => Backspaced(s).at[p] = s.at[p]
    BY <1>4 DEF Poke
<1>10. QED  BY <1>5, <1>6, <1>7, <1>8, <1>9

\* c is not printed beyond the last column of s.
Fits(s, c) == s.x < W \/ c \notin Printable

\* One character on the screen.  If it is not printed beyond the last column,
\* the status bar keeps its cells.
LEMMA PutcScreen ==
    ASSUME NEW s, IsScreen(s), NEW c
    PROVE  /\ IsScreen(putc(s, c))
           /\ s.x <= W /\ Fits(s, c) => putc(s, c).x <= W /\ SameBar(s, putc(s, c))
<1> DEFINE Good(t) ==
        /\ Unscrolled(t)
        /\ s.x <= W /\ Fits(s, c) => t.x <= W /\ SameBar(s, t)
<1>1. /\ W \in Nat \ {0} /\ ROWS \in Nat \ {0} /\ ROWS * W \in Nat
      /\ Offsets = 0 .. (ROWS * W + W + W - 1)
    BY Geometry
<1>2. s.x \in Nat /\ s.y \in 0 .. (ROWS - 1)  BY DEF IsScreen
<1>3. s.y \in 0 .. ROWS /\ s.y + 1 \in 0 .. ROWS /\ s.x + 1 \in Nat  BY <1>1, <1>2
<1>4. ASSUME NEW t, Good(t), putc(s, c) = scroll(t)
      PROVE  /\ IsScreen(putc(s, c))
             /\ s.x <= W /\ Fits(s, c) =>
                    putc(s, c).x <= W /\ SameBar(s, putc(s, c))
    <2>1. IsScreen(scroll(t)) /\ SameBar(t, scroll(t))
          /\ (t.x <= W => scroll(t).x <= W)
        BY <1>4, ScrollScreen
    <2>2. QED  BY <1>4, <2>1 DEF SameBar
<1>5. CASE c = BS
    <2> DEFINE t == Backspaced(s)
    <2>1. putc(s, c) = scroll(t)  BY <1>5 DEF putc
    <2> HIDE DEF t
    <2>2. /\ IsScreen(t) /\ (s.x <= W => t.x < W)
          /\ \A p \in Offsets : p # Cursor(t) => t.at[p] = s.at[p]
        BY BackspacedScreen DEF t
    <2>3. Unscrolled(t)  BY <1>1, <2>2 DEF IsScreen, Unscrolled
    <2>4. ASSUME s.x <= W
          PROVE  t.x <= W /\ SameBar(s, t)
        <3>1. t.x \in Nat /\ t.y \in 0 .. (ROWS - 1) /\ t.x < W
            BY <2>2, <2>4 DEF IsScreen
        <3>2. Cursor(t) \in 0 .. (ROWS * W - 1)
            BY <3>1, CellInText DEF Cursor
        <3>3. \A o \in Offsets : o >= ROWS * W => o # Cursor(t)
            BY <1>1, <3>2
        <3>4. QED  BY <1>1, <2>2, <3>1, <3>3 DEF SameBar
    <2>5. Good(t)  BY <2>3, <2>4
    <2> HIDE DEF Good
    <2>6. QED  BY <1>4, <2>1, <2>5
<1>6. CASE c # BS /\ c = NL
    <2> DEFINE t == [at |-> s.at, x |-> 0, y |-> s.y + 1]
    <2>1. putc(s, c) = scroll(t)  BY <1>6 DEF putc
    <2>2. Good(t)  BY <1>1, <1>3 DEF Unscrolled, SameBar
    <2> HIDE DEF t, Good
    <2>3. QED  BY <1>4, <2>1, <2>2
<1>7. CASE c # BS /\ c # NL /\ c = HT
    <2> DEFINE t == Tabbed(s)
    <2>1. putc(s, c) = scroll(t)  BY <1>7 DEF putc
    <2>2. (s.x + TAB) % W \in 0 .. (W - 1)
        <3>1. s.x + TAB \in Int  BY <1>1, <1>2, ConsoleAssumption
        <3>2. QED  BY <1>1, <3>1
    <2>3. /\ t = [at |-> s.at, x |-> t.x, y |-> t.y]
          /\ t.x = (s.x + TAB) % W /\ t.y \in {s.y, s.y + 1} /\ t.at = s.at
        BY DEF Tabbed
    <2> HIDE DEF t
    <2>4. t.x <= W /\ t.x \in Nat /\ t.y \in 0 .. ROWS
        BY <1>1, <1>3, <2>2, <2>3
    <2>5. Good(t)  BY <2>3, <2>4 DEF Unscrolled, SameBar
    <2> HIDE DEF Good
    <2>6. QED  BY <1>4, <2>1, <2>5
<1>8. CASE c \notin {BS, NL, HT} /\ c \notin Printable
    <2>1. putc(s, c) = scroll(s)  BY <1>8 DEF putc
    <2>2. Good(s)  BY <1>3 DEF IsScreen, Unscrolled, SameBar
    <2> HIDE DEF Good
    <2>3. QED  BY <1>4, <2>1, <2>2
<1>9. CASE c \notin {BS, NL, HT} /\ c \in Printable
    <2> DEFINE t == Printed(s, c)
    <2>1. putc(s, c) = scroll(t)  BY <1>9 DEF putc
    <2>2. t = [at |-> Poke(s.at, Cursor(s), c), x |-> s.x + 1, y |-> s.y]
        BY DEF Printed
    <2> HIDE DEF t
    <2>3. Unscrolled(t)  BY <1>3, <2>2 DEF Unscrolled
    <2>4. ASSUME s.x < W
          PROVE  t.x <= W /\ SameBar(s, t)
        <3>1. Cursor(s) \in 0 .. (ROWS * W - 1)
            BY <1>2, <2>4, CellInText DEF Cursor
        <3>2. \A o \in Offsets : o >= ROWS * W => o # Cursor(s)
            BY <1>1, <3>1
        <3>3. t.x <= W  BY <1>1, <1>2, <2>2, <2>4
        <3>4. QED  BY <2>2, <3>2, <3>3 DEF Poke, SameBar
    <2>5. Good(t)  BY <1>9, <2>3, <2>4 DEF Fits
    <2> HIDE DEF Good
    <2>6. QED  BY <1>4, <2>1, <2>5
<1>10. QED  BY <1>5, <1>6, <1>7, <1>8, <1>9

\* The recursion of print is well defined.
LEMMA ScreensDef ==
    ASSUME NEW T, NEW s, NEW str \in Seq(T)
    PROVE  /\ screens(s, str)[0] = s
           /\ \A k \in 1 .. Len(str) :
                screens(s, str)[k] = putc(screens(s, str)[k - 1], str[k])
<1> DEFINE Runs(f, n) == f = [k \in 0 .. n |->
                                IF k = 0 THEN s ELSE putc(f[k - 1], str[k])]
           bad == {n \in 0 .. Len(str) : ~ \E f : Runs(f, n)}
<1>1. Len(str) \in Nat  OBVIOUS
<1>2. bad = {}
    <2> SUFFICES ASSUME bad # {}
                 PROVE  FALSE
        OBVIOUS
    <2>1. PICK n \in bad : \A m \in bad : n <= m
        <3>1. bad \subseteq Nat  BY <1>1
        <3> HIDE DEF bad
        <3>2. QED  BY <3>1, NatLeast
    <2>2. CASE n = 0
        <3> DEFINE f == [k \in 0 .. 0 |-> s]
        <3>1. Runs(f, 0)  OBVIOUS
        <3> HIDE DEF f, Runs
        <3>2. QED  BY <2>1, <2>2, <3>1
    <2>3. CASE n # 0
        <3>1. n \in Nat /\ n - 1 \in 0 .. Len(str) /\ n - 1 \notin bad
            <4>1. n \in 0 .. Len(str)  BY <2>1
            <4> HIDE DEF bad
            <4>2. QED  BY <1>1, <2>1, <2>3, <4>1
        <3>2. PICK f : Runs(f, n - 1)
            <4> HIDE DEF Runs
            <4>1. QED  BY <3>1
        <3> DEFINE g == [k \in 0 .. n |-> IF k <= n - 1 THEN f[k]
                                          ELSE putc(f[n - 1], str[n])]
        <3>3. ASSUME NEW k \in 0 .. n
              PROVE  g[k] = IF k = 0 THEN s ELSE putc(g[k - 1], str[k])
            <4>1. CASE k = 0
                <5>1. k \in 0 .. (n - 1) /\ k <= n - 1  BY <2>3, <3>1, <4>1
                <5>2. QED  BY <3>2, <4>1, <5>1
            <4>2. CASE k # 0 /\ k <= n - 1
                <5>1. k \in 0 .. (n - 1) /\ k - 1 \in 0 .. n /\ k - 1 <= n - 1
                    BY <3>1, <4>2
                <5>2. g[k] = f[k] /\ g[k - 1] = f[k - 1]  BY <4>2, <5>1
                <5>3. QED  BY <3>2, <4>2, <5>1, <5>2
            <4>3. CASE k = n
                <5>1. g[k] = putc(f[n - 1], str[n])  BY <3>1, <4>3
                <5>2. n - 1 \in 0 .. n /\ n - 1 <= n - 1  BY <2>3, <3>1
                <5>3. g[n - 1] = f[n - 1]  BY <5>2
                <5>4. QED  BY <2>3, <4>3, <5>1, <5>3
            <4>4. QED  BY <3>1, <4>1, <4>2, <4>3
        <3>4. g = [k \in 0 .. n |-> g[k]]  OBVIOUS
        <3> HIDE DEF g
        <3>5. Runs(g, n)  BY <3>3, <3>4
        <3> HIDE DEF Runs
        <3>6. QED  BY <2>1, <3>5
    <2>4. QED  BY <2>2, <2>3
<1>3. \E f : Runs(f, Len(str))  BY <1>1, <1>2
<1>4. Runs(screens(s, str), Len(str))
    <2>1. screens(s, str) = CHOOSE f : Runs(f, Len(str))  BY DEF screens
    <2> HIDE DEF Runs
    <2>2. QED  BY <1>3, <2>1
<1>5. QED  BY <1>1, <1>4

\* A string on the screen, as PutcScreen says it of a character.
LEMMA PrintScreen ==
    ASSUME NEW T, NEW s, IsScreen(s), NEW str \in Seq(T)
    PROVE  /\ IsScreen(print(s, str))
           /\ s.x <= W /\ ~ Overruns(s, str) =>
                print(s, str).x <= W /\ SameBar(s, print(s, str))
<1> DEFINE f == screens(s, str)
           Good(k) == /\ IsScreen(f[k])
                      /\ s.x <= W /\ ~ Overruns(s, str) =>
                            f[k].x <= W /\ SameBar(s, f[k])
           bad == {k \in 0 .. Len(str) : ~ Good(k)}
<1>1. Len(str) \in Nat /\ DOMAIN str = 1 .. Len(str)  OBVIOUS
<1>2. f[0] = s /\ \A k \in 1 .. Len(str) : f[k] = putc(f[k - 1], str[k])
    BY ScreensDef
<1>3. Overruns(s, str) <=>
        \E k \in DOMAIN str : /\ f[k - 1].x >= W
                              /\ str[k] \in Printable
    BY DEF Overruns
<1>4. print(s, str) = f[Len(str)]  BY DEF print
<1> HIDE DEF f
<1>5. bad = {}
    <2> SUFFICES ASSUME bad # {}
                 PROVE  FALSE
        OBVIOUS
    <2>1. PICK k \in bad : \A m \in bad : k <= m
        <3>1. bad \subseteq Nat  BY <1>1
        <3> HIDE DEF bad
        <3>2. QED  BY <3>1, NatLeast
    <2>2. CASE k = 0
        <3>1. Good(0)  BY <1>2 DEF SameBar
        <3> HIDE DEF Good
        <3>2. QED  BY <2>1, <2>2, <3>1
    <2>3. CASE k # 0
        <3>1. k \in 1 .. Len(str) /\ k - 1 \in 0 .. Len(str) /\ k - 1 \notin bad
            BY <1>1, <2>1, <2>3
        <3>2. Good(k - 1)  BY <3>1
        <3>3. f[k] = putc(f[k - 1], str[k])  BY <1>2, <3>1
        <3>4. IsScreen(f[k])  BY <3>2, <3>3, PutcScreen
        <3>5. ASSUME s.x <= W, ~ Overruns(s, str)
              PROVE  f[k].x <= W /\ SameBar(s, f[k])
            <4>1. f[k - 1].x \in Nat /\ W \in Nat  BY <3>2, Geometry DEF IsScreen
            <4>2. Fits(f[k - 1], str[k])  BY <1>1, <1>3, <3>1, <3>5, <4>1 DEF Fits
            <4>3. f[k].x <= W /\ SameBar(f[k - 1], f[k])
                BY <3>2, <3>3, <3>5, <4>2, PutcScreen
            <4>4. QED  BY <3>2, <3>5, <4>3 DEF SameBar
        <3>6. Good(k)  BY <3>4, <3>5
        <3> HIDE DEF Good
        <3>7. QED  BY <2>1, <3>6
    <2>4. QED  BY <2>2, <2>3
<1>6. Good(Len(str))  BY <1>1, <1>5
<1>7. QED  BY <1>4, <1>6

\* A string of one character is one call of putc.
LEMMA PrintOne ==
    ASSUME NEW s, IsScreen(s), NEW c
    PROVE  print(s, <<c>>) = putc(s, c) /\ (~ Overruns(s, <<c>>) => Fits(s, c))
<1> DEFINE str == <<c>>
           f == screens(s, str)
<1>1. str \in Seq({c}) /\ Len(str) = 1 /\ str[1] = c /\ DOMAIN str = {1}
    OBVIOUS
<1> HIDE DEF str
<1>2. f[0] = s /\ \A k \in 1 .. Len(str) : f[k] = putc(f[k - 1], str[k])
    BY <1>1, ScreensDef
<1>3. f[1] = putc(s, c)  BY <1>1, <1>2
<1>4. Overruns(s, str) <=> s.x >= W /\ c \in Printable
    BY <1>1, <1>2 DEF Overruns
<1>5. s.x \in Nat /\ W \in Nat  BY Geometry DEF IsScreen
<1>6. QED  BY <1>1, <1>3, <1>4, <1>5 DEF print, Fits, str

-----------------------------------------------------------------------------
(* The status bar.                                                         *)

\* What print_current_task writes.
Glyphs == Nat

LEMMA OneGlyph ==
    ASSUME NEW g \in Glyphs
    PROVE  <<g>> \in Seq(Glyphs)
OBVIOUS

\* itoa gives a sequence of digits: its recursion is well defined, and every
\* value of it is a sequence.
LEMMA ItoaDigits ==
    ASSUME NEW num \in Nat
    PROVE  itoa(num) \in Seq(Glyphs)
<1> DEFINE Runs(f, n) == f = [m \in 0 .. n |->
                IF m < 10 THEN <<48 + m>> ELSE f[m \div 10] \o <<48 + (m % 10)>>]
           bad == {n \in 0 .. num : ~ \E f : Runs(f, n)}
<1>1. \A m \in Nat : m >= 10 => m \div 10 \in 0 .. (m - 1) /\ m % 10 \in Nat
    OBVIOUS
<1>2. bad = {}
    <2> SUFFICES ASSUME bad # {}
                 PROVE  FALSE
        OBVIOUS
    <2>1. PICK n \in bad : \A m \in bad : n <= m
        <3>1. bad \subseteq Nat  OBVIOUS
        <3> HIDE DEF bad
        <3>2. QED  BY <3>1, NatLeast
    <2>2. CASE n = 0
        <3> DEFINE f == [m \in 0 .. 0 |-> <<48 + m>>]
        <3>1. Runs(f, 0)  OBVIOUS
        <3> HIDE DEF f, Runs
        <3>2. QED  BY <2>1, <2>2, <3>1
    <2>3. CASE n # 0
        <3>1. n \in Nat /\ n - 1 \in 0 .. num /\ n - 1 \notin bad
            <4>1. n \in 0 .. num  BY <2>1
            <4> HIDE DEF bad
            <4>2. QED  BY <2>1, <2>3, <4>1
        <3>2. PICK f : Runs(f, n - 1)
            <4> HIDE DEF Runs
            <4>1. QED  BY <3>1
        <3> DEFINE last == IF n < 10 THEN <<48 + n>> ELSE f[n \div 10] \o <<48 + (n % 10)>>
                   g == [m \in 0 .. n |-> IF m <= n - 1 THEN f[m] ELSE last]
        <3>3. ASSUME NEW m \in 0 .. n
              PROVE  g[m] = IF m < 10 THEN <<48 + m>> ELSE g[m \div 10] \o <<48 + (m % 10)>>
            <4>1. m \in Nat /\ (m >= 10 => m \div 10 \in 0 .. (m - 1))
                BY <1>1
            <4>2. m >= 10 => m \div 10 \in 0 .. n /\ m \div 10 <= n - 1
                BY <3>1, <4>1
            <4>3. m >= 10 => g[m \div 10] = f[m \div 10]  BY <4>2
            <4>4. CASE m <= n - 1
                <5>1. m \in 0 .. (n - 1) /\ g[m] = f[m]  BY <3>1, <4>4
                <5>2. f[m] = IF m < 10 THEN <<48 + m>> ELSE f[m \div 10] \o <<48 + (m % 10)>>
                    BY <3>2, <5>1
                <5> HIDE DEF g
                <5>3. QED  BY <4>1, <4>3, <5>1, <5>2
            <4>5. CASE m = n
                <5>1. g[m] = last  BY <3>1, <4>5
                <5> HIDE DEF g
                <5>2. QED  BY <3>1, <4>3, <4>5, <5>1
            <4>6. QED  BY <3>1, <4>4, <4>5
        <3>4. g = [m \in 0 .. n |-> g[m]]  OBVIOUS
        <3> HIDE DEF g
        <3>5. Runs(g, n)  BY <3>3, <3>4
        <3> HIDE DEF Runs
        <3>6. QED  BY <2>1, <3>5
    <2>4. QED  BY <2>2, <2>3
<1>3. \E f : Runs(f, num)
    <2> HIDE DEF Runs
    <2>1. QED  BY <1>2
<1> DEFINE digits == CHOOSE f : Runs(f, num)
<1>4. itoa(num) = digits[num]  BY DEF itoa
<1>5. Runs(digits, num)
    <2> HIDE DEF Runs
    <2>1. QED  BY <1>3
<1> HIDE DEF digits
<1>6. \A m \in 0 .. num : digits[m] \in Seq(Glyphs)
    <2> DEFINE odd == {m \in 0 .. num : digits[m] \notin Seq(Glyphs)}
    <2> SUFFICES ASSUME odd # {}
                 PROVE  FALSE
        OBVIOUS
    <2>1. PICK m \in odd : \A k \in odd : m <= k
        <3>1. odd \subseteq Nat  OBVIOUS
        <3> HIDE DEF odd
        <3>2. QED  BY <3>1, NatLeast
    <2>2. digits[m] = IF m < 10 THEN <<48 + m>> ELSE digits[m \div 10] \o <<48 + (m % 10)>>
        BY <1>5
    <2>3. m \in Nat  OBVIOUS
    <2>4. CASE m < 10
        <3>1. digits[m] = <<48 + m>>  BY <2>2, <2>4
        <3>2. <<48 + m>> \in Seq(Glyphs)  BY <2>3, OneGlyph DEF Glyphs
        <3>3. QED  BY <3>1, <3>2
    <2>5. CASE m >= 10
        <3>1. m \div 10 \in 0 .. (m - 1) /\ m % 10 \in Nat  BY <1>1, <2>3, <2>5
        <3>2. digits[m \div 10] \in Seq(Glyphs)  BY <2>1, <2>3, <3>1
        <3>3. <<48 + (m % 10)>> \in Seq(Glyphs)  BY <3>1, OneGlyph DEF Glyphs
        <3>4. digits[m] = digits[m \div 10] \o <<48 + (m % 10)>>  BY <2>2, <2>3, <2>5
        <3>5. QED  BY <3>2, <3>3, <3>4, ConcatProperties
    <2>6. QED  BY <2>3, <2>4, <2>5
<1>7. QED  BY <1>4, <1>6

\* The text of the status bar is a sequence.
LEMMA StatusTextSeq ==
    ASSUME NEW pid \in Nat
    PROVE  /\ Len(StatusText(pid, N)) \in Nat
           /\ DOMAIN StatusText(pid, N) = 1 .. Len(StatusText(pid, N))
<1>1. itoa(pid) \in Seq(Glyphs) /\ itoa(N) \in Seq(Glyphs)
    BY ItoaDigits, InputAssumption
<1>2. <<67>> \in Seq(Glyphs) /\ <<78>> \in Seq(Glyphs)
    BY OneGlyph DEF Glyphs
<1>3. <<67>> \o itoa(pid) \in Seq(Glyphs)
    BY <1>1, <1>2, ConcatProperties
<1>4. <<67>> \o itoa(pid) \o <<78>> \in Seq(Glyphs)
    BY <1>2, <1>3, ConcatProperties
<1>5. StatusText(pid, N) \in Seq(Glyphs)
    BY <1>1, <1>4, ConcatProperties DEF StatusText
<1>6. QED  BY <1>5

\* The two rows of the status bar as StatusIntact describes them: a blank row
\* and the text with the pid of the task of the last tick.
Bar(s, pid) ==
    /\ \A c \in 0 .. (W - 1) : s.at[ROWS * W + c] = BLANK
    /\ \A c \in 0 .. (W - 1) : s.at[(ROWS + 1) * W + c] \in LastRow(pid, c)

\* The pid shown is one of Ids, so its text fits.
Shown(pid) == pid # 0 => \E p \in Proc : pid = Ids[p]

LEMMA BarKept ==
    ASSUME NEW s, NEW t, SameBar(s, t), NEW pid, Bar(s, pid)
    PROVE  Bar(t, pid)
<1>1. /\ W \in Nat \ {0} /\ ROWS * W \in Nat /\ (ROWS + 1) * W = ROWS * W + W
      /\ Offsets = 0 .. (ROWS * W + W + W - 1)
    BY Geometry
<1>2. \A c \in 0 .. (W - 1) : t.at[ROWS * W + c] = BLANK
    <2> TAKE c \in 0 .. (W - 1)
    <2>1. ROWS * W + c \in Offsets /\ ROWS * W + c >= ROWS * W  BY <1>1
    <2>2. QED  BY <2>1 DEF SameBar, Bar
<1>3. ASSUME NEW c \in 0 .. (W - 1)
      PROVE  t.at[(ROWS + 1) * W + c] \in LastRow(pid, c)
    <2>1. /\ (ROWS + 1) * W + c \in Offsets
          /\ (ROWS + 1) * W + c >= ROWS * W
        BY <1>1
    <2>2. QED  BY <2>1 DEF SameBar, Bar
<1>4. QED  BY <1>2, <1>3 DEF Bar

\* Beyond the text and the columns clear_line clears, what the last row showed
\* for old is what it may show for pid.
LEMMA LastRowStays ==
    ASSUME NEW old, Shown(old), NEW pid, pid # 0, NEW c \in 0 .. (W - 1),
           ~ (c < Len(StatusText(pid, N))), ~ (c < CLEARED)
    PROVE  LastRow(old, c) \subseteq LastRow(pid, c)
<1>1. LastRow(pid, c) = {BLANK} \cup Leftovers(c)  BY DEF LastRow
<1>2. CASE old = 0
    <2>1. c \in Nat /\ Len(<< >>) = 0  BY Geometry
    <2>2. LastRow(old, c) = {BLANK}  BY <1>2, <2>1 DEF LastRow
    <2>3. QED  BY <1>1, <2>2
<1>3. CASE old # 0 /\ c < Len(StatusText(old, N))
    <2>1. PICK p \in Proc : old = Ids[p]  BY <1>3 DEF Shown
    <2>2. StatusText(old, N)[c + 1] \in Leftovers(c)
        BY <1>3, <2>1 DEF Leftovers
    <2>3. QED  BY <1>1, <1>3, <2>2 DEF LastRow
<1>4. CASE old # 0 /\ ~ (c < Len(StatusText(old, N)))
    BY <1>1, <1>4 DEF LastRow
<1>5. QED  BY <1>2, <1>3, <1>4

\* The timer interrupt rewrites the status bar and nothing else.
LEMMA StatusBarScreen ==
    ASSUME NEW s, IsScreen(s), NEW pid \in Nat \ {0},
           Len(StatusText(pid, N)) <= W, NEW old, Shown(old)
    PROVE  LET t == print_status_bar(s, pid, N) IN
           /\ IsScreen(t) /\ t.x = s.x /\ t.y = s.y
           /\ \A o \in Offsets : o < ROWS * W => t.at[o] = s.at[o]
           /\ Bar(s, old) => Bar(t, pid)
<1> DEFINE text == StatusText(pid, N)
           last == (ROWS + 1) * W
           cleared == clear_line(ROWS) \cup clear_line(ROWS + 1)
           at == [o \in Offsets |->
                    IF o >= last /\ o - last < Len(text) THEN text[o - last + 1]
                    ELSE IF o \in cleared THEN BLANK
                    ELSE s.at[o]]
           t == print_status_bar(s, pid, N)
<1>1. /\ W \in Nat \ {0} /\ ROWS * W \in Nat /\ last = ROWS * W + W
      /\ Offsets = 0 .. (ROWS * W + W + W - 1)
      /\ CLEARED \in Nat
    BY Geometry, ConsoleAssumption
<1>2. t = [s EXCEPT !.at = at]  BY DEF print_status_bar
<1>3. t = [at |-> at, x |-> s.x, y |-> s.y]
    <2> HIDE DEF at, t
    <2>1. QED  BY <1>2 DEF IsScreen
<1>4. Len(text) \in Nat /\ DOMAIN text = 1 .. Len(text) /\ Len(text) <= W
    BY StatusTextSeq
<1>5. /\ \A o \in cleared : o >= ROWS * W
      /\ \A c \in Nat : c < CLEARED => last + c \in cleared
    BY <1>1 DEF clear_line
<1> HIDE DEF t, text, last, cleared
<1>6. IsScreen(t) /\ t.x = s.x /\ t.y = s.y /\ t.at = at
    <2> HIDE DEF at
    <2>1. QED  BY <1>3 DEF IsScreen
<1>7. \A o \in Offsets : o < ROWS * W => at[o] = s.at[o]
    <2> TAKE o \in Offsets
    <2> HAVE o < ROWS * W
    <2>1. ~ (o >= last) /\ o \notin cleared  BY <1>1, <1>5
    <2>2. QED  BY <2>1
<1>8. ASSUME \A c \in 0 .. (W - 1) : s.at[ROWS * W + c] = BLANK,
             NEW c \in 0 .. (W - 1)
      PROVE  at[ROWS * W + c] = BLANK
    <2>1. ROWS * W + c \in Offsets /\ ~ (ROWS * W + c >= last)  BY <1>1
    <2>2. QED  BY <1>8, <2>1
<1>9. ASSUME Bar(s, old), NEW c \in 0 .. (W - 1)
      PROVE  at[last + c] \in LastRow(pid, c)
    <2> DEFINE o == last + c
    <2>1. /\ o \in Offsets /\ o >= last /\ o - last = c /\ c \in Nat
          /\ o - last + 1 = c + 1
        <3> DEFINE R == ROWS * W
        <3>1. /\ R \in Nat /\ W \in Nat /\ last = R + W
              /\ Offsets = 0 .. (R + W + W - 1)
            BY <1>1
        <3> HIDE DEF R, at
        <3>2. QED  BY <3>1
    <2> HIDE DEF o
    <2>2. at[o] = IF c < Len(text) THEN text[c + 1]
                  ELSE IF o \in cleared THEN BLANK ELSE s.at[o]
        BY <2>1
    <2> HIDE DEF at
    <2>3. CASE c < Len(text)
        <3>1. LastRow(pid, c) = {text[c + 1]}  BY <2>3 DEF LastRow, text
        <3>2. QED  BY <2>2, <2>3, <3>1 DEF o
    <2>4. CASE ~ (c < Len(text))
        <3>1. LastRow(pid, c) = IF c < CLEARED THEN {BLANK}
                                ELSE {BLANK} \cup Leftovers(c)
            BY <2>4 DEF LastRow, text
        <3>2. CASE o \in cleared  BY <2>2, <2>4, <3>1, <3>2 DEF o
        <3>3. CASE o \notin cleared
            <4>1. ~ (c < CLEARED)  BY <1>5, <2>1, <3>3 DEF o
            <4>2. s.at[o] \in LastRow(old, c)  BY <1>9 DEF Bar, o, last
            <4>3. LastRow(old, c) \subseteq LastRow(pid, c)
                BY <2>4, <4>1, LastRowStays DEF text
            <4>4. QED  BY <2>2, <2>4, <3>3, <4>2, <4>3 DEF o
        <3>4. QED  BY <3>2, <3>3
    <2>5. QED  BY <2>3, <2>4
<1> HIDE DEF at
<1>10. Bar(s, old) => Bar(t, pid)
    BY <1>6, <1>8, <1>9 DEF Bar, last
<1>11. QED  BY <1>6, <1>7, <1>10 DEF t

\* The inductive invariant behind StatusIntact: the cursor is in the rows of
\* text and, while nothing was printed beyond the last column, at most one
\* position after it.
BarInv ==
    /\ IsScreen(screen)
    /\ Shown(shown)
    /\ wide \in BOOLEAN
    /\ ~ wide => screen.x <= W /\ Bar(screen, shown)

LEMMA PutsBar ==
    ASSUME BarInv, NEW T, NEW str \in Seq(T), NEW strayed, Puts(str, strayed)
    PROVE  BarInv'
<1>1. /\ screen' = print(screen, str) /\ shown' = shown
      /\ wide' = (wide \/ Overruns(screen, str))
    BY DEF Puts
<1>2. IsScreen(screen) /\ Shown(shown)  BY DEF BarInv
<1>3. IsScreen(print(screen, str))  BY <1>2, PrintScreen
<1>4. ASSUME ~ wide'
      PROVE  print(screen, str).x <= W /\ Bar(print(screen, str), shown)
    <2>1. ~ wide /\ ~ Overruns(screen, str)  BY <1>1, <1>4
    <2>2. screen.x <= W /\ Bar(screen, shown)  BY <2>1 DEF BarInv
    <2>3. print(screen, str).x <= W /\ SameBar(screen, print(screen, str))
        BY <1>2, <2>1, <2>2, PrintScreen
    <2>4. QED  BY <1>2, <2>2, <2>3, BarKept
<1>5. wide' \in BOOLEAN  BY <1>1
<1>6. IsScreen(screen')  BY <1>1, <1>3
<1>7. ~ wide' => screen'.x <= W /\ Bar(screen', shown')  BY <1>1, <1>4
<1>8. Shown(shown')  BY <1>1, <1>2
<1>9. QED  BY <1>5, <1>6, <1>7, <1>8 DEF BarInv

LEMMA TickBar ==
    ASSUME BarInv, current_task \in Proc, TermTick
    PROVE  BarInv'
<1> DEFINE pid == Ids[current_task]
           t == print_status_bar(screen, pid, N)
<1>1. screen' = t /\ shown' = pid /\ wide' = wide  BY DEF TermTick
<1>2. pid \in Nat \ {0} /\ Len(StatusText(pid, N)) <= W /\ Shown(pid)
    BY TerminalAssumption DEF Shown
<1>3. /\ IsScreen(t) /\ t.x = screen.x
      /\ Bar(screen, shown) => Bar(t, pid)
    BY <1>2, StatusBarScreen DEF BarInv
<1> HIDE DEF pid, t
<1>4. ~ wide => t.x <= W /\ Bar(t, pid)  BY <1>3 DEF BarInv
<1>5. /\ IsScreen(screen') /\ Shown(shown') /\ wide' \in BOOLEAN
      /\ ~ wide' => screen'.x <= W /\ Bar(screen', shown')
    BY <1>1, <1>2, <1>3, <1>4 DEF BarInv
<1>6. QED  BY <1>5 DEF BarInv

LEMMA StepBar ==
    ASSUME BarInv, InputInv, [TerminalNext]_allVars
    PROVE  BarInv'
<1>1. CASE UNCHANGED <<screen, shown, wide>>  BY <1>1 DEF BarInv
<1>2. ASSUME NEW c, NEW strayed, Puts(<<c>>, strayed)
      PROVE  BarInv'
    <2>1. <<c>> \in Seq({c})  OBVIOUS
    <2>2. QED  BY <1>2, <2>1, PutsBar
<1>3. ASSUME NEW str \in Outputs, TermPrint(str)
      PROVE  BarInv'
    <2>1. str \in Seq(Chars) /\ Puts(str, TRUE)
        BY <1>3, TerminalAssumption DEF TermPrint
    <2>2. QED  BY <2>1, PutsBar
<1>4. CASE TermTick  BY <1>4, TickBar DEF InputInv, TypeOK
<1>5. CASE UNCHANGED allVars  BY <1>1, <1>5 DEF allVars, screenVars
<1>6. CASE \E state \in {0, 1} : TermShift(state)
    BY <1>1, <1>6 DEF TermShift, screenVars
<1>7. CASE TermEnter  BY <1>2, <1>7 DEF TermEnter
<1>8. CASE \E k \in Keys : TermBackspace(k)
    BY <1>2, <1>8 DEF TermBackspace
<1>9. CASE \E k \in Keys : TermKey(k)  BY <1>2, <1>9 DEF TermKey
<1>10. CASE \E k \in Keys : KeyDropped(k)
    BY <1>2, <1>10 DEF KeyDropped
<1>11. CASE \E p \in Proc, f \in Formats, new \in BOOLEAN : TermScanf(p, f, new)
    BY <1>1, <1>11 DEF TermScanf
<1>12. CASE \E p \in Proc : TermEnterToMemory(p)
    BY <1>1, <1>12 DEF TermEnterToMemory, screenVars
<1>13. QED
    BY <1>3, <1>4, <1>5, <1>6, <1>7, <1>8, <1>9, <1>10, <1>11, <1>12
       DEF TerminalNext

LEMMA InitBar ==
    ASSUME TerminalInit
    PROVE  BarInv
<1>1. /\ W \in Nat \ {0} /\ ROWS \in Nat \ {0} /\ ROWS * W \in Nat
      /\ Offsets = 0 .. (ROWS * W + W + W - 1)
    BY Geometry
<1>2. screen = [at |-> [o \in Offsets |-> BLANK], x |-> 0, y |-> 0]
      /\ shown = 0 /\ wide = FALSE
    BY DEF TerminalInit, BlankScreen
<1>3. IsScreen(screen)  BY <1>1, <1>2 DEF IsScreen
<1>4. \A c \in 0 .. (W - 1) : screen.at[ROWS * W + c] = BLANK
    <2> TAKE c \in 0 .. (W - 1)
    <2>1. ROWS * W + c \in Offsets  BY <1>1
    <2>2. QED  BY <1>2, <2>1
<1>5. screen.x <= W  BY <1>1, <1>2
<1>6. Shown(shown) /\ wide \in BOOLEAN  BY <1>2 DEF Shown
<1>7. ASSUME NEW c \in 0 .. (W - 1)
      PROVE  screen.at[(ROWS + 1) * W + c] \in LastRow(shown, c)
    <2>1. (ROWS + 1) * W = ROWS * W + W  BY Geometry
    <2>2. (ROWS + 1) * W + c \in Offsets  BY <1>1, <2>1
    <2>3. BLANK \in LastRow(0, c)
        <3>1. ~ (c < Len(<< >>))  BY <1>1
        <3>2. QED  BY <3>1 DEF LastRow
    <2>4. QED  BY <1>2, <2>2, <2>3
<1>8. QED  BY <1>2, <1>3, <1>4, <1>5, <1>6, <1>7 DEF BarInv, Bar

LEMMA BarInvariant == TerminalSpec => []BarInv
<1>1. TerminalInit => BarInv  BY InitBar
<1>2. BarInv /\ InputInv /\ [TerminalNext]_allVars => BarInv'  BY StepBar
<1>3. QED  BY <1>1, <1>2, InputInvariant, PTL DEF TerminalSpec

\* Text never touches the status bar while no row gets more characters than
\* it has columns (putc_with_attr, scroll and print_status_bar), for every
\* size of the screen, every text and every sequence of ticks.
THEOREM StatusIntactHolds == TerminalSpec => []StatusIntact
<1>1. BarInv => StatusIntact  BY DEF BarInv, IsScreen, Bar, StatusIntact
<1>2. QED  BY <1>1, BarInvariant, PTL

-----------------------------------------------------------------------------
(* The echo of the line.                                                   *)

\* The inductive invariant behind EchoIsLine: the line is in the rows of text,
\* so the status bar does not overwrite it.
EchoInv ==
    /\ anchor \in Nat
    /\ astray \in BOOLEAN
    /\ late => ended
    /\ ~ ended /\ ~ astray =>
        /\ Cursor(screen) = anchor + Len(typed)
        /\ \A i \in 1 .. Len(typed) :
              /\ screen.at[anchor + i - 1] = typed[i]
              /\ anchor + i - 1 < ROWS * W

LEMMA CursorNat ==
    ASSUME NEW s, IsScreen(s)
    PROVE  Cursor(s) \in Nat
<1>1. s.x \in Nat /\ s.y \in Nat /\ W \in Nat  BY Geometry DEF IsScreen
<1>2. s.y * W \in Nat  BY <1>1
<1>3. QED  BY <1>1, <1>2 DEF Cursor

\* A key that is stored and echoed.
LEMMA KeyEcho ==
    ASSUME BarInv, InputInv, EchoInv, NEW k \in Keys, TermKey(k)
    PROVE  EchoInv'
<1> DEFINE c == Chr(k)
           n == Len(typed)
<1>1. /\ screen' = print(screen, <<c>>) /\ anchor' = anchor
      /\ astray' = (\/ astray \/ c \notin Printable
                    \/ Overruns(screen, <<c>>))
    BY DEF TermKey, Puts
<1>2. /\ late' = (late \/ ended) /\ ended' = ended
      /\ typed' = IF ended THEN typed ELSE Append(typed, c)
    BY DEF TermKey, Key, Stores
<1>3. c \in Chars  BY KeyChar
<1> HIDE DEF c
<1>4. IsScreen(screen)  BY DEF BarInv
<1>5. anchor' \in Nat /\ astray' \in BOOLEAN /\ (late' => ended')
    BY <1>1, <1>2 DEF EchoInv
<1>6. ASSUME ~ ended', ~ astray'
      PROVE  /\ Cursor(screen') = anchor' + Len(typed')
             /\ \A i \in 1 .. Len(typed') :
                  /\ screen'.at[anchor' + i - 1] = typed'[i]
                  /\ anchor' + i - 1 < ROWS * W
    <2>1. ~ ended /\ ~ astray /\ c \in Printable /\ c \notin {HT, BS, NL}
          /\ ~ Overruns(screen, <<c>>)
        <3>1. ~ ended /\ ~ astray /\ c \in Printable /\ ~ Overruns(screen, <<c>>)
            BY <1>1, <1>2, <1>6
        <3>2. c \notin {HT, BS, NL}
            BY <3>1 DEF Printable, BLANK, HT, BS, NL
        <3>3. QED  BY <3>1, <3>2
    <2>2. /\ screen.x \in Nat /\ screen.y \in 0 .. (ROWS - 1) /\ screen.x < W
          /\ screen' = putc(screen, c)
        BY <1>1, <1>4, <2>1, PrintOne DEF IsScreen, Fits
    <2>3. putc(screen, c) = scroll(Printed(screen, c))  BY <2>1 DEF putc
    <2>4. screen' = [at |-> Poke(screen.at, Cursor(screen), c),
                     x |-> screen.x + 1, y |-> screen.y]
        <3>1. screen.y <= ROWS - 1  BY <2>2, Geometry
        <3>2. QED  BY <2>2, <2>3, <3>1 DEF scroll, Printed
    <2>5. Cursor(screen) \in 0 .. (ROWS * W - 1)  BY <2>2, CellInText DEF Cursor
    <2>6. /\ n \in Nat /\ typed \in Seq(Chars) /\ anchor \in Nat
          /\ Cursor(screen) = anchor + n
          /\ \A i \in 1 .. n : /\ screen.at[anchor + i - 1] = typed[i]
                               /\ anchor + i - 1 < ROWS * W
        BY <2>1 DEF EchoInv, InputInv, HistoryOK
    <2>7. /\ Len(typed') = n + 1 /\ typed'[n + 1] = c
          /\ \A i \in 1 .. n : typed'[i] = typed[i]
        BY <1>2, <1>3, <2>1, <2>6
    <2>8. Cursor(screen') = Cursor(screen) + 1
        <3>1. screen.y * W \in Nat  BY <2>2, Geometry
        <3>2. QED  BY <2>2, <2>4, <3>1 DEF Cursor
    <2>9. /\ ROWS * W \in Nat /\ W \in Nat
          /\ Offsets = 0 .. (ROWS * W + W + W - 1)
        BY Geometry
    <2>10. \A o \in Offsets :
              screen'.at[o] = IF o = Cursor(screen) THEN c ELSE screen.at[o]
        BY <2>4 DEF Poke
    <2> HIDE DEF n
    <2>11. ASSUME NEW i \in 1 .. (n + 1)
           PROVE  /\ screen'.at[anchor + i - 1] = typed'[i]
                  /\ anchor + i - 1 < ROWS * W
        <3>1. CASE i = n + 1
            <4>1. anchor + i - 1 = Cursor(screen)  BY <2>6, <3>1
            <4>2. Cursor(screen) \in Offsets  BY <2>5, <2>9
            <4>3. QED  BY <2>5, <2>7, <2>9, <2>10, <3>1, <4>1, <4>2
        <3>2. CASE i # n + 1
            <4>1. i \in 1 .. n  BY <2>6, <3>2
            <4>2. /\ anchor + i - 1 < ROWS * W
                  /\ anchor + i - 1 \in Nat /\ anchor + i - 1 # Cursor(screen)
                <5>1. anchor + i - 1 < ROWS * W  BY <2>6, <4>1
                <5>2. /\ anchor \in Nat /\ n \in Nat
                      /\ Cursor(screen) = anchor + n
                    BY <2>6
                <5>3. QED  BY <4>1, <5>1, <5>2
            <4>3. anchor + i - 1 \in Offsets  BY <2>9, <4>2
            <4>4. QED  BY <2>6, <2>7, <2>10, <4>1, <4>2, <4>3
        <3>3. QED  BY <3>1, <3>2
    <2>12. anchor' = anchor /\ Len(typed') = n + 1  BY <1>1, <2>7
    <2>13. Cursor(screen') = anchor + (n + 1)  BY <2>6, <2>8
    <2>14. QED  BY <2>11, <2>12, <2>13
<1>7. QED  BY <1>5, <1>6 DEF EchoInv

\* Backspace takes the last character from the line and from the screen.
LEMMA BackspaceEcho ==
    ASSUME BarInv, InputInv, EchoInv, NEW k \in Keys, TermBackspace(k)
    PROVE  EchoInv'
<1> DEFINE n == Len(typed)
<1>1. /\ screen' = print(screen, <<BS>>) /\ anchor' = anchor
      /\ astray' = (astray \/ curBuffIndex = 0 \/ Overruns(screen, <<BS>>))
    BY DEF TermBackspace, Backspace, Puts, BKSP, BS
<1>2. /\ late' = (late \/ ended) /\ ended' = ended
      /\ typed' = IF ended \/ typed = << >> THEN typed
                  ELSE SubSeq(typed, 1, Len(typed) - 1)
    BY DEF TermBackspace, Backspace, Stores
<1>3. IsScreen(screen)  BY DEF BarInv
<1>4. anchor' \in Nat /\ astray' \in BOOLEAN /\ (late' => ended')
    BY <1>1, <1>2 DEF EchoInv
<1>5. ASSUME ~ ended', ~ astray'
      PROVE  /\ Cursor(screen') = anchor' + Len(typed')
             /\ \A i \in 1 .. Len(typed') :
                  /\ screen'.at[anchor' + i - 1] = typed'[i]
                  /\ anchor' + i - 1 < ROWS * W
    <2>1. ~ ended /\ ~ late /\ ~ astray /\ curBuffIndex # 0
        BY <1>1, <1>2, <1>5 DEF EchoInv
    <2>2. /\ n \in Nat /\ typed \in Seq(Chars) /\ anchor \in Nat
          /\ n = curBuffIndex
          /\ Cursor(screen) = anchor + n
          /\ \A i \in 1 .. n : /\ screen.at[anchor + i - 1] = typed[i]
                               /\ anchor + i - 1 < ROWS * W
        BY <2>1 DEF EchoInv, InputInv, HistoryOK, BufferHoldsTyped
    <2>3. n > 0 /\ Cursor(screen) > 0  BY <2>1, <2>2
    <2>4. /\ Len(typed') = n - 1
          /\ \A i \in 1 .. (n - 1) : typed'[i] = typed[i]
        BY <1>2, <2>1, <2>2, <2>3
    <2> DEFINE t == Backspaced(screen)
    <2>5. screen' = scroll(t)  BY <1>1, <1>3, PrintOne DEF putc
    <2>6. /\ IsScreen(t) /\ Cursor(t) = Cursor(screen) - 1
          /\ \A p \in Offsets : p # Cursor(t) => t.at[p] = screen.at[p]
        BY <1>3, <2>3, BackspacedScreen
    <2> HIDE DEF t, n
    <2>7. screen' = t
        <3>1. t.y <= ROWS - 1  BY <2>6, Geometry DEF IsScreen
        <3>2. QED  BY <2>5, <3>1 DEF scroll
    <2>8. ASSUME NEW i \in 1 .. (n - 1)
          PROVE  /\ screen'.at[anchor + i - 1] = typed'[i]
                 /\ anchor + i - 1 < ROWS * W
        <3>1. /\ i \in 1 .. n
              /\ anchor + i - 1 \in Nat /\ anchor + i - 1 # Cursor(t)
            BY <2>2, <2>6
        <3>2. anchor + i - 1 < ROWS * W  BY <2>2, <3>1
        <3>3. anchor + i - 1 \in Offsets  BY <3>1, <3>2, Geometry
        <3>4. QED  BY <2>2, <2>4, <2>6, <2>7, <3>1, <3>2, <3>3
    <2>9. anchor' = anchor /\ Len(typed') = n - 1  BY <1>1, <2>4
    <2>10. Cursor(screen') = anchor + (n - 1)  BY <2>2, <2>6, <2>7
    <2>11. QED  BY <2>8, <2>9, <2>10
<1>6. QED  BY <1>4, <1>5 DEF EchoInv

\* The timer interrupt leaves the line and the cursor where they are.
LEMMA TickEcho ==
    ASSUME BarInv, InputInv, EchoInv, TermTick
    PROVE  EchoInv'
<1> DEFINE pid == Ids[current_task]
           t == print_status_bar(screen, pid, N)
<1>1. screen' = t /\ UNCHANGED <<anchor, astray, typed, ended, late>>
    BY DEF TermTick, Tick, ghostVars
<1>2. pid \in Nat \ {0} /\ Len(StatusText(pid, N)) <= W
    BY TerminalAssumption DEF InputInv, TypeOK
<1>3. /\ t.x = screen.x /\ t.y = screen.y
      /\ \A o \in Offsets : o < ROWS * W => t.at[o] = screen.at[o]
    BY <1>2, StatusBarScreen DEF BarInv
<1> HIDE DEF t, pid
<1>4. Cursor(t) = Cursor(screen)  BY <1>3 DEF Cursor
<1>5. typed \in Seq(Chars) /\ Len(typed) \in Nat
    BY DEF InputInv, HistoryOK
<1>6. ASSUME ~ ended, ~ astray, NEW i \in 1 .. Len(typed)
      PROVE  /\ t.at[anchor + i - 1] = typed[i]
             /\ anchor + i - 1 < ROWS * W
    <2>1. /\ anchor \in Nat /\ screen.at[anchor + i - 1] = typed[i]
          /\ anchor + i - 1 < ROWS * W
        BY <1>6 DEF EchoInv
    <2>2. anchor + i - 1 \in Nat  BY <1>5, <2>1
    <2>3. anchor + i - 1 \in Offsets  BY <2>1, <2>2, Geometry
    <2>4. QED  BY <1>3, <2>1, <2>3
<1>7. QED  BY <1>1, <1>4, <1>6 DEF EchoInv

LEMMA StepEcho ==
    ASSUME BarInv, InputInv, EchoInv, [TerminalNext]_allVars
    PROVE  EchoInv'
<1>1. CASE UNCHANGED <<screen, anchor, astray, typed, ended, late>>
    BY <1>1 DEF EchoInv
<1>2. CASE /\ UNCHANGED <<anchor, ended, late>>
           /\ astray' = TRUE
    BY <1>2 DEF EchoInv
<1>3. CASE UNCHANGED allVars
    BY <1>1, <1>3 DEF allVars, screenVars, vars, ghostVars
<1>4. CASE \E state \in {0, 1} : TermShift(state)
    BY <1>1, <1>4 DEF TermShift, Shift, screenVars, ghostVars
<1>5. CASE TermEnter
    BY <1>5 DEF TermEnter, Enter, Puts, EchoInv
<1>6. CASE \E k \in Keys : TermBackspace(k)  BY <1>6, BackspaceEcho
<1>7. CASE \E k \in Keys : TermKey(k)  BY <1>7, KeyEcho
<1>8. CASE \E k \in Keys : KeyDropped(k)
    BY <1>2, <1>8 DEF KeyDropped, Puts, vars, ghostVars
<1>9. CASE \E str \in Outputs : TermPrint(str)
    BY <1>2, <1>9 DEF TermPrint, Puts, vars, ghostVars
<1>10. ASSUME NEW p \in Proc, NEW f \in Formats, NEW new \in BOOLEAN,
              TermScanf(p, f, new)
       PROVE  EchoInv'
    <2>1. /\ anchor' = Cursor(screen) /\ screen' = screen /\ astray' = FALSE
          /\ typed' = << >> /\ ended' = FALSE /\ late' = FALSE
        BY <1>10 DEF TermScanf, Scanf
    <2>2. Cursor(screen) \in Nat  BY CursorNat DEF BarInv
    <2>3. Len(typed') = 0 /\ 1 .. Len(typed') = {}  BY <2>1
    <2>4. Cursor(screen') = anchor' + Len(typed')  BY <2>1, <2>2, <2>3
    <2>5. anchor' \in Nat /\ astray' \in BOOLEAN /\ ~ late'  BY <2>1, <2>2
    <2>6. QED  BY <2>3, <2>4, <2>5 DEF EchoInv
<1>11. CASE \E p \in Proc : TermEnterToMemory(p)
    BY <1>1, <1>11 DEF TermEnterToMemory, EnterToMemory, screenVars, ghostVars
<1>12. CASE TermTick  BY <1>12, TickEcho
<1>13. QED
    BY <1>3, <1>4, <1>5, <1>6, <1>7, <1>8, <1>9, <1>10, <1>11, <1>12
       DEF TerminalNext

LEMMA InitEcho ==
    ASSUME TerminalInit
    PROVE  EchoInv
<1>1. /\ anchor = 0 /\ typed = << >> /\ ended = FALSE /\ late = FALSE
      /\ astray = FALSE /\ screen.x = 0 /\ screen.y = 0 /\ Len(typed) = 0
    BY DEF TerminalInit, Init, BlankScreen
<1>2. W \in Nat  BY Geometry
<1>3. Cursor(screen) = 0  BY <1>1, <1>2 DEF Cursor
<1>4. Cursor(screen) = anchor + Len(typed) /\ 1 .. Len(typed) = {}
    BY <1>1, <1>3
<1>5. anchor \in Nat /\ astray \in BOOLEAN /\ ~ late  BY <1>1
<1>6. QED  BY <1>4, <1>5 DEF EchoInv

\* While scanf reads and nothing but its line is put on the screen, the user
\* sees the line the program will get (the echo of keyboard_handler), across
\* ticks, for every size of the screen and of the buffer.
THEOREM EchoIsLineHolds == TerminalSpec => []EchoIsLine
<1>1. TerminalInit => EchoInv  BY InitEcho
<1>2. BarInv /\ InputInv /\ EchoInv /\ [TerminalNext]_allVars => EchoInv'
    BY StepEcho
<1>3. InputInv /\ EchoInv => EchoIsLine
    <2> SUFFICES ASSUME InputInv, EchoInv
                 PROVE  EchoIsLine
        OBVIOUS
    <2>1. DOMAIN typed = 1 .. Len(typed)  BY DEF InputInv, HistoryOK
    <2>2. QED  BY <2>1 DEF EchoInv, EchoIsLine
<1>4. QED  BY <1>1, <1>2, <1>3, InputInvariant, BarInvariant, PTL DEF TerminalSpec
=============================================================================
