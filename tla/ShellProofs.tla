---------------------------- MODULE ShellProofs ----------------------------
(***************************************************************************)
(* Theorems about the shell, for every number of processes, every archive  *)
(* and whatever is typed.                                                  *)
(***************************************************************************)
EXTENDS Shell, NatLemmas, SequenceTheorems, FiniteSetTheorems, TLAPS

-----------------------------------------------------------------------------
(* Foreground programs.                                                    *)

\* What the shell waits for is its last child, and the wait has returned only
\* if that child has ended.
WaitsForChild ==
    /\ pc \in {"forked", "waiting"} => child \in Proc!Pids
    /\ pc = "waiting" =>
        /\ waiting[ShellPid] \in {Proc!NotWaiting, child}
        /\ result[ShellPid] # Proc!NoResult => life[child] = "ended"

\* The inductive invariant: the arrays have an entry for every process, and
\* what ForegroundDone rests on.
ForegroundInv ==
    /\ DOMAIN life = Proc!Pids
    /\ DOMAIN waiting = Proc!Pids
    /\ DOMAIN result = Proc!Pids
    /\ DOMAIN task = Proc!Pids
    /\ \A c \in Proc!Pids : "fg" \in DOMAIN task[c]
    /\ WaitsForChild
    /\ ForegroundDone

LEMMA ShellIsProcess == ShellPid \in Proc!Pids
BY ShellAssumption DEF ShellPid, Proc!Pids

LEMMA ForegroundInit == Init => ForegroundInv
<1> SUFFICES ASSUME Init PROVE ForegroundInv  OBVIOUS
<1>1. \A c \in Proc!Pids : task[c] = NoTask  BY DEF Init
<1>2. "fg" \in DOMAIN NoTask /\ NoTask.fg = FALSE  BY DEF NoTask
<1>3. WaitsForChild  BY DEF Init, WaitsForChild
<1>4. ForegroundDone  BY <1>1, <1>2 DEF ForegroundDone
<1>5. QED
    BY <1>1, <1>2, <1>3, <1>4 DEF Init, Proc!Init, ForegroundInv

\* Steps of the shell that concern no process.
LEMMA ShellOnly ==
    ASSUME ForegroundInv, UNCHANGED <<procVars, child>>,
           pc \notin {"forked", "waiting"} \/ pc' = pc,
           pc' \notin {"forked", "waiting"} \/ pc' = pc,
           DOMAIN task' = Proc!Pids,
           \A c \in Proc!Pids : "fg" \in DOMAIN task'[c] /\ task'[c].fg = task[c].fg
    PROVE  ForegroundInv'
<1>1. UNCHANGED <<life, waiting, result>>  BY DEF procVars
<1>2. WaitsForChild'  BY <1>1 DEF ForegroundInv, WaitsForChild
<1>3. ForegroundDone'  BY <1>1 DEF ForegroundInv, ForegroundDone
<1>4. QED  BY <1>1, <1>2, <1>3 DEF ForegroundInv

\* A line is read while no foreground program is left, and marking the late
\* children changes nothing about them.
LEMMA ReadLineForeground ==
    ASSUME ForegroundInv, NEW line, ReadLine(line)
    PROVE  ForegroundInv'
<1>1. /\ pc = "prompt" /\ pc' = "words" /\ UNCHANGED <<procVars, child>>
      /\ task' = [c \in DOMAIN task |->
                    IF task[c].state = "forked"
                    THEN [task[c] EXCEPT !.late = TRUE] ELSE task[c]]
    BY DEF ReadLine
<1>2. DOMAIN task' = Proc!Pids  BY <1>1 DEF ForegroundInv
<1>3. ASSUME NEW c \in Proc!Pids
      PROVE  "fg" \in DOMAIN task'[c] /\ task'[c].fg = task[c].fg
    <2>1. "fg" \in DOMAIN task[c] /\ c \in DOMAIN task  BY DEF ForegroundInv
    <2>2. task'[c] \in {task[c], [task[c] EXCEPT !.late = TRUE]}  BY <1>1, <2>1
    <2>3. QED  BY <2>1, <2>2
<1>4. QED  BY <1>1, <1>2, <1>3, ShellOnly

\* fork, when no foreground program is left: if the new one is to be in the
\* foreground, the shell is about to wait for it.
LEMMA ShellForksForeground == ForegroundInv /\ ShellForks => ForegroundInv'
<1> SUFFICES ASSUME ForegroundInv, ShellForks PROVE ForegroundInv'  OBVIOUS
<1>1. /\ pc = "command" /\ pc' = IF bg THEN "prompt" ELSE "forked"
      /\ Proc!NewPids # {} /\ child' = Min(Proc!NewPids)
      /\ life' = [life EXCEPT ![Min(Proc!NewPids)] = "alive"]
      /\ DOMAIN result' = DOMAIN result
      /\ waiting' = waiting
    BY DEF ShellForks, IsProgram, Proc!Fork, Min, Proc!Min
<1>2. child' \in Proc!Pids /\ life[child'] = "none"
    <2>1. Proc!NewPids \subseteq Nat
        BY ShellAssumption DEF Proc!NewPids, Proc!Pids
    <2>2. \E x \in Proc!NewPids : \A y \in Proc!NewPids : x <= y
        BY <1>1, <2>1, NatLeast
    <2>3. Min(Proc!NewPids) \in Proc!NewPids  BY <2>2 DEF Min
    <2>4. QED  BY <1>1, <2>3 DEF Proc!NewPids
<1>3. \A c \in Proc!Pids : ~ (task[c].fg /\ life[c] # "ended")
    BY <1>1 DEF ForegroundInv, ForegroundDone
<1> DEFINE new == [NoTask EXCEPT !.state = "forked", !.fg = ~ bg,
                                 !.words = Runs(command, Space), !.asked = wanted]
<1>4. task' = [task EXCEPT ![child'] = new]  BY DEF ShellForks
<1>5. "fg" \in DOMAIN new /\ new.fg = ~ bg  BY DEF NoTask
<1> HIDE DEF new
<1>6. \A c \in Proc!Pids : "fg" \in DOMAIN task'[c]
    BY <1>4, <1>5 DEF ForegroundInv
<1>7. WaitsForChild'  BY <1>1, <1>2 DEF WaitsForChild
<1>8. ForegroundDone'
    <2> SUFFICES ASSUME NEW c \in Proc!Pids, task'[c].fg, life'[c] # "ended"
                 PROVE  child' = c /\ pc' \in {"forked", "waiting"}
        BY DEF ForegroundDone
    <2>1. c = child'
        <3> SUFFICES ASSUME c # child' PROVE FALSE  OBVIOUS
        <3>1. task'[c] = task[c] /\ life'[c] = life[c]
            BY <1>1, <1>4 DEF ForegroundInv
        <3>2. QED  BY <1>3, <3>1
    <2>2. task'[c] = new  BY <1>2, <1>4, <2>1 DEF ForegroundInv
    <2>3. ~ bg  BY <1>5, <2>2
    <2>4. QED  BY <1>1, <2>1, <2>3
<1>9. DOMAIN life' = Proc!Pids /\ DOMAIN task' = Proc!Pids
      /\ DOMAIN result' = Proc!Pids /\ DOMAIN waiting' = Proc!Pids
    BY <1>1, <1>4 DEF ForegroundInv
<1>10. QED  BY <1>6, <1>7, <1>8, <1>9 DEF ForegroundInv

LEMMA ShellWaitsForeground == ForegroundInv /\ ShellWaits => ForegroundInv'
<1> SUFFICES ASSUME ForegroundInv, ShellWaits PROVE ForegroundInv'  OBVIOUS
<1>1. /\ pc = "forked" /\ pc' = "waiting" /\ UNCHANGED <<child, task, life>>
      /\ waiting' = [waiting EXCEPT ![ShellPid] = child]
      /\ result' = [result EXCEPT ![ShellPid] = Proc!NoResult]
    BY DEF ShellWaits, Proc!Wait
<1>2. WaitsForChild'
    BY <1>1, ShellIsProcess DEF ForegroundInv, WaitsForChild
<1>3. ForegroundDone'  BY <1>1 DEF ForegroundInv, ForegroundDone
<1>4. QED  BY <1>1, <1>2, <1>3 DEF ForegroundInv

\* The wait of the shell returns for the child it named and for nobody else.
LEMMA TickForeground == ForegroundInv /\ Tick => ForegroundInv'
<1> SUFFICES ASSUME ForegroundInv, Tick PROVE ForegroundInv'  OBVIOUS
<1>1. PICK t \in Proc!Pids : Proc!Return([p \in {ShellPid} |-> t])  BY DEF Tick
<1> DEFINE target == [p \in {ShellPid} |-> t]
<1>2. target[ShellPid] = t /\ ShellPid \in DOMAIN target  OBVIOUS
<1>3. /\ Proc!MayReturn(ShellPid, t) /\ life' = life
      /\ DOMAIN result' = Proc!Pids /\ DOMAIN waiting' = Proc!Pids
      /\ waiting'[ShellPid] = Proc!NotWaiting
    BY <1>1, <1>2, ShellIsProcess DEF Proc!Return
<1>4. UNCHANGED <<pc, child, task>>  BY DEF Tick
<1>5. ASSUME pc = "waiting" PROVE life[child] = "ended"
    <2>1. child \in Proc!Pids /\ waiting[ShellPid] \in {Proc!NotWaiting, child}
        BY <1>5 DEF ForegroundInv, WaitsForChild
    <2>2. child # Proc!Anyone
        BY <2>1, ShellAssumption DEF Proc!Anyone, Proc!Pids
    <2>3. QED  BY <1>3, <2>1, <2>2 DEF Proc!MayReturn
<1>6. WaitsForChild'  BY <1>3, <1>4, <1>5 DEF ForegroundInv, WaitsForChild
<1>7. ForegroundDone'  BY <1>3, <1>4 DEF ForegroundInv, ForegroundDone
<1>8. QED  BY <1>3, <1>4, <1>6, <1>7 DEF ForegroundInv

\* The prompt comes back after the child has ended.
LEMMA ShellResumesForeground == ForegroundInv /\ ShellResumes => ForegroundInv'
<1> SUFFICES ASSUME ForegroundInv, ShellResumes PROVE ForegroundInv'  OBVIOUS
<1>1. /\ pc = "waiting" /\ pc' = "prompt" /\ result[ShellPid] # Proc!NoResult
      /\ UNCHANGED <<life, waiting, result, child, task>>
    BY DEF ShellResumes, procVars
<1>2. life[child] = "ended"  BY <1>1 DEF ForegroundInv, WaitsForChild
<1>3. WaitsForChild'  BY <1>1 DEF WaitsForChild
<1>4. ForegroundDone'  BY <1>1, <1>2 DEF ForegroundInv, ForegroundDone
<1>5. QED  BY <1>1, <1>3, <1>4 DEF ForegroundInv

\* A child executes its program, or fails to.
LEMMA ChildCalls ==
    ASSUME ForegroundInv, NEW c \in Proc!Pids, Proc!Call(c),
           UNCHANGED <<pc, child>>,
           NEW r, task' = [task EXCEPT ![c] = r],
           "fg" \in DOMAIN r, r.fg = task[c].fg
    PROVE  ForegroundInv'
<1>1. life' = life /\ waiting' = waiting
      /\ result' = [result EXCEPT ![c] = Proc!NoResult]
    BY DEF Proc!Call
<1>2. DOMAIN task' = Proc!Pids /\ DOMAIN result' = Proc!Pids
    BY <1>1 DEF ForegroundInv
<1>3. \A d \in Proc!Pids : "fg" \in DOMAIN task'[d] /\ task'[d].fg = task[d].fg
    BY DEF ForegroundInv
<1>4. result'[ShellPid] \in {result[ShellPid], Proc!NoResult}
    BY <1>1, ShellIsProcess DEF ForegroundInv
<1>5. WaitsForChild'  BY <1>1, <1>4 DEF ForegroundInv, WaitsForChild
<1>6. ForegroundDone'  BY <1>1, <1>3 DEF ForegroundInv, ForegroundDone
<1>7. QED  BY <1>1, <1>2, <1>3, <1>5, <1>6 DEF ForegroundInv

LEMMA ExecvpeForeground ==
    ASSUME ForegroundInv, NEW c \in Proc!Pids, Execvpe(c)
    PROVE  ForegroundInv'
<1>1. PICK s, a, e, f, k :
        task' = [task EXCEPT ![c] = [task[c] EXCEPT !.state = s, !.argv = a,
                                        !.env = e, !.file = f, !.clean = k]]
    BY DEF Execvpe
<1> DEFINE r == [task[c] EXCEPT !.state = s, !.argv = a, !.env = e, !.file = f,
                                !.clean = k]
<1>2. "fg" \in DOMAIN r /\ r.fg = task[c].fg  BY DEF ForegroundInv
<1>3. Proc!Call(c) /\ UNCHANGED <<pc, child>>  BY DEF Execvpe
<1>4. task' = [task EXCEPT ![c] = r]  BY <1>1
<1> HIDE DEF r
<1>5. QED  BY <1>2, <1>3, <1>4, ChildCalls

LEMMA ExecvpeGarbageForeground ==
    ASSUME ForegroundInv, NEW c \in Proc!Pids, ExecvpeGarbage(c)
    PROVE  ForegroundInv'
<1> DEFINE r == [task[c] EXCEPT !.state = "failed"]
<1>1. "fg" \in DOMAIN r /\ r.fg = task[c].fg  BY DEF ForegroundInv
<1>2. Proc!Call(c) /\ UNCHANGED <<pc, child>>  BY DEF ExecvpeGarbage
<1>3. task' = [task EXCEPT ![c] = r]  BY DEF ExecvpeGarbage
<1> HIDE DEF r
<1>4. QED  BY <1>1, <1>2, <1>3, ChildCalls

LEMMA ProgramExitsForeground ==
    ASSUME ForegroundInv, NEW c \in Proc!Pids, NEW code, ProgramExits(c, code)
    PROVE  ForegroundInv'
<1>1. /\ UNCHANGED <<pc, child, waiting>>
      /\ life' = [life EXCEPT ![c] = "ended"]
      /\ result' = [result EXCEPT ![c] = Proc!NoResult]
      /\ task' = [task EXCEPT ![c] = NoTask]
    BY DEF ProgramExits, Proc!Exit
<1>2. "fg" \in DOMAIN NoTask  BY DEF NoTask
<1>3. DOMAIN task' = Proc!Pids /\ DOMAIN result' = Proc!Pids /\ DOMAIN life' = Proc!Pids
    BY <1>1 DEF ForegroundInv
<1>4. \A d \in Proc!Pids : "fg" \in DOMAIN task'[d]  BY <1>1, <1>2 DEF ForegroundInv
<1>5. \A d \in Proc!Pids : /\ life'[d] = "ended" \/ life'[d] = life[d]
                           /\ life[d] = "ended" => life'[d] = "ended"
                           /\ d # c => task'[d] = task[d]
    BY <1>1 DEF ForegroundInv
<1>6. life'[c] = "ended"  BY <1>1 DEF ForegroundInv
<1>7. result'[ShellPid] \in {result[ShellPid], Proc!NoResult}
    BY <1>1, ShellIsProcess DEF ForegroundInv
<1>8. WaitsForChild'  BY <1>1, <1>5, <1>7 DEF ForegroundInv, WaitsForChild
<1>9. ForegroundDone'  BY <1>1, <1>5, <1>6 DEF ForegroundInv, ForegroundDone
<1>10. QED  BY <1>1, <1>3, <1>4, <1>8, <1>9 DEF ForegroundInv

\* Every step keeps the invariant.
LEMMA ForegroundStep == ForegroundInv /\ [Next]_vars => ForegroundInv'
<1> SUFFICES ASSUME ForegroundInv, [Next]_vars PROVE ForegroundInv'  OBVIOUS
<1>1. CASE \E line \in Lines : ReadLine(line)  BY <1>1, ReadLineForeground
<1>2. CASE NextWord \/ Setenv \/ Cd \/ PrintsOnly
    <2>1. /\ UNCHANGED <<procVars, child, task>>
          /\ pc \in {"words", "command"} /\ pc' \in {"words", "command", "prompt"}
        BY <1>2 DEF NextWord, Setenv, Cd, PrintsOnly, At
    <2>2. QED  BY <2>1, ShellOnly DEF ForegroundInv
<1>3. ASSUME UNCHANGED <<procVars, pc, child, task>>
      PROVE  ForegroundInv'
    BY <1>3, ShellOnly DEF ForegroundInv
<1>4. CASE \/ ShellFaults \/ NoTaskLeft \/ Spin \/ UNCHANGED vars
           \/ \E c \in Proc!Pids : ProgramFaults(c)
    BY <1>3, <1>4 DEF ShellFaults, NoTaskLeft, Spin, ProgramFaults, vars
<1>5. CASE ShellForks  BY <1>5, ShellForksForeground
<1>6. CASE ShellWaits  BY <1>6, ShellWaitsForeground
<1>7. CASE ShellResumes  BY <1>7, ShellResumesForeground
<1>8. CASE Tick  BY <1>8, TickForeground
<1>9. ASSUME NEW c \in Proc!Pids,
             \/ Execvpe(c) \/ ExecvpeGarbage(c)
             \/ \E code \in Codes : ProgramExits(c, code)
      PROVE  ForegroundInv'
    BY <1>9, ExecvpeForeground, ExecvpeGarbageForeground, ProgramExitsForeground
<1>10. QED
    BY <1>1, <1>2, <1>4, <1>5, <1>6, <1>7, <1>8, <1>9 DEF Next

\* A program started without & has ended before the shell reads another line,
\* whatever other programs run, end or fail meanwhile.
THEOREM ForegroundDoneHolds == Spec => []ForegroundDone
<1>1. ForegroundInv => ForegroundDone  BY DEF ForegroundInv
<1>2. QED  BY <1>1, ForegroundInit, ForegroundStep, PTL DEF Spec
-----------------------------------------------------------------------------
(* Strings.                                                                *)

\* The fragments strings are made of.
Fragment == STRING \cup {"NULL", " ", "/", "=", "?", "PA", "TH", "bin"}
Str == Seq(Fragment)

\* A string the user typed, or a part of one: nothing in it stands for NULL.
NoNull(s) == \A i \in DOMAIN s : s[i] # "NULL"

LEMMA OneFragment ==
    ASSUME NEW S, NEW x \in S
    PROVE  <<x>> \in Seq(S) /\ Len(<<x>>) = 1 /\ DOMAIN <<x>> = 1 .. 1 /\ <<x>>[1] = x
<1>1. DOMAIN <<x>> = 1 .. 1 /\ <<x>>[1] = x  OBVIOUS
<1>2. Len(<<x>>) = 1  OBVIOUS
<1>3. <<x>> \in Seq(S)  OBVIOUS
<1>4. QED  BY <1>1, <1>2, <1>3

LEMMA Fragments ==
    /\ "/" \in Fragment /\ "NULL" \in Fragment /\ "=" \in Fragment
    /\ "PA" \in Fragment /\ "TH" \in Fragment /\ "bin" \in Fragment
BY Zenon DEF Fragment

LEMMA EqualsFacts ==
    /\ Equals \in Fragment /\ Equals # Null[1]
    /\ <<Equals>> \in Str /\ Len(<<Equals>>) = 1 /\ <<Equals>>[1] = Equals
<1>1. Equals \in Fragment  BY Fragments, Zenon DEF Equals
<1>2. Equals # "NULL"  BY Zenon DEF Equals
<1>3. Null[1] = "NULL"  BY DEF Null
<1>4. QED  BY <1>1, <1>2, <1>3, OneFragment DEF Str

LEMMA NullString == Null \in Str
BY OneFragment, Fragments, Zenon DEF Null, Str

LEMMA NoNullIsNotNull ==
    ASSUME NEW s, NoNull(s)
    PROVE  s # Null
BY DEF NoNull, Null

\* A part of a string.
LEMMA PartOfString ==
    ASSUME NEW s \in Str, NEW i \in Nat \ {0}, NEW j \in 0 .. Len(s)
    PROVE  /\ SubSeq(s, i, j) \in Str
           /\ NoNull(s) => NoNull(SubSeq(s, i, j))
<1>1. Len(s) \in Nat /\ DOMAIN s = 1 .. Len(s) /\ \A k \in 1 .. Len(s) : s[k] \in Fragment
    BY LenProperties, ElementOfSeq DEF Str
<1>2. \A k \in i .. j : k \in 1 .. Len(s)  BY <1>1
<1>3. /\ SubSeq(s, i, j) \in Seq(Fragment)
      /\ Len(SubSeq(s, i, j)) = IF i <= j THEN j - i + 1 ELSE 0
      /\ \A k \in 1 .. j - i + 1 : SubSeq(s, i, j)[k] = s[i + k - 1]
    BY <1>1, <1>2, SubSeqProperties
<1>4. ASSUME NoNull(s), NEW k \in DOMAIN SubSeq(s, i, j)
      PROVE  SubSeq(s, i, j)[k] # "NULL"
    <2>1. DOMAIN SubSeq(s, i, j) = 1 .. Len(SubSeq(s, i, j))  BY <1>3, LenProperties
    <2>2. k \in 1 .. j - i + 1 /\ i + k - 1 \in i .. j  BY <1>1, <1>3, <2>1
    <2>3. i + k - 1 \in DOMAIN s  BY <1>1, <1>2, <2>2
    <2>4. QED  BY <1>3, <1>4, <2>2, <2>3 DEF NoNull
<1>5. QED  BY <1>3, <1>4 DEF Str, NoNull

LEMMA MinFacts ==
    ASSUME NEW T, T \subseteq Nat, T # {}
    PROVE  Min(T) \in T /\ \A x \in T : Min(T) <= x
<1>1. \E x \in T : \A y \in T : x <= y  BY NatLeast
<1>2. QED  BY <1>1 DEF Min

LEMMA MaxFacts ==
    ASSUME NEW T, T \subseteq Nat, T # {}, NEW n \in Nat, \A x \in T : x <= n
    PROVE  Max(T) \in T /\ \A x \in T : Max(T) >= x
<1>1. \E x \in T : \A y \in T : x >= y  BY NatGreatest
<1>2. QED  BY <1>1 DEF Max

LEMMA TrimType ==
    ASSUME NEW s \in Str, NoNull(s)
    PROVE  trim(s) \in Str /\ NoNull(trim(s))
<1> DEFINE ink == {i \in DOMAIN s : s[i] # Space}
<1>1. Len(s) \in Nat /\ DOMAIN s = 1 .. Len(s)  BY LenProperties DEF Str
<1>2. CASE ink = {}
    <2>1. trim(s) = << >>  BY <1>2 DEF trim
    <2>2. QED  BY <2>1, EmptySeq DEF Str, NoNull
<1>3. CASE ink # {}
    <2>1. ink \subseteq Nat /\ ink \subseteq 1 .. Len(s) /\ \A x \in ink : x <= Len(s)  BY <1>1
    <2>2. trim(s) = SubSeq(s, Min(ink), Max(ink))  BY <1>3 DEF trim
    <2> HIDE DEF ink
    <2>3. Min(ink) \in ink /\ Max(ink) \in ink  BY <1>1, <1>3, <2>1, MinFacts, MaxFacts
    <2>4. PICK lo \in 1 .. Len(s), hi \in 1 .. Len(s) : trim(s) = SubSeq(s, lo, hi)
        BY <2>1, <2>2, <2>3
    <2>5. lo \in Nat \ {0} /\ hi \in 0 .. Len(s)  BY <1>1
    <2>6. QED  BY <2>4, <2>5, PartOfString
<1>4. QED  BY <1>2, <1>3

LEMMA FrontType ==
    ASSUME NEW s \in Str, s # << >>, NoNull(s)
    PROVE  Front(s) \in Str /\ NoNull(Front(s))
<1>1. Len(s) \in Nat \ {0}  BY EmptySeq DEF Str
<1>2. QED  BY <1>1, PartOfString DEF Front

\* CutByTokens shortens a string, once.
LEMMA CutFacts ==
    ASSUME NEW s \in Str, NEW d
    PROVE  /\ CutByTokens(s, d) \in Str
           /\ NoNull(s) => NoNull(CutByTokens(s, d))
           /\ CutByTokens(CutByTokens(s, d), d) = CutByTokens(s, d)
<1> DEFINE at == {i \in DOMAIN s : s[i] = d}
           t == SubSeq(s, 1, Min(at) - 1)
<1>1. Len(s) \in Nat /\ DOMAIN s = 1 .. Len(s) /\ \A k \in 1 .. Len(s) : s[k] \in Fragment
    BY LenProperties, ElementOfSeq DEF Str
<1>2. CASE at = {}
    <2>1. CutByTokens(s, d) = s  BY <1>2 DEF CutByTokens
    <2>2. QED  BY <2>1
<1>3. CASE at # {}
    <2>1. CutByTokens(s, d) = t  BY <1>3 DEF CutByTokens
    <2>2. at \subseteq Nat /\ at \subseteq 1 .. Len(s)  BY <1>1
    <2>3. Min(at) \in at /\ \A x \in at : Min(at) <= x
        <3> HIDE DEF at
        <3>1. QED  BY <1>3, <2>2, MinFacts
    <2>4. PICK m : m = Min(at)  OBVIOUS
    <2>5. m \in 1 .. Len(s) /\ \A k \in 1 .. (m - 1) : s[k] # d
        <3>1. m \in 1 .. Len(s) /\ \A x \in at : m <= x  BY <2>2, <2>3, <2>4
        <3>2. QED  BY <1>1, <3>1
    <2>6. m - 1 \in 0 .. Len(s) /\ 1 \in Nat \ {0}  BY <1>1, <2>5
    <2>7. t \in Str /\ (NoNull(s) => NoNull(t))  BY <2>6, PartOfString, <2>4
    <2>8. Len(t) = m - 1 /\ \A k \in 1 .. (m - 1) : t[k] = s[k]
        <3>1. \A k \in 1 .. (m - 1) : s[k] \in Fragment  BY <1>1, <2>5
        <3>2. /\ Len(SubSeq(s, 1, m - 1)) = IF 1 <= m - 1 THEN m - 1 - 1 + 1 ELSE 0
              /\ \A k \in 1 .. m - 1 - 1 + 1 : SubSeq(s, 1, m - 1)[k] = s[1 + k - 1]
            BY <2>5, <3>1, SubSeqProperties
        <3>3. t = SubSeq(s, 1, m - 1)  BY <2>4
        <3> HIDE DEF t
        <3>4. QED  BY <1>1, <2>5, <3>2, <3>3
    <2> HIDE DEF t
    <2>9. DOMAIN t = 1 .. (m - 1)  BY <2>7, <2>8, LenProperties DEF Str
    <2>10. {i \in DOMAIN t : t[i] = d} = {}  BY <2>5, <2>8, <2>9
    <2>11. CutByTokens(t, d) = t  BY <2>10 DEF CutByTokens
    <2>12. QED  BY <2>1, <2>7, <2>11
<1>4. QED  BY <1>2, <1>3

LEMMA CutNull ==
    ASSUME NEW d, d # "NULL"
    PROVE  CutByTokens(Null, d) = Null
<1>1. {i \in DOMAIN Null : Null[i] = d} = {}  BY DEF Null
<1>2. QED  BY <1>1 DEF CutByTokens

-----------------------------------------------------------------------------
(* strtok, and the words of a line.                                        *)

\* strtok passes over delimiters and returns the fragments up to the next one.
LEMMA StrtokFacts ==
    ASSUME NEW s \in Str, NEW p \in 1 .. (Len(s) + 1), NEW d
    PROVE  \/ /\ \A i \in p .. Len(s) : s[i] = d
              /\ strtok(s, p, d) = [token |-> Null, pos |-> Len(s) + 1]
           \/ \E b \in p .. Len(s) : \E e \in b .. Len(s) :
                /\ \A i \in p .. (b - 1) : s[i] = d
                /\ \A i \in b .. e : s[i] # d
                /\ e = Len(s) \/ s[e + 1] = d
                /\ strtok(s, p, d).token = SubSeq(s, b, e)
                /\ strtok(s, p, d).pos = IF e = Len(s) THEN Len(s) + 1 ELSE e + 2
<1> DEFINE ink == {i \in p .. Len(s) : s[i] # d}
           stops == {i \in Min(ink) .. Len(s) : s[i] = d}
<1>1. Len(s) \in Nat  BY LenProperties DEF Str
<1>2. CASE ink = {}
    <2>1. strtok(s, p, d) = [token |-> Null, pos |-> Len(s) + 1]
        BY <1>2 DEF strtok
    <2>2. QED  BY <1>2, <2>1
<1>3. CASE ink # {}
    <2>1. ink \subseteq Nat  BY <1>1
    <2>2. Min(ink) \in ink /\ \A x \in ink : Min(ink) <= x
        <3> HIDE DEF ink
        <3>1. QED  BY <1>3, <2>1, MinFacts
    <2>3. PICK b : b = Min(ink)  OBVIOUS
    <2>4. b \in p .. Len(s) /\ s[b] # d /\ \A i \in p .. (b - 1) : s[i] = d
        <3>1. b \in ink /\ \A x \in ink : b <= x
            <4> HIDE DEF ink
            <4>1. QED  BY <2>2, <2>3
        <3>2. QED  BY <1>1, <3>1
    <2> DEFINE ends == {i \in b .. Len(s) : s[i] = d}
    <2>5. strtok(s, p, d) =
            IF ends = {} THEN [token |-> SubSeq(s, b, Len(s)), pos |-> Len(s) + 1]
            ELSE [token |-> SubSeq(s, b, Min(ends) - 1), pos |-> Min(ends) + 1]
        BY <1>3, <2>3 DEF strtok
    <2>6. CASE ends = {}
        <3>1. PICK w : w = SubSeq(s, b, Len(s))  OBVIOUS
        <3>2. strtok(s, p, d) = [token |-> w, pos |-> Len(s) + 1]  BY <2>5, <2>6, <3>1
        <3>3. \A i \in b .. Len(s) : s[i] # d  BY <2>6
        <3>4. Len(s) \in b .. Len(s)  BY <1>1, <2>4
        <3> HIDE DEF ends, ink
        <3>5. strtok(s, p, d).token = w  BY <3>2
        <3>6. strtok(s, p, d).pos = Len(s) + 1  BY <3>2
        <3>7. QED  BY <2>4, <3>1, <3>3, <3>4, <3>5, <3>6
    <2>7. CASE ends # {}
        <3>1. ends \subseteq Nat  BY <1>1, <2>4
        <3>2. Min(ends) \in ends /\ \A x \in ends : Min(ends) <= x
            <4> HIDE DEF ends
            <4>1. QED  BY <2>7, <3>1, MinFacts
        <3>3. PICK q : q = Min(ends)  OBVIOUS
        <3>4. q \in b .. Len(s) /\ s[q] = d /\ \A i \in b .. (q - 1) : s[i] # d
            <4>1. q \in ends /\ \A x \in ends : q <= x
                <5> HIDE DEF ends
                <5>1. QED  BY <3>2, <3>3
            <4>2. QED  BY <1>1, <2>4, <4>1
        <3> DEFINE e == q - 1
        <3>5. PICK w : w = SubSeq(s, b, e)  OBVIOUS
        <3>6. strtok(s, p, d) = [token |-> w, pos |-> q + 1]
            <4> HIDE DEF ends
            <4>1. QED  BY <2>5, <2>7, <3>3, <3>5
        <3>7. e \in b .. Len(s) /\ e # Len(s) /\ e + 1 = q /\ e + 2 = q + 1
            BY <1>1, <2>4, <3>4
        <3>8. s[e + 1] = d /\ \A i \in b .. e : s[i] # d  BY <3>4, <3>7
        <3> HIDE DEF e, ends, ink
        <3>9. strtok(s, p, d).token = w  BY <3>6
        <3>10. strtok(s, p, d).pos = q + 1  BY <3>6
        <3>11. QED  BY <2>4, <3>5, <3>7, <3>8, <3>9, <3>10
    <2>8. QED  BY <2>6, <2>7
<1>4. QED  BY <1>2, <1>3

\* A run begins where a fragment follows a delimiter or nothing.
LEMMA BeginFacts ==
    ASSUME NEW s \in Str, NEW d, NEW b \in 1 .. Len(s)
    PROVE  /\ b \in RunBegins(s, d) => s[b] # d /\ (b = 1 \/ s[b - 1] = d)
           /\ \A e \in b .. Len(s) : IsRun(s, d, b, e) => b \in RunBegins(s, d)
<1>1. DOMAIN s = 1 .. Len(s) /\ Len(s) \in Nat  BY LenProperties DEF Str
<1>2. ASSUME b \in RunBegins(s, d)
      PROVE  s[b] # d /\ (b = 1 \/ s[b - 1] = d)
    <2>1. PICK e \in b .. Len(s) : IsRun(s, d, b, e)  BY <1>2 DEF RunBegins
    <2>2. b \in b .. e  BY <1>1, <2>1
    <2>3. QED  BY <2>1, <2>2 DEF IsRun
<1>3. QED  BY <1>1, <1>2 DEF RunBegins

LEMMA BeginsFinite ==
    ASSUME NEW s \in Str, NEW d
    PROVE  /\ RunBegins(s, d) \subseteq 1 .. Len(s)
           /\ IsFiniteSet(RunBegins(s, d))
           /\ Cardinality(RunBegins(s, d)) \in Nat
           /\ DOMAIN Runs(s, d) = 1 .. Cardinality(RunBegins(s, d))
           /\ Len(Runs(s, d)) = Cardinality(RunBegins(s, d))
<1>1. DOMAIN s = 1 .. Len(s) /\ Len(s) \in Nat  BY LenProperties DEF Str
<1>2. RunBegins(s, d) \subseteq 1 .. Len(s)  BY <1>1 DEF RunBegins
<1>3. IsFiniteSet(1 .. Len(s))  BY <1>1, FS_Interval
<1>4. IsFiniteSet(RunBegins(s, d))  BY <1>2, <1>3, FS_Subset
<1>5. Cardinality(RunBegins(s, d)) \in Nat  BY <1>4, FS_CardinalityType
<1>6. DOMAIN Runs(s, d) = 1 .. Cardinality(RunBegins(s, d))  BY DEF Runs
<1>7. Len(Runs(s, d)) = Cardinality(RunBegins(s, d))  BY <1>5 DEF Runs
<1>8. QED  BY <1>2, <1>4, <1>5, <1>6, <1>7

\* The runs that begin before position p.
Before(s, d, p) == {c \in RunBegins(s, d) : c < p}

\* Where strtok starts: at the beginning, at the end or after a delimiter.
Boundary(s, d, p) ==
    p \in 1 .. (Len(s) + 1) /\ (p = 1 \/ p = Len(s) + 1 \/ s[p - 1] = d)

LEMMA BeforeFinite ==
    ASSUME NEW s \in Str, NEW d, NEW p
    PROVE  /\ IsFiniteSet(Before(s, d, p))
           /\ Cardinality(Before(s, d, p)) \in Nat
           /\ Cardinality(Before(s, d, p)) <= Cardinality(RunBegins(s, d))
<1>1. IsFiniteSet(RunBegins(s, d))  BY BeginsFinite
<1>2. Before(s, d, p) \subseteq RunBegins(s, d)  BY DEF Before
<1>3. QED  BY <1>1, <1>2, FS_Subset, FS_CardinalityType

\* A run with k runs before it is number k + 1.
LEMMA NthRun ==
    ASSUME NEW s \in Str, NEW d, NEW b \in RunBegins(s, d), NEW e \in b .. Len(s),
           IsRun(s, d, b, e)
    PROVE  LET k == Cardinality(Before(s, d, b)) + 1
           IN  k \in 1 .. Len(Runs(s, d)) /\ Runs(s, d)[k] = SubSeq(s, b, e)
<1> DEFINE begins == RunBegins(s, d)
           n == Cardinality(Before(s, d, b))
           N == Cardinality(begins)
<1>1. /\ begins \subseteq 1 .. Len(s) /\ IsFiniteSet(begins) /\ N \in Nat
      /\ Len(Runs(s, d)) = N /\ Len(s) \in Nat
    BY BeginsFinite, LenProperties DEF Str
<1>2. n \in Nat /\ n <= N  BY BeforeFinite
<1>3. n # N
    <2> SUFFICES ASSUME n = N PROVE FALSE  OBVIOUS
    <2>1. Before(s, d, b) \subseteq begins  BY DEF Before
    <2>2. Before(s, d, b) = begins  BY <1>1, <2>1, FS_Subset
    <2>3. b \in Before(s, d, b)  BY <2>2
    <2>4. QED  BY <1>1, <2>3 DEF Before
<1>4. \A c \in begins : Before(s, d, c) = {x \in begins : x < c}  BY DEF Before
<1>5. ASSUME NEW x \in begins, NEW y \in begins, x < y
      PROVE  Cardinality(Before(s, d, x)) # Cardinality(Before(s, d, y))
    <2>1. IsFiniteSet(Before(s, d, y)) /\ Before(s, d, x) \subseteq Before(s, d, y)
        <3>1. \A c \in begins : c < x => c < y  BY <1>1, <1>5
        <3>2. QED  BY <3>1, BeforeFinite DEF Before
    <2>2. x \in Before(s, d, y) /\ x \notin Before(s, d, x)
        BY <1>1, <1>5 DEF Before
    <2>3. QED  BY <2>1, <2>2, FS_Subset
<1>6. \A x \in begins : Cardinality(Before(s, d, x)) = n => x = b
    <2> SUFFICES ASSUME NEW x \in begins, Cardinality(Before(s, d, x)) = n, x # b
                 PROVE  FALSE
        OBVIOUS
    <2>1. x < b \/ b < x  BY <1>1
    <2>2. QED  BY <1>5, <2>1
<1>7. \A f \in b .. Len(s) : IsRun(s, d, b, f) => f = e
    <2> SUFFICES ASSUME NEW f \in b .. Len(s), IsRun(s, d, b, f), f # e
                 PROVE  FALSE
        OBVIOUS
    <2>1. b \in Nat /\ e \in Nat /\ f \in Nat  BY <1>1
    <2>2. CASE f < e
        <3>1. f + 1 \in b .. e /\ f # Len(s)  BY <1>1, <2>1, <2>2
        <3>2. QED  BY <3>1 DEF IsRun
    <2>3. CASE e < f
        <3>1. e + 1 \in b .. f /\ e # Len(s)  BY <1>1, <2>1, <2>3
        <3>2. QED  BY <3>1 DEF IsRun
    <2>4. QED  BY <2>1, <2>2, <2>3
<1> DEFINE rank(c) == Cardinality({x \in begins : x < c})
           begin(k) == CHOOSE c \in begins : rank(c) = k - 1
           end(k) == CHOOSE f \in begin(k) .. Len(s) : IsRun(s, d, begin(k), f)
<1>8. PICK m \in 1 .. N : m = n + 1 /\ m - 1 = n
    <2> HIDE DEF n, N
    <2>1. QED  BY <1>1, <1>2, <1>3
<1>9. begin(m) = b
    <2>1. \A c \in begins : rank(c) = m - 1 <=> c = b  BY <1>4, <1>6, <1>8
    <2>2. b \in begins  OBVIOUS
    <2> HIDE DEF begins, rank
    <2>3. \E c \in begins : rank(c) = m - 1  BY <2>1, <2>2
    <2>4. begin(m) \in begins /\ rank(begin(m)) = m - 1  BY <2>3
    <2> HIDE DEF begin
    <2>5. QED  BY <2>1, <2>4
<1>10. end(m) = e
    <2> HIDE DEF begin
    <2>1. QED  BY <1>7, <1>9
<1>11. Runs(s, d) = [k \in 1 .. N |-> SubSeq(s, begin(k), end(k))]  BY DEF Runs
<1> HIDE DEF begin, end, n, N
<1>12. Runs(s, d)[m] = SubSeq(s, b, e)  BY <1>9, <1>10, <1>11
<1>13. QED  BY <1>1, <1>8, <1>12 DEF n

\* From a boundary strtok finds the next run and goes to a boundary after it.
LEMMA NextRun ==
    ASSUME NEW s \in Str, NEW d, NEW p, Boundary(s, d, p),
           NEW b \in p .. Len(s), NEW e \in b .. Len(s),
           \A i \in p .. (b - 1) : s[i] = d,
           \A i \in b .. e : s[i] # d,
           e = Len(s) \/ s[e + 1] = d
    PROVE  LET q == IF e = Len(s) THEN Len(s) + 1 ELSE e + 2
           IN  /\ b \in RunBegins(s, d) /\ IsRun(s, d, b, e)
               /\ Before(s, d, b) = Before(s, d, p)
               /\ Boundary(s, d, q)
               /\ Before(s, d, q) = Before(s, d, p) \cup {b}
               /\ b \notin Before(s, d, p)
<1> DEFINE q == IF e = Len(s) THEN Len(s) + 1 ELSE e + 2
           begins == RunBegins(s, d)
<1>1. Len(s) \in Nat /\ p \in 1 .. (Len(s) + 1)  BY LenProperties DEF Str, Boundary
<1>2. p \in Nat /\ b \in 1 .. Len(s) /\ e \in 1 .. Len(s) /\ p <= b /\ b <= e  BY <1>1
<1>3. IsRun(s, d, b, e)
    <2>1. b = 1 \/ s[b - 1] = d
        <3>1. CASE b = p  BY <1>1, <1>2, <3>1 DEF Boundary
        <3>2. CASE b # p
            <4>1. b - 1 \in p .. (b - 1)  BY <1>1, <1>2, <3>2
            <4>2. QED  BY <4>1
        <3>3. QED  BY <3>1, <3>2
    <2>2. QED  BY <2>1 DEF IsRun
<1>4. b \in begins  BY <1>2, <1>3, BeginFacts
<1>5. \A c \in begins : /\ c \in 1 .. Len(s) /\ s[c] # d
                        /\ c = 1 \/ s[c - 1] = d
    BY BeginsFinite, BeginFacts
<1>6. \A c \in begins : c < b => c < p
    <2> SUFFICES ASSUME NEW c \in begins, c < b, ~ (c < p) PROVE FALSE  OBVIOUS
    <2>1. c \in p .. (b - 1)  BY <1>1, <1>2, <1>5
    <2>2. QED  BY <1>5, <2>1
<1>7. q \in 1 .. (Len(s) + 1) /\ q > b
    BY <1>1, <1>2
<1>8. Boundary(s, d, q)
    <2>1. CASE e = Len(s)  BY <1>7, <2>1 DEF Boundary
    <2>2. CASE e # Len(s)
        <3>1. q - 1 = e + 1  BY <1>2, <2>2
        <3>2. QED  BY <1>7, <2>2, <3>1 DEF Boundary
    <2>3. QED  BY <2>1, <2>2
<1>9. \A c \in begins : c < q => c <= b
    <2> SUFFICES ASSUME NEW c \in begins, c < q, ~ (c <= b) PROVE FALSE  OBVIOUS
    <2>1. c \in Nat /\ c > b /\ c # 1  BY <1>2, <1>5
    <2>2. c <= e + 1 /\ c <= Len(s)  BY <1>1, <1>2, <1>5, <2>1
    <2>3. c - 1 \in b .. e  BY <1>2, <2>1, <2>2
    <2>4. QED  BY <1>5, <2>1, <2>3
<1> HIDE DEF q, begins
<1>10. \A c \in begins : c < q <=> c < p \/ c = b
    BY <1>1, <1>2, <1>5, <1>6, <1>7, <1>9
<1>11. Before(s, d, b) = Before(s, d, p)
    BY <1>1, <1>2, <1>5, <1>6 DEF Before, begins
<1>12. Before(s, d, q) = Before(s, d, p) \cup {b}
    BY <1>4, <1>10 DEF Before, begins
<1>13. b \notin Before(s, d, p)  BY <1>2 DEF Before
<1>14. QED  BY <1>3, <1>4, <1>8, <1>11, <1>12, <1>13 DEF q, begins

\* When strtok finds nothing, no run is left.
LEMMA NoMoreRuns ==
    ASSUME NEW s \in Str, NEW d, NEW p \in 1 .. (Len(s) + 1),
           \A i \in p .. Len(s) : s[i] = d
    PROVE  Before(s, d, p) = RunBegins(s, d)
<1>1. \A c \in RunBegins(s, d) : c \in 1 .. Len(s) /\ s[c] # d
    BY BeginsFinite, BeginFacts
<1>2. Len(s) \in Nat  BY LenProperties DEF Str
<1>3. \A c \in RunBegins(s, d) : c < p  BY <1>1, <1>2
<1>4. QED  BY <1>3 DEF Before
-----------------------------------------------------------------------------
(* The words of a line.                                                    *)

\* Entry i of the arrays is the word of the line with that number.
Holds(i) ==
    LET word == Runs(command, Space)[i + 1] IN
    /\ word \in Str /\ NoNull(cells[i])
    /\ \/ cells[i] = word
       \/ i >= ARGV /\ cells[i] = CutByTokens(word, Semicolon)

\* The runs strtok has passed are in argv.
Reading ==
    pc = "words" =>
        /\ argc \in 0 .. MAX_WORDS
        /\ argc = 0 => pos = 1
        /\ Boundary(command, Space, pos)
        /\ IF RunBegins(command, Space) = {}
           THEN argc = 0 \/ (argc = 1 /\ cells[0] = Null)
           ELSE /\ Cardinality(Before(command, Space, pos)) = argc
                /\ \A i \in 0 .. (argc - 1) : Holds(i)

\* The arrays hold the line, to its end or as far as they reach.
Held ==
    LET n == Cardinality(RunBegins(command, Space)) IN
    IF RunBegins(command, Space) = {} THEN argc = 1 /\ cells[0] = Null
    ELSE \/ /\ n <= MAX_WORDS /\ argc = n /\ cells[n] = Null
            /\ \A i \in 0 .. (n - 1) : Holds(i)
         \/ /\ n > MAX_WORDS /\ argc = MAX_WORDS + 1
            /\ \A i \in 0 .. MAX_WORDS : Holds(i)

\* The inductive invariant: strings are strings, and argv fills up word by word.
WordsInv ==
    /\ command \in Str /\ NoNull(command)
    /\ cells \in [Cell -> Str]
    /\ Reading
    /\ pc = "command" => Held

LEMMA CellFacts ==
    /\ ARGV \in Nat /\ MAX_WORDS \in Nat /\ MAX_WORDS >= 4 /\ CELLS \in Nat
    /\ 0 .. MAX_WORDS \subseteq Cell /\ Cell \subseteq Nat
    /\ ARGV < CELLS
BY ShellAssumption DEF MAX_WORDS, CELLS, Cell

LEMMA WordsInit == Init => WordsInv
<1> SUFFICES ASSUME Init PROVE WordsInv  OBVIOUS
<1>1. << >> \in Str /\ NoNull(<< >>)  BY EmptySeq DEF Str, NoNull
<1>2. InitialPath \in Str
    <2>1. PATH \in Str  BY Fragments DEF PATH, Str
    <2>2. <<Equals>> \in Str  BY EqualsFacts
    <2>3. <<"/", "bin">> \in Str  BY Fragments DEF Str
    <2>4. PATH \o <<Equals>> \in Str  BY <2>1, <2>2, ConcatProperties DEF Str
    <2>5. QED  BY <2>3, <2>4, ConcatProperties DEF InitialPath, Str
<1>3. cells \in [Cell -> Str]  BY <1>2, NullString DEF Init
<1>4. command \in Str /\ NoNull(command)  BY <1>1 DEF Init
<1>5. pc = "prompt"  BY DEF Init
<1>6. QED  BY <1>3, <1>4, <1>5 DEF WordsInv, Reading

\* A line is read: strtok starts at its beginning.
LEMMA ReadLineWords ==
    ASSUME WordsInv, NEW line \in Lines, ReadLine(line)
    PROVE  WordsInv'
<1> DEFINE text == trim(line)
<1>1. line \in Str /\ NoNull(line)
    <2>1. line \in Seq(STRING) /\ \A i \in DOMAIN line : line[i] # Null[1]
        BY ShellAssumption
    <2>2. STRING \subseteq Fragment  BY Zenon DEF Fragment
    <2>3. line \in Str  BY <2>1, <2>2, SeqMonotonic DEF Str
    <2>4. Null[1] = "NULL"  BY DEF Null
    <2>5. QED  BY <2>1, <2>3, <2>4 DEF NoNull
<1>2. text \in Str /\ NoNull(text)  BY <1>1, TrimType
<1>3. /\ text # << >> /\ command' = IF bg' THEN Front(text) ELSE text
      /\ pos' = 1 /\ argc' = 0 /\ pc' = "words" /\ cells' = cells
    BY DEF ReadLine
<1> HIDE DEF text
<1>4. command' \in Str /\ NoNull(command')  BY <1>2, <1>3, FrontType
<1>5. Len(command') \in Nat  BY <1>4, LenProperties DEF Str
<1>6. Boundary(command', Space, 1)  BY <1>5 DEF Boundary
<1>7. Before(command', Space, 1) = {}
    <2>1. RunBegins(command', Space) \subseteq 1 .. Len(command')  BY <1>4, BeginsFinite
    <2>2. QED  BY <1>5, <2>1 DEF Before
<1>8. Cardinality(Before(command', Space, 1)) = 0  BY <1>7, FS_EmptySet
<1>9. Reading'  BY <1>3, <1>6, <1>8, CellFacts DEF Reading
<1>10. QED  BY <1>3, <1>4, <1>9 DEF WordsInv

\* strtok and the assignment to argv.
LEMMA NextWordWords == WordsInv /\ NextWord => WordsInv'
<1> SUFFICES ASSUME WordsInv, NextWord PROVE WordsInv'  OBVIOUS
<1> DEFINE r == strtok(command, pos, Space)
           begins == RunBegins(command, Space)
           n == Cardinality(begins)
<1>1. /\ pc = "words" /\ command' = command /\ pos' = r.pos
      /\ cells' = [cells EXCEPT ![argc] = r.token]
      /\ IF argc > 0 /\ r.token = Null THEN pc' = "command" /\ argc' = argc
         ELSE /\ argc' = argc + 1
              /\ pc' = IF argc = MAX_WORDS THEN "command" ELSE "words"
    BY DEF NextWord
<1>2. /\ command \in Str /\ NoNull(command) /\ cells \in [Cell -> Str]
      /\ argc \in 0 .. MAX_WORDS /\ argc \in Cell
      /\ Boundary(command, Space, pos) /\ pos \in 1 .. (Len(command) + 1)
      /\ argc = 0 => pos = 1
    BY <1>1, CellFacts DEF WordsInv, Reading, Boundary
<1>3. /\ begins = {} => argc = 0 \/ (argc = 1 /\ cells[0] = Null)
      /\ begins # {} => /\ Cardinality(Before(command, Space, pos)) = argc
                        /\ \A i \in 0 .. (argc - 1) : Holds(i)
    BY <1>1 DEF WordsInv, Reading
<1>4. ASSUME NEW i \in 0 .. (argc - 1), Holds(i) PROVE Holds(i)'
    <2>1. i \in Cell /\ i # argc  BY <1>2, CellFacts
    <2>2. cells'[i] = cells[i]  BY <1>1, <1>2, <2>1
    <2>3. QED  BY <1>1, <1>4, <2>2 DEF Holds
<1>5. cells'[argc] = r.token  BY <1>1, <1>2
<1>6. /\ Len(command) \in Nat /\ n \in Nat
      /\ begins \subseteq 1 .. Len(command)
    BY <1>2, BeginsFinite, LenProperties DEF Str
<1>7. CASE /\ \A i \in pos .. Len(command) : command[i] = Space
           /\ r = [token |-> Null, pos |-> Len(command) + 1]
    <2>1. r.token = Null /\ r.pos = Len(command) + 1  BY <1>7
    <2>2. Before(command, Space, pos) = begins  BY <1>2, <1>7, NoMoreRuns
    <2> HIDE DEF r, begins
    <2>3. cells' \in [Cell -> Str]  BY <1>1, <1>2, <2>1, NullString
    <2>4. CASE argc = 0
        <3>1. begins = {}
            <4>1. pos = 1  BY <1>2, <2>4
            <4>2. QED  BY <1>6, <2>2, <4>1 DEF Before
        <3>2. argc' = 1 /\ pc' = "words" /\ pos' = Len(command) + 1 /\ cells'[0] = Null
            BY <1>1, <1>5, <2>1, <2>4, CellFacts
        <3>3. Boundary(command, Space, Len(command) + 1)  BY <1>6 DEF Boundary
        <3>4. Reading'  BY <1>1, <3>1, <3>2, <3>3, CellFacts DEF Reading, begins
        <3>5. QED  BY <1>1, <1>2, <2>3, <3>2, <3>4 DEF WordsInv
    <2>5. CASE argc # 0
        <3>1. pc' = "command" /\ argc' = argc /\ cells'[argc] = Null
            BY <1>1, <1>2, <1>5, <2>1, <2>5
        <3>2. CASE begins = {}
            <4>1. argc = 1 /\ cells'[0] = Null
                BY <1>1, <1>2, <1>3, <2>5, <3>2, CellFacts
            <4>2. Held'  BY <1>1, <3>1, <3>2, <4>1 DEF Held, begins
            <4>3. Reading'  BY <3>1 DEF Reading
            <4>4. QED  BY <1>1, <1>2, <2>3, <4>2, <4>3 DEF WordsInv
        <3>3. CASE begins # {}
            <4>1. n = argc /\ n <= MAX_WORDS  BY <1>2, <1>3, <2>2, <3>3, CellFacts
            <4>2. \A i \in 0 .. (n - 1) : Holds(i)'  BY <1>3, <1>4, <3>3, <4>1
            <4> HIDE DEF n
            <4>3. Held'  BY <1>1, <3>1, <3>3, <4>1, <4>2 DEF Held, begins, n
            <4>4. Reading'  BY <3>1 DEF Reading
            <4>5. QED  BY <1>1, <1>2, <2>3, <4>3, <4>4 DEF WordsInv
        <3>4. QED  BY <3>2, <3>3
    <2>6. QED  BY <2>4, <2>5
<1>8. ASSUME NEW b \in pos .. Len(command), NEW e \in b .. Len(command),
             \A i \in pos .. (b - 1) : command[i] = Space,
             \A i \in b .. e : command[i] # Space,
             e = Len(command) \/ command[e + 1] = Space,
             r.token = SubSeq(command, b, e),
             r.pos = IF e = Len(command) THEN Len(command) + 1 ELSE e + 2
      PROVE  WordsInv'
    <2> HIDE DEF r
    <2>1. /\ b \in begins /\ IsRun(command, Space, b, e)
          /\ Before(command, Space, b) = Before(command, Space, pos)
          /\ Boundary(command, Space, r.pos)
          /\ Before(command, Space, r.pos) = Before(command, Space, pos) \cup {b}
          /\ b \notin Before(command, Space, pos)
        <3> DEFINE q == IF e = Len(command) THEN Len(command) + 1 ELSE e + 2
        <3>1. /\ b \in RunBegins(command, Space) /\ IsRun(command, Space, b, e)
              /\ Before(command, Space, b) = Before(command, Space, pos)
              /\ Boundary(command, Space, q)
              /\ Before(command, Space, q) = Before(command, Space, pos) \cup {b}
              /\ b \notin Before(command, Space, pos)
            <4> HIDE DEF begins
            <4>1. QED  BY ONLY <1>2, <1>8, NextRun
        <3>2. r.pos = q  BY <1>8
        <3> HIDE DEF q
        <3>3. QED  BY <3>1, <3>2
    <2>2. begins # {}  BY <2>1
    <2>3. Cardinality(Before(command, Space, pos)) = argc
          /\ \A i \in 0 .. (argc - 1) : Holds(i)
        BY <1>3, <2>2
    <2>4. Cardinality(Before(command, Space, b)) = argc  BY <2>1, <2>3
    <2>5. argc + 1 \in 1 .. Len(Runs(command, Space))
          /\ Runs(command, Space)[argc + 1] = SubSeq(command, b, e)
        BY <1>2, <2>1, <2>4, NthRun
    <2>6. r.token \in Str /\ NoNull(r.token)
        <3>1. b \in Nat \ {0} /\ e \in 0 .. Len(command)  BY <1>2, <1>6
        <3>2. QED  BY <1>2, <1>8, <3>1, PartOfString
    <2>7. r.token # Null  BY <2>6, NoNullIsNotNull
    <2>8. cells' \in [Cell -> Str]  BY <1>1, <1>2, <2>6
    <2>9. argc' = argc + 1 /\ pc' = IF argc = MAX_WORDS THEN "command" ELSE "words"
        BY <1>1, <2>7
    <2>10. ASSUME NEW i, i = argc PROVE Holds(i)'
        <3>1. cells'[i] = Runs(command', Space)[i + 1]
            BY <1>1, <1>5, <1>8, <2>5, <2>10
        <3>2. cells'[i] \in Str /\ NoNull(cells'[i])  BY <1>5, <2>6, <2>10
        <3>3. QED  BY <3>1, <3>2 DEF Holds
    <2>11. \A i \in 0 .. argc : Holds(i)'
        <3> SUFFICES ASSUME NEW i \in 0 .. argc PROVE Holds(i)'  OBVIOUS
        <3>1. CASE i = argc  BY <2>10, <3>1
        <3>2. CASE i # argc
            <4>1. i \in 0 .. (argc - 1)  BY <1>2, <3>2
            <4>2. QED  BY <1>4, <2>3, <4>1
        <3>3. QED  BY <3>1, <3>2
    <2>12. Cardinality(Before(command, Space, r.pos)) = argc + 1
        <3>1. IsFiniteSet(Before(command, Space, pos))  BY <1>2, BeforeFinite
        <3>2. QED  BY <2>1, <2>3, <3>1, FS_AddElement
    <2>13. CASE argc = MAX_WORDS
        <3>1. n > MAX_WORDS /\ argc' = MAX_WORDS + 1 /\ pc' = "command"
            BY <1>2, <1>6, <2>5, <2>9, <2>13, BeginsFinite, CellFacts
        <3>2. \A i \in 0 .. MAX_WORDS : Holds(i)'  BY <2>11, <2>13
        <3> HIDE DEF n, begins
        <3>3. Held'  BY <1>1, <2>2, <3>1, <3>2 DEF Held, n, begins
        <3>4. Reading'  BY <3>1 DEF Reading
        <3>5. QED  BY <1>1, <1>2, <2>8, <3>3, <3>4 DEF WordsInv
    <2>14. CASE argc # MAX_WORDS
        <3>1. /\ argc' \in 0 .. MAX_WORDS /\ argc' # 0 /\ pc' = "words"
              /\ argc' - 1 = argc
            BY <1>2, <2>9, <2>14, CellFacts
        <3>2. \A i \in 0 .. (argc' - 1) : Holds(i)'  BY <2>11, <3>1
        <3>3. Cardinality(Before(command', Space, pos')) = argc'
            BY <1>1, <2>9, <2>12
        <3>4. Boundary(command', Space, pos')  BY <1>1, <2>1
        <3>5. RunBegins(command', Space) # {}  BY <1>1, <2>2
        <3>6. Reading'  BY <3>1, <3>2, <3>3, <3>4, <3>5 DEF Reading
        <3>7. QED  BY <1>1, <1>2, <2>8, <3>1, <3>6 DEF WordsInv
    <2>15. QED  BY <2>13, <2>14
<1>9. QED
    <2> HIDE DEF r
    <2>1. QED  BY <1>2, <1>7, <1>8, StrtokFacts DEF r

\* Nothing the invariant is about changes.
LEMMA WordsUnchanged ==
    ASSUME WordsInv, UNCHANGED <<command, pos, argc, cells>>,
           pc' = pc \/ pc' \notin {"words", "command"}
    PROVE  WordsInv'
<1>1. \A i : Holds(i)' <=> Holds(i)  BY DEF Holds
<1>2. Reading'  BY <1>1 DEF WordsInv, Reading
<1>3. Held' <=> Held  BY <1>1 DEF Held
<1>4. QED  BY <1>2, <1>3 DEF WordsInv

\* A child that searches PATH cuts off strings, but none in argv.
LEMMA CutCells ==
    ASSUME WordsInv, NEW name, cells' \in Cuts(name, env)
    PROVE  /\ cells' \in [Cell -> Str]
           /\ \A i \in Cell :
                \/ cells'[i] = cells[i]
                \/ i >= ARGV /\ cells'[i] = CutByTokens(cells[i], Semicolon)
<1>1. cells \in [Cell -> Str]  BY DEF WordsInv
<1>2. CASE cells' = cells  BY <1>1, <1>2
<1>3. ASSUME NEW K \in SUBSET PathEntries(env),
             cells' = [i \in Cell |-> IF i - ARGV + 1 \in K
                                      THEN CutByTokens(cells[i], Semicolon)
                                      ELSE cells[i]]
      PROVE  /\ cells' \in [Cell -> Str]
             /\ \A i \in Cell :
                \/ cells'[i] = cells[i]
                \/ i >= ARGV /\ cells'[i] = CutByTokens(cells[i], Semicolon)
    <2>1. \A i \in Cell : CutByTokens(cells[i], Semicolon) \in Str  BY <1>1, CutFacts
    <2>2. cells' \in [Cell -> Str]  BY <1>1, <1>3, <2>1
    <2>3. PICK n : PathEntries(env) \subseteq 1 .. n
        <3>1. PICK n : DOMAIN env = 1 .. n  BY DEF env, ListFrom
        <3>2. PathEntries(env) \subseteq 1 .. n  BY <3>1 DEF PathEntries
        <3>3. QED  BY <3>2
    <2>4. \A i \in Cell : i - ARGV + 1 \in K => i >= ARGV
        BY <2>3, CellFacts
    <2>5. QED  BY <1>3, <2>2, <2>4
<1>4. QED  BY <1>2, <1>3 DEF Cuts

LEMMA CutWords ==
    ASSUME WordsInv, NEW name, cells' \in Cuts(name, env),
           UNCHANGED <<command, pos, argc, pc>>
    PROVE  WordsInv' /\ (Held => Held')
<1>1. /\ cells \in [Cell -> Str] /\ cells' \in [Cell -> Str]
      /\ command \in Str /\ NoNull(command)
      /\ \A i \in Cell :
            \/ cells'[i] = cells[i]
            \/ i >= ARGV /\ cells'[i] = CutByTokens(cells[i], Semicolon)
    BY CutCells DEF WordsInv
<1>2. ASSUME NEW i \in Cell, cells[i] = Null PROVE cells'[i] = Null
    <2>1. Semicolon # "NULL"  BY Zenon DEF Semicolon
    <2>2. CutByTokens(Null, Semicolon) = Null  BY <2>1, CutNull
    <2>3. QED  BY <1>1, <1>2, <2>2
<1>3. ASSUME NEW i \in Cell, Holds(i) PROVE Holds(i)'
    <2> DEFINE word == Runs(command, Space)[i + 1]
               cut == CutByTokens(cells[i], Semicolon)
    <2>1. /\ word \in Str /\ NoNull(cells[i])
          /\ cells[i] = word \/ (i >= ARGV /\ cells[i] = CutByTokens(word, Semicolon))
        BY <1>3 DEF Holds
    <2>2. NoNull(cut) /\ CutByTokens(cut, Semicolon) = cut  BY <1>1, <2>1, CutFacts
    <2>3. CASE cells'[i] = cells[i]
        BY <2>1, <2>3 DEF Holds
    <2>4. CASE i >= ARGV /\ cells'[i] = cut
        <3>1. cut = CutByTokens(word, Semicolon)
            <4>1. CASE cells[i] = word  BY <4>1
            <4>2. CASE cells[i] = CutByTokens(word, Semicolon)
                BY <2>1, <4>2, CutFacts
            <4>3. QED  BY <2>1, <4>1, <4>2
        <3> HIDE DEF cut, word
        <3>2. QED  BY <2>1, <2>2, <2>4, <3>1 DEF Holds, word
    <2>5. QED  BY <1>1, <2>3, <2>4
<1>4. Reading'
    <2> SUFFICES ASSUME pc = "words" PROVE Reading'  BY DEF Reading
    <2>1. argc \in 0 .. MAX_WORDS /\ \A i \in 0 .. (argc - 1) : i \in Cell
        BY CellFacts DEF WordsInv, Reading
    <2>2. 0 \in Cell  BY CellFacts
    <2>3. QED  BY <1>2, <1>3, <2>1, <2>2 DEF WordsInv, Reading
<1>5. ASSUME Held PROVE Held'
    <2> DEFINE n == Cardinality(RunBegins(command, Space))
    <2>1. n \in Nat  BY <1>1, BeginsFinite
    <2> HIDE DEF n
    <2>2. n <= MAX_WORDS => n \in Cell /\ \A i \in 0 .. (n - 1) : i \in Cell
        BY <2>1, CellFacts
    <2>3. 0 \in Cell /\ \A i \in 0 .. MAX_WORDS : i \in Cell  BY CellFacts
    <2>4. QED  BY <1>2, <1>3, <1>5, <2>2, <2>3 DEF Held, n
<1>6. QED  BY <1>1, <1>4, <1>5 DEF WordsInv

LEMMA SetenvWords == WordsInv /\ Setenv => WordsInv'
<1> SUFFICES ASSUME WordsInv, Setenv PROVE WordsInv'  OBVIOUS
<1>1. PICK i : cells' = [cells EXCEPT ![i] = cells[1] \o <<Equals>> \o cells[2]]
    BY DEF Setenv
<1>2. pc' = "prompt" /\ command' = command  BY DEF Setenv, lineVars
<1>3. cells \in [Cell -> Str] /\ cells[1] \in Str /\ cells[2] \in Str
    BY CellFacts DEF WordsInv
<1>4. <<Equals>> \in Str  BY EqualsFacts
<1>5. cells[1] \o <<Equals>> \in Str  BY <1>3, <1>4, ConcatProperties DEF Str
<1>6. cells[1] \o <<Equals>> \o cells[2] \in Str  BY <1>3, <1>5, ConcatProperties DEF Str
<1>7. cells' \in [Cell -> Str]  BY <1>1, <1>3, <1>6
<1>8. Reading'  BY <1>2 DEF Reading
<1>9. QED  BY <1>2, <1>7, <1>8 DEF WordsInv

\* Every step keeps the invariant.
LEMMA WordsStep == WordsInv /\ [Next]_vars => WordsInv'
<1> SUFFICES ASSUME WordsInv, [Next]_vars PROVE WordsInv'  OBVIOUS
<1>1. CASE \E line \in Lines : ReadLine(line)  BY <1>1, ReadLineWords
<1>2. CASE NextWord  BY <1>2, NextWordWords
<1>3. CASE Setenv  BY <1>3, SetenvWords
<1>4. CASE \/ Cd \/ PrintsOnly \/ ShellFaults \/ NoTaskLeft \/ Spin \/ UNCHANGED vars
           \/ ShellForks \/ ShellWaits \/ ShellResumes \/ Tick
    <2>1. UNCHANGED <<command, pos, argc, cells>>
        BY <1>4 DEF Cd, PrintsOnly, ShellFaults, NoTaskLeft, Spin, ShellForks,
                    ShellWaits, ShellResumes, Tick, lineVars, vars
    <2>2. pc' = pc \/ pc' \notin {"words", "command"}
        BY <1>4 DEF Cd, PrintsOnly, ShellFaults, NoTaskLeft, Spin, ShellForks,
                    ShellWaits, ShellResumes, Tick, vars
    <2>3. QED  BY <2>1, <2>2, WordsUnchanged
<1>5. ASSUME NEW c \in Proc!Pids,
             ProgramFaults(c) \/ \E code \in Codes : ProgramExits(c, code)
      PROVE  WordsInv'
    <2>1. UNCHANGED <<command, pos, argc, cells, pc>>
        BY <1>5 DEF ProgramFaults, ProgramExits, lineVars
    <2>2. QED  BY <2>1, WordsUnchanged
<1>6. ASSUME NEW c \in Proc!Pids, Execvpe(c) \/ ExecvpeGarbage(c)
      PROVE  WordsInv'
    <2>1. UNCHANGED <<command, pos, argc, pc>>
        BY <1>6 DEF Execvpe, ExecvpeGarbage, lineVars
    <2>2. \E name : cells' \in Cuts(name, env)
        BY <1>6 DEF Execvpe, ExecvpeGarbage
    <2>3. QED  BY <2>1, <2>2, CutWords
<1>7. QED  BY <1>1, <1>2, <1>3, <1>4, <1>5, <1>6 DEF Next

\* The strings up to the first null pointer.
LEMMA ListLength ==
    ASSUME NEW array, NEW i \in Cell, NEW n \in i .. CELLS,
           \A j \in i .. (n - 1) : array[j] # Null,
           n = CELLS \/ array[n] = Null
    PROVE  ListFrom(array, i) = [k \in 1 .. (n - i) |-> array[i + k - 1]]
<1> DEFINE nulls == {j \in i .. (CELLS - 1) : array[j] = Null}
           T == nulls \cup {CELLS}
<1>1. CELLS \in Nat /\ i \in Nat /\ n \in Nat /\ i <= n /\ n <= CELLS
    BY CellFacts
<1>2. n \in T  BY <1>1
<1>3. \A x \in T : n <= x  BY <1>1
<1>4. T \subseteq Nat  BY <1>1
<1>5. Min(T) = n
    <2> HIDE DEF T
    <2>1. T # {}  BY <1>2
    <2>2. Min(T) \in T /\ \A x \in T : Min(T) <= x  BY <1>4, <2>1, MinFacts
    <2>3. PICK m : m = Min(T)  OBVIOUS
    <2>4. m \in Nat /\ n <= m /\ m <= n  BY <1>2, <1>3, <1>4, <2>2, <2>3
    <2>5. QED  BY <1>1, <2>3, <2>4
<1>6. QED  BY <1>5 DEF ListFrom

\* What dsh passes to execvpe.
LEMMA HeldMeans ==
    ASSUME command \in Str, Held
    PROVE  /\ HoldsWords(ListFrom(cells, 0), Runs(command, Space))
           /\ argc = Min({Max({1, Len(Runs(command, Space))}), MAX_WORDS + 1})
<1> DEFINE words == Runs(command, Space)
           n == Cardinality(RunBegins(command, Space))
           argv == ListFrom(cells, 0)
<1>1. /\ n \in Nat /\ Len(words) = n /\ IsFiniteSet(RunBegins(command, Space))
    BY BeginsFinite
<1>2. /\ MAX_WORDS \in Nat /\ MAX_WORDS >= 4 /\ CELLS \in Nat /\ MAX_WORDS < CELLS
      /\ 0 \in Cell /\ ARGV \in Nat
    BY ShellAssumption, CellFacts DEF MAX_WORDS, CELLS
<1>3. \A x \in Nat : x # 0 => Max({1, x}) = x
    <2> SUFFICES ASSUME NEW x \in Nat, x # 0 PROVE Max({1, x}) = x  OBVIOUS
    <2>1. Max({1, x}) \in {1, x} /\ \A y \in {1, x} : Max({1, x}) >= y
        BY MaxFacts
    <2>2. QED  BY <2>1
<1>4. Max({1, 0}) = 1
    <2>1. Max({1, 0}) \in {1, 0} /\ \A y \in {1, 0} : Max({1, 0}) >= y
        BY MaxFacts
    <2>2. QED  BY <2>1
<1>5. \A x, y \in Nat : Min({x, y}) = IF x <= y THEN x ELSE y
    <2> SUFFICES ASSUME NEW x \in Nat, NEW y \in Nat
                 PROVE  Min({x, y}) = IF x <= y THEN x ELSE y
        OBVIOUS
    <2>1. Min({x, y}) \in {x, y} /\ \A z \in {x, y} : Min({x, y}) <= z
        BY MinFacts
    <2>2. QED  BY <2>1
<1>6. \A i \in Nat : Holds(i) => cells[i] # Null  BY NoNullIsNotNull DEF Holds
<1> HIDE DEF words, n, argv
<1>7. CASE RunBegins(command, Space) = {}
    <2>1. argc = 1 /\ cells[0] = Null  BY <1>7 DEF Held
    <2>2. n = 0  BY <1>7, FS_EmptySet DEF n
    <2>3. argv = [k \in 1 .. 0 |-> cells[0 + k - 1]]
        <3>1. 0 \in 0 .. CELLS /\ 0 - 0 = 0  BY <1>2
        <3>2. QED  BY <1>2, <2>1, <3>1, ListLength DEF argv
    <2>4. Len(argv) = 0  BY <2>3
    <2>5. HoldsWords(argv, words)
        <3>1. Min({Len(words), MAX_WORDS + 1}) = 0  BY <1>1, <1>2, <1>5, <2>2
        <3>2. QED  BY <1>1, <2>2, <2>4, <3>1 DEF HoldsWords
    <2>6. argc = Min({Max({1, Len(words)}), MAX_WORDS + 1})
        BY <1>1, <1>2, <1>4, <1>5, <2>1, <2>2
    <2>7. QED  BY <2>5, <2>6 DEF argv, words
<1>8. CASE /\ RunBegins(command, Space) # {}
           /\ n <= MAX_WORDS /\ argc = n /\ cells[n] = Null
           /\ \A i \in 0 .. (n - 1) : Holds(i)
    <2>1. n # 0  BY <1>1, <1>8, FS_EmptySet DEF n
    <2>2. \A i \in 0 .. (n - 1) : cells[i] # Null  BY <1>1, <1>6, <1>8
    <2>3. argv = [k \in 1 .. n |-> cells[0 + k - 1]]
        <3>1. n \in 0 .. CELLS /\ n - 0 = n  BY <1>1, <1>2, <1>8
        <3>2. QED  BY <1>2, <1>8, <2>2, <3>1, ListLength DEF argv
    <2>4. Len(argv) = n /\ \A k \in 1 .. n : argv[k] = cells[k - 1]  BY <1>1, <2>3
    <2>5. Min({Len(words), MAX_WORDS + 1}) = n  BY <1>1, <1>2, <1>5, <1>8
    <2>6. ASSUME NEW k \in 1 .. n
          PROVE  \/ argv[k] = words[k]
                 \/ k > ARGV /\ argv[k] = CutByTokens(words[k], Semicolon)
        <3>1. k - 1 \in 0 .. (n - 1) /\ k - 1 + 1 = k  BY <1>1
        <3>2. Holds(k - 1)  BY <1>8, <3>1
        <3>3. \/ cells[k - 1] = words[k]
              \/ k - 1 >= ARGV /\ cells[k - 1] = CutByTokens(words[k], Semicolon)
            BY <3>1, <3>2 DEF Holds, words
        <3>4. QED  BY <1>1, <1>2, <2>4, <3>3
    <2>7. HoldsWords(argv, words)  BY <1>1, <2>4, <2>5, <2>6 DEF HoldsWords
    <2>8. argc = Min({Max({1, Len(words)}), MAX_WORDS + 1})
        BY <1>1, <1>2, <1>3, <1>5, <1>8, <2>1
    <2>9. QED  BY <2>7, <2>8 DEF argv, words
<1>9. CASE /\ RunBegins(command, Space) # {}
           /\ n > MAX_WORDS /\ argc = MAX_WORDS + 1
           /\ \A i \in 0 .. MAX_WORDS : Holds(i)
    <2>1. n # 0  BY <1>1, <1>2, <1>9
    <2>2. \A i \in 0 .. MAX_WORDS : cells[i] # Null  BY <1>2, <1>6, <1>9
    <2>3. PICK m \in (MAX_WORDS + 1) .. CELLS :
            argv = [k \in 1 .. m |-> cells[0 + k - 1]]
        <3> DEFINE T == {j \in 0 .. (CELLS - 1) : cells[j] = Null} \cup {CELLS}
        <3>1. T \subseteq Nat /\ T # {}  BY <1>2
        <3>2. Min(T) \in T /\ \A x \in T : Min(T) <= x
            <4> HIDE DEF T
            <4>1. QED  BY <3>1, MinFacts
        <3>3. PICK m : m = Min(T)  OBVIOUS
        <3>4. m \in T /\ m \in Nat  BY <3>1, <3>2, <3>3
        <3>5. m \in (MAX_WORDS + 1) .. CELLS
            <4>1. m \in 0 .. CELLS /\ m \notin 0 .. MAX_WORDS  BY <1>2, <2>2, <3>4
            <4>2. QED  BY <1>2, <4>1
        <3>6. argv = [k \in 1 .. (m - 0) |-> cells[0 + k - 1]]
            BY <3>3 DEF argv, ListFrom
        <3>7. m - 0 = m  BY <3>4
        <3> HIDE DEF T
        <3>8. QED  BY <3>5, <3>6, <3>7
    <2>4. Min({Len(words), MAX_WORDS + 1}) = MAX_WORDS + 1  BY <1>1, <1>2, <1>5, <1>9
    <2>5. ASSUME NEW k \in 1 .. (MAX_WORDS + 1)
          PROVE  \/ argv[k] = words[k]
                 \/ k > ARGV /\ argv[k] = CutByTokens(words[k], Semicolon)
        <3>1. k - 1 \in 0 .. MAX_WORDS /\ k - 1 + 1 = k  BY <1>2
        <3>2. Holds(k - 1)  BY <1>9, <3>1
        <3>3. \/ cells[k - 1] = words[k]
              \/ k - 1 >= ARGV /\ cells[k - 1] = CutByTokens(words[k], Semicolon)
            BY <3>1, <3>2 DEF Holds, words
        <3>4. argv[k] = cells[k - 1]  BY <1>2, <2>3
        <3>5. QED  BY <1>2, <3>3, <3>4
    <2>6. HoldsWords(argv, words)  BY <1>1, <1>2, <1>9, <2>4, <2>5 DEF HoldsWords
    <2>7. argc = Min({Max({1, Len(words)}), MAX_WORDS + 1})
        BY <1>1, <1>2, <1>3, <1>5, <1>9, <2>1
    <2>8. QED  BY <2>6, <2>7 DEF argv, words
<1>10. QED  BY <1>7, <1>8, <1>9 DEF Held, n

\* When the loop of dsh has taken a line apart, argv holds its words, whatever
\* the line, the old contents of the array and the other programs are.
THEOREM WordsOfLineHolds == Spec => []WordsOfLine
<1>1. WordsInv => WordsOfLine  BY HeldMeans DEF WordsInv, WordsOfLine
<1>2. QED  BY <1>1, WordsInit, WordsStep, PTL DEF Spec
-----------------------------------------------------------------------------
(* The working directory.                                                  *)

\* The fragments of a path that begins and of one that ends with a slash.
Rooted(s) == s \in Str /\ Len(s) > 0 /\ s[1] = Slash[1]

LEMMA SlashFacts == Slash \in Str /\ Len(Slash) = 1 /\ Rooted(Slash)
<1>1. Slash \in Str /\ Len(Slash) = 1
    BY OneFragment, Fragments, Zenon DEF Slash, Str
<1>2. QED  BY <1>1 DEF Rooted

LEMMA StartsWithSlash ==
    ASSUME NEW s \in Str, startsWith(s, Slash)
    PROVE  Rooted(s)
<1>1. Len(s) \in Nat /\ \A k \in 1 .. Len(s) : s[k] \in Fragment
    BY LenProperties, ElementOfSeq DEF Str
<1>2. Len(Slash) <= Len(s) /\ SubSeq(Slash, 1, Len(Slash)) = SubSeq(s, 1, Len(Slash))
    BY DEF startsWith, IsPrefix
<1>3. SubSeq(Slash, 1, 1) = SubSeq(s, 1, 1) /\ 1 <= Len(s)  BY <1>2, SlashFacts
<1>4. \A k \in 1 .. 1 : Slash[k] \in Fragment  BY SlashFacts, ElementOfSeq DEF Str
<1>5. SubSeq(Slash, 1, 1)[1] = Slash[1]
    <2>1. \A k \in 1 .. 1 - 1 + 1 : SubSeq(Slash, 1, 1)[k] = Slash[1 + k - 1]
        BY <1>4, SubSeqProperties
    <2>2. QED  BY <2>1
<1>6. SubSeq(s, 1, 1)[1] = s[1]
    <2>1. \A k \in 1 .. 1 : s[k] \in Fragment  BY <1>1, <1>3
    <2>2. \A k \in 1 .. 1 - 1 + 1 : SubSeq(s, 1, 1)[k] = s[1 + k - 1]
        BY <2>1, SubSeqProperties
    <2>3. QED  BY <2>2
<1>7. QED  BY <1>1, <1>3, <1>5, <1>6 DEF Rooted

LEMMA Joined ==
    ASSUME NEW s \in Str, NEW u \in Str
    PROVE  \E t \in Str : /\ t = s \o u
                          /\ Len(t) = Len(s) + Len(u)
                          /\ \A i \in 1 .. (Len(s) + Len(u)) :
                                t[i] = IF i <= Len(s) THEN s[i] ELSE u[i - Len(s)]
<1>1. PICK t : t = s \o u  OBVIOUS
<1>2. /\ t \in Str /\ Len(t) = Len(s) + Len(u)
      /\ \A i \in 1 .. Len(s) + Len(u) :
            t[i] = IF i <= Len(s) THEN s[i] ELSE u[i - Len(s)]
    BY <1>1, ConcatProperties DEF Str
<1>3. QED  BY <1>1, <1>2

\* What dirnameWithEndSlash returns ends with a slash.
LEMMA EndSlash ==
    ASSUME NEW s \in Str
    PROVE  /\ dirnameWithEndSlash(s) \in Str
           /\ endsWith(dirnameWithEndSlash(s), Slash)
           /\ Rooted(s) => Rooted(dirnameWithEndSlash(s))
<1>1. CASE endsWith(s, Slash)  BY <1>1 DEF dirnameWithEndSlash
<1>2. CASE ~ endsWith(s, Slash)
    <2>1. PICK t \in Str :
            /\ t = s \o Slash /\ Len(t) = Len(s) + Len(Slash)
            /\ \A i \in 1 .. (Len(s) + Len(Slash)) :
                    t[i] = IF i <= Len(s) THEN s[i] ELSE Slash[i - Len(s)]
        BY SlashFacts, Joined
    <2>2. /\ dirnameWithEndSlash(s) = t  BY <1>2, <2>1 DEF dirnameWithEndSlash
    <2>3. /\ Len(t) = Len(s) + 1 /\ Len(s) \in Nat
          /\ \A i \in 1 .. (Len(s) + 1) :
                    t[i] = IF i <= Len(s) THEN s[i] ELSE Slash[i - Len(s)]
        BY <2>1, SlashFacts, LenProperties DEF Str
    <2>4. t[Len(t)] = Slash[1] /\ (Rooted(s) => Rooted(t))  BY <2>3 DEF Rooted
    <2>5. endsWith(t, Slash)
        <3>1. Reverse(t) = [i \in 1 .. Len(t) |-> t[(Len(t) - i) + 1]]  BY DEF Reverse
        <3>2. Reverse(Slash) = [i \in 1 .. 1 |-> Slash[(1 - i) + 1]]
            BY SlashFacts DEF Reverse
        <3>3. Len(Reverse(t)) = Len(t) /\ Len(Reverse(Slash)) = 1
            BY <2>3, <3>1, <3>2
        <3>4. Reverse(t)[1] = Slash[1]
            <4>1. 1 \in 1 .. Len(t) /\ (Len(t) - 1) + 1 = Len(t)  BY <2>3
            <4>2. QED  BY <2>4, <3>1, <4>1
        <3>5. Reverse(Slash)[1] = Slash[1]  BY <3>2
        <3>6. SubSeq(Reverse(Slash), 1, 1) = SubSeq(Reverse(t), 1, 1)
            BY <3>4, <3>5
        <3>7. QED  BY <2>3, <3>3, <3>6 DEF endsWith, IsSuffix, IsPrefix
    <2>6. QED  BY <2>2, <2>4, <2>5
<1>3. QED  BY <1>1, <1>2

LEMMA RootedSplit ==
    ASSUME NEW s, Rooted(s)
    PROVE  s = Slash \o Tail(s)
<1>1. s \in Str /\ Len(s) \in Nat /\ s # << >>
    BY LenProperties, EmptySeq DEF Rooted, Str
<1>2. /\ Tail(s) \in Str /\ Len(Tail(s)) = Len(s) - 1
      /\ \A i \in 1 .. Len(Tail(s)) : Tail(s)[i] = s[i + 1]
    BY <1>1, HeadTailProperties DEF Str
<1>3. PICK t \in Str :
        /\ t = Slash \o Tail(s) /\ Len(t) = Len(Slash) + Len(Tail(s))
        /\ \A i \in 1 .. (Len(Slash) + Len(Tail(s))) :
                t[i] = IF i <= Len(Slash) THEN Slash[i] ELSE Tail(s)[i - Len(Slash)]
    BY <1>2, SlashFacts, Joined
<1>4. /\ Len(t) = 1 + Len(Tail(s))
      /\ \A i \in 1 .. (1 + Len(Tail(s))) :
            t[i] = IF i <= 1 THEN Slash[i] ELSE Tail(s)[i - 1]
    BY <1>3, SlashFacts
<1>5. ASSUME NEW i \in 1 .. Len(s) PROVE s[i] = t[i]
    <2>1. CASE i = 1  BY <1>1, <1>2, <1>4, <2>1 DEF Rooted
    <2>2. CASE i # 1
        <3>1. i - 1 \in 1 .. Len(Tail(s)) /\ i - 1 + 1 = i  BY <1>1, <1>2, <2>2
        <3>2. Tail(s)[i - 1] = s[i]  BY <1>2, <3>1
        <3>3. QED  BY <1>1, <1>2, <1>4, <2>2, <3>2
    <2>3. QED  BY <2>1, <2>2
<1>6. Len(s) = Len(t)  BY <1>1, <1>2, <1>4
<1>7. s = t  BY <1>1, <1>4, <1>5, <1>6, SeqEqual DEF Str
<1>8. QED  BY <1>7, <1>3

\* cd makes an absolute path with a final slash of its argument and keeps it
\* only if a header has that name.
LEMMA CdPwd ==
    ASSUME WordsInv, Rooted(pwd), PwdExists, Cd
    PROVE  Rooted(pwd') /\ PwdExists'
<1> DEFINE path == getAbsoluteFilePath(pwd, cells[1])
           dir == dirnameWithEndSlash(path)
<1>1. cells[1] \in Str /\ pwd \in Str  BY CellFacts DEF WordsInv, Rooted
<1>2. Rooted(path)
    <2>1. CASE startsWith(cells[1], Slash)
        <3>1. path = dirnameWithEndSlash(cells[1])  BY <2>1 DEF getAbsoluteFilePath
        <3>2. QED  BY <1>1, <2>1, <3>1, StartsWithSlash, EndSlash
    <2>2. CASE ~ startsWith(cells[1], Slash)
        <3> DEFINE base == dirnameWithEndSlash(pwd)
        <3>1. path = base \o cells[1]  BY <2>2 DEF getAbsoluteFilePath
        <3>2. Rooted(base) /\ base \in Str  BY <1>1, EndSlash
        <3> HIDE DEF base, path
        <3>3. /\ path \in Str /\ Len(path) = Len(base) + Len(cells[1])
              /\ \A i \in 1 .. Len(base) + Len(cells[1]) :
                    path[i] = IF i <= Len(base) THEN base[i] ELSE cells[1][i - Len(base)]
              /\ Len(base) \in Nat /\ Len(cells[1]) \in Nat
            BY <1>1, <3>1, <3>2, ConcatProperties, LenProperties DEF Str
        <3>4. QED  BY <3>2, <3>3 DEF Rooted
    <2>3. QED  BY <2>1, <2>2
<1>3. Rooted(dir) /\ endsWith(dir, Slash)
    <2>1. path \in Str  BY <1>2 DEF Rooted
    <2> HIDE DEF path
    <2>2. QED  BY <1>2, <2>1, EndSlash
<1>4. pwd' = IF DirExists(dir) THEN dir ELSE pwd  BY DEF Cd
<1> HIDE DEF dir
<1>5. CASE DirExists(dir)
    <2>1. pwd' = dir /\ dir = Slash \o Tail(dir)  BY <1>3, <1>4, <1>5, RootedSplit
    <2>2. dir = Slash \/ \E k \in DOMAIN Contents : Contents[k].name = Tail(dir)
        BY <1>5 DEF DirExists
    <2>3. QED  BY <1>3, <2>1, <2>2 DEF PwdExists
<1>6. CASE ~ DirExists(dir)  BY <1>4, <1>6 DEF PwdExists
<1>7. QED  BY <1>5, <1>6

\* The working directory is the root or a directory of the archive, whatever
\* the lines are.
THEOREM PwdExistsHolds == Spec => []PwdExists
<1> DEFINE Inv == WordsInv /\ Rooted(pwd) /\ PwdExists
<1>1. Init => Inv  BY WordsInit, SlashFacts DEF Init, PwdExists
<1>2. Inv /\ [Next]_vars => Inv'
    <2> SUFFICES ASSUME Inv, [Next]_vars PROVE Inv'  OBVIOUS
    <2>1. WordsInv'  BY WordsStep
    <2>2. CASE Cd  BY <2>1, <2>2, CdPwd
    <2>3. CASE pwd' = pwd  BY <2>1, <2>3 DEF PwdExists
    <2>4. Cd \/ pwd' = pwd
        BY DEF Next, ReadLine, NextWord, Setenv, PrintsOnly, ShellFaults, NoTaskLeft,
               Spin, ShellForks, ShellWaits, ShellResumes, Tick, Execvpe,
               ExecvpeGarbage, ProgramFaults, ProgramExits, vars
    <2>5. QED  BY <2>2, <2>3, <2>4
<1>3. QED  BY <1>1, <1>2, PTL DEF Spec
-----------------------------------------------------------------------------
(* The arguments of a program.                                             *)

\* A child that is not late finds the words of its line in the arrays, and one
\* that runs has got them.
Started(c) ==
    LET t == task[c] IN
    /\ {"state", "late", "argv", "words"} \subseteq DOMAIN t
    /\ t.state = "forked" /\ ~ t.late =>
        /\ pc \notin {"words", "command"}
        /\ t.words = Runs(command, Space)
        /\ Held
    /\ t.state = "runs" /\ ~ t.late => HoldsWords(t.argv, t.words)

ArgvInv ==
    /\ WordsInv
    /\ DOMAIN task = Proc!Pids
    /\ \A c \in Proc!Pids : Started(c)

LEMMA NoTaskFacts ==
    /\ {"state", "late", "argv", "words", "fg", "asked"} \subseteq DOMAIN NoTask
    /\ NoTask.state = "none" /\ NoTask.late = FALSE
BY DEF NoTask

LEMMA ArgvInit == Init => ArgvInv
<1> SUFFICES ASSUME Init PROVE ArgvInv  OBVIOUS
<1>1. DOMAIN task = Proc!Pids /\ \A c \in Proc!Pids : task[c] = NoTask  BY DEF Init
<1>2. \A c \in Proc!Pids : Started(c)  BY <1>1, NoTaskFacts DEF Started
<1>3. QED  BY <1>1, <1>2, WordsInit DEF ArgvInv

\* A step of the shell that leaves what it has read and its children alone.
LEMMA ArgvUnchanged ==
    ASSUME ArgvInv, WordsInv', task' = task,
           pc' = pc \/ pc' \notin {"words", "command"},
           pc \in {"words", "command"} \/ (command' = command /\ (Held => Held'))
    PROVE  ArgvInv'
<1>1. ASSUME NEW c \in Proc!Pids PROVE Started(c)'
    <2>1. Started(c)  BY DEF ArgvInv
    <2>2. QED  BY <2>1 DEF Started
<1>2. QED  BY <1>1 DEF ArgvInv

LEMMA ReadLineArgv ==
    ASSUME ArgvInv, WordsInv', NEW line, ReadLine(line)
    PROVE  ArgvInv'
<1>1. task' = [c \in DOMAIN task |->
                    IF task[c].state = "forked"
                    THEN [task[c] EXCEPT !.late = TRUE] ELSE task[c]]
    BY DEF ReadLine
<1>2. ASSUME NEW c \in Proc!Pids PROVE Started(c)'
    <2>1. Started(c) /\ c \in DOMAIN task  BY DEF ArgvInv
    <2>2. CASE task[c].state = "forked"
        <3>1. task'[c] = [task[c] EXCEPT !.late = TRUE]  BY <1>1, <2>1, <2>2
        <3>2. task'[c].late = TRUE /\ DOMAIN task'[c] = DOMAIN task[c]
            BY <2>1, <3>1 DEF Started
        <3>3. QED  BY <2>1, <3>2 DEF Started
    <2>3. CASE task[c].state # "forked"
        <3>1. task'[c] = task[c]  BY <1>1, <2>1, <2>3
        <3>2. QED  BY <2>1, <2>3, <3>1 DEF Started
    <2>4. QED  BY <2>2, <2>3
<1>3. QED  BY <1>1, <1>2 DEF ArgvInv

LEMMA ShellForksArgv ==
    ASSUME ArgvInv, WordsInv', ShellForks
    PROVE  ArgvInv'
<1> DEFINE new == [NoTask EXCEPT !.state = "forked", !.fg = ~ bg,
                                 !.words = Runs(command, Space), !.asked = wanted]
<1>1. task' = [task EXCEPT ![child'] = new]  BY DEF ShellForks
<1>2. /\ DOMAIN new = DOMAIN NoTask /\ new.words = Runs(command, Space)
      /\ new.state = "forked"
    BY NoTaskFacts
<1>3. /\ pc = "command" /\ pc' \in {"prompt", "forked"}
      /\ UNCHANGED <<command, argc, cells>>
    BY DEF ShellForks, IsProgram, lineVars
<1>4. Held /\ (Held' <=> Held)
    <2>1. \A i : Holds(i)' <=> Holds(i)  BY <1>3 DEF Holds
    <2>2. QED  BY <1>3, <2>1 DEF Held, ArgvInv, WordsInv
<1> HIDE DEF new
<1>5. ASSUME NEW c \in Proc!Pids PROVE Started(c)'
    <2>1. Started(c) /\ c \in DOMAIN task  BY DEF ArgvInv
    <2>2. CASE c = child'
        <3>1. task'[c] = new  BY <1>1, <2>1, <2>2
        <3>2. QED  BY <1>2, <1>3, <1>4, <3>1, NoTaskFacts DEF Started
    <2>3. CASE c # child'
        <3>1. task'[c] = task[c]  BY <1>1, <2>1, <2>3
        <3>2. QED  BY <1>3, <2>1, <3>1 DEF Started
    <2>4. QED  BY <2>2, <2>3
<1>6. QED  BY <1>1, <1>5 DEF ArgvInv

\* The copies kexecvpe makes are the strings it is given: also those in envp,
\* which it copies twice.
LEMMA CopiedWords ==
    LET words == ListFrom(cells, 0)
    IN  [i \in DOMAIN words |-> Copied(words, env)[i - 1]] = words
<1> DEFINE words == ListFrom(cells, 0)
           nulls(a) == {j \in a .. (CELLS - 1) : cells[j] = Null} \cup {CELLS}
           copy == Copied(words, env)
<1>1. /\ CELLS \in Nat /\ ARGV \in Nat /\ ARGV < CELLS /\ 0 \in Cell /\ ARGV \in Cell
      /\ Cell = 0 .. (CELLS - 1)
    BY CellFacts DEF Cell
<1>2. PICK m \in nulls(0) : \A x \in nulls(0) : m <= x
    <2>1. nulls(0) \subseteq Nat /\ nulls(0) # {}  BY <1>1
    <2> HIDE DEF nulls
    <2>2. QED  BY <2>1, NatLeast
<1>3. /\ m \in 0 .. CELLS /\ (m = CELLS \/ cells[m] = Null)
      /\ \A j \in 0 .. (m - 1) : cells[j] # Null
    BY <1>1, <1>2
<1>4. words = [k \in 1 .. (m - 0) |-> cells[0 + k - 1]]
    BY <1>1, <1>3, ListLength
<1>5. words = [k \in 1 .. m |-> cells[k - 1]]
    <2>1. m - 0 = m /\ \A k \in 1 .. m : 0 + k - 1 = k - 1  BY <1>1, <1>3
    <2> HIDE DEF words
    <2>2. QED  BY <1>4, <2>1
<1> HIDE DEF words
<1>6. Len(words) = m /\ DOMAIN words = 1 .. m /\ \A k \in 1 .. m : words[k] = cells[k - 1]
    BY <1>3, <1>5
<1>7. ASSUME ARGV < m
      PROVE  Len(env) = m - ARGV /\ \A k \in 1 .. (m - ARGV) : env[k] = cells[ARGV + k - 1]
    <2>1. m \in ARGV .. CELLS /\ \A j \in ARGV .. (m - 1) : cells[j] # Null
        BY <1>1, <1>3, <1>7
    <2>2. env = [k \in 1 .. (m - ARGV) |-> cells[ARGV + k - 1]]
        BY <1>1, <1>3, <2>1, ListLength DEF env
    <2>3. m - ARGV \in Nat  BY <1>1, <2>1
    <2>4. QED  BY <2>2, <2>3
<1>8. ASSUME NEW i \in 1 .. m PROVE copy[i - 1] = words[i]
    <2>1. i - 1 \in Cell /\ i - 1 + 1 = i /\ i - 1 < m  BY <1>1, <1>3
    <2>2. copy[i - 1] = IF i - 1 >= ARGV /\ i - 1 - ARGV < Len(env)
                        THEN env[i - 1 - ARGV + 1]
                        ELSE IF i - 1 = ARGV + Len(env) THEN Null
                        ELSE IF i - 1 < Len(words) THEN words[i - 1 + 1] ELSE Null
        BY <2>1 DEF Copied
    <2> HIDE DEF copy
    <2>3. CASE i - 1 >= ARGV
        <3>0. ARGV < m /\ i - ARGV \in 1 .. (m - ARGV)  BY <1>1, <1>3, <2>3
        <3>1. Len(env) = m - ARGV /\ env[i - ARGV] = cells[ARGV + (i - ARGV) - 1]
            BY <1>7, <3>0
        <3>2. i - 1 - ARGV < Len(env) /\ i - 1 - ARGV + 1 = i - ARGV
              /\ ARGV + (i - ARGV) - 1 = i - 1
            BY <1>1, <1>3, <2>1, <3>1
        <3>3. QED  BY <1>6, <2>2, <2>3, <3>1, <3>2
    <2>4. CASE ~ (i - 1 >= ARGV)
        <3>1. Len(env) \in Nat
            <4>1. PICK n \in nulls(ARGV) : \A x \in nulls(ARGV) : n <= x
                <5>1. nulls(ARGV) \subseteq Nat /\ nulls(ARGV) # {}  BY <1>1
                <5> HIDE DEF nulls
                <5>2. QED  BY <5>1, NatLeast
            <4>2. /\ n \in ARGV .. CELLS /\ (n = CELLS \/ cells[n] = Null)
                  /\ \A j \in ARGV .. (n - 1) : cells[j] # Null
                BY <1>1, <4>1
            <4>3. env = [k \in 1 .. (n - ARGV) |-> cells[ARGV + k - 1]]
                BY <1>1, <4>2, ListLength DEF env
            <4>4. n - ARGV \in Nat  BY <1>1, <4>2
            <4>5. QED  BY <4>3, <4>4
        <3>2. i - 1 # ARGV + Len(env)  BY <1>1, <1>3, <2>4, <3>1
        <3>3. QED  BY <1>6, <2>1, <2>2, <2>4, <3>2
    <2>5. QED  BY <2>3, <2>4
<1> HIDE DEF copy
<1>9. [i \in DOMAIN words |-> copy[i - 1]] = words  BY <1>5, <1>6, <1>8
<1>10. QED  BY <1>9 DEF words, copy

LEMMA ExecvpeArgv ==
    ASSUME ArgvInv, WordsInv', NEW c \in Proc!Pids, Execvpe(c)
    PROVE  ArgvInv'
<1> DEFINE words == ListFrom(cells, 0)
<1>1. PICK s \in {"failed", "runs", "garbled"} : \E e, f, k :
        task' = [task EXCEPT ![c] = [task[c] EXCEPT
                    !.state = s, !.argv = [i \in DOMAIN words |-> Copied(words, env)[i - 1]],
                    !.env = e, !.file = f, !.clean = k]]
    BY DEF Execvpe
<1>2. [i \in DOMAIN words |-> Copied(words, env)[i - 1]] = words  BY CopiedWords
<1>3. /\ task[c].state = "forked" /\ UNCHANGED <<pc, command, pos, argc>>
      /\ \E name : cells' \in Cuts(name, env)
    BY DEF Execvpe, lineVars
<1>4. ASSUME Held PROVE HoldsWords(words, Runs(command, Space))
    BY <1>4, HeldMeans DEF ArgvInv, WordsInv
<1> HIDE DEF words
<1>5. PICK e, f, k :
        task' = [task EXCEPT ![c] = [task[c] EXCEPT
                    !.state = s, !.argv = [i \in DOMAIN words |-> Copied(words, env)[i - 1]],
                    !.env = e, !.file = f, !.clean = k]]
    BY <1>1
<1>6. task' = [task EXCEPT ![c] = [task[c] EXCEPT
                    !.state = s, !.argv = words, !.env = e, !.file = f, !.clean = k]]
    BY <1>2, <1>5
<1>7. Held => Held'  BY <1>3, CutWords DEF ArgvInv
<1>8. ASSUME NEW d \in Proc!Pids PROVE Started(d)'
    <2>1. Started(d) /\ d \in DOMAIN task  BY DEF ArgvInv
    <2>2. CASE d = c
        <3>1. task'[c] = [task[c] EXCEPT
                    !.state = s, !.argv = words, !.env = e, !.file = f, !.clean = k]
            BY <1>6, <2>1, <2>2
        <3>2. {"state", "late", "argv", "words"} \subseteq DOMAIN task[c]
            BY <2>1, <2>2 DEF Started
        <3>3. /\ DOMAIN task'[c] = DOMAIN task[c]
              /\ task'[c].state = s /\ task'[c].argv = words
              /\ task'[c].late = task[c].late /\ task'[c].words = task[c].words
            BY <3>1, <3>2
        <3>4. ~ task[c].late => HoldsWords(words, task[c].words)
            BY <1>3, <1>4, <2>1, <2>2 DEF Started
        <3>5. ~ task'[c].late => HoldsWords(task'[c].argv, task'[c].words)
            BY <3>3, <3>4
        <3>6. s # "forked"  BY <1>1
        <3>7. QED  BY <2>2, <3>2, <3>3, <3>5, <3>6 DEF Started
    <2>3. CASE d # c
        <3>1. task'[d] = task[d]  BY <1>6, <2>1, <2>3
        <3>2. QED  BY <1>3, <1>7, <2>1, <3>1 DEF Started
    <2>4. QED  BY <2>2, <2>3
<1>9. QED  BY <1>6, <1>8 DEF ArgvInv

\* A child that does not run, and is not about to, gets no arguments.
LEMMA EndedArgv ==
    ASSUME ArgvInv, WordsInv', NEW c \in Proc!Pids,
           ExecvpeGarbage(c) \/ \E code \in Codes : ProgramExits(c, code)
    PROVE  ArgvInv'
<1>1. /\ UNCHANGED <<pc, command, pos, argc>>
      /\ cells' = cells \/ \E name : cells' \in Cuts(name, env)
    BY DEF ExecvpeGarbage, ProgramExits, lineVars
<1>2. Held => Held'
    <2>1. CASE cells' = cells
        <3>1. \A i : Holds(i)' <=> Holds(i)  BY <1>1, <2>1 DEF Holds
        <3>2. QED  BY <1>1, <2>1, <3>1 DEF Held
    <2>2. QED  BY <1>1, <2>1, CutWords DEF ArgvInv
<1>3. \/ task' = [task EXCEPT ![c].state = "failed"]
      \/ task' = [task EXCEPT ![c] = NoTask]
    BY DEF ExecvpeGarbage, ProgramExits
<1>4. ASSUME NEW d \in Proc!Pids PROVE Started(d)'
    <2>1. Started(d) /\ d \in DOMAIN task  BY DEF ArgvInv
    <2>2. CASE d = c /\ task' = [task EXCEPT ![c].state = "failed"]
        <3>1. task'[d] = [task[d] EXCEPT !.state = "failed"]  BY <2>1, <2>2
        <3>2. DOMAIN task'[d] = DOMAIN task[d] /\ task'[d].state = "failed"
            BY <2>1, <3>1 DEF Started
        <3>3. QED  BY <2>1, <3>2 DEF Started
    <2>3. CASE d = c /\ task' = [task EXCEPT ![c] = NoTask]
        <3>1. task'[d] = NoTask  BY <2>1, <2>3
        <3>2. QED  BY <3>1, NoTaskFacts DEF Started
    <2>4. CASE d # c
        <3>1. task'[d] = task[d]  BY <1>3, <2>1, <2>4
        <3>2. QED  BY <1>1, <1>2, <2>1, <3>1 DEF Started
    <2>5. QED  BY <1>3, <2>2, <2>3, <2>4
<1>5. DOMAIN task' = DOMAIN task  BY <1>3
<1>6. QED  BY <1>4, <1>5 DEF ArgvInv

LEMMA ArgvStep == ArgvInv /\ [Next]_vars => ArgvInv'
<1> SUFFICES ASSUME ArgvInv, [Next]_vars PROVE ArgvInv'  OBVIOUS
<1>1. WordsInv'  BY WordsStep DEF ArgvInv
<1>2. CASE \E line \in Lines : ReadLine(line)  BY <1>1, <1>2, ReadLineArgv
<1>3. CASE NextWord \/ Setenv \/ Cd \/ PrintsOnly
    <2>1. /\ task' = task /\ pc \in {"words", "command"}
          /\ pc' \in {"words", "command", "prompt"}
        BY <1>3 DEF NextWord, Setenv, Cd, PrintsOnly, At
    <2>2. ASSUME NEW c \in Proc!Pids PROVE Started(c)'
        <3>1. Started(c)  BY DEF ArgvInv
        <3>2. QED  BY <2>1, <3>1 DEF Started
    <2>3. QED  BY <1>1, <2>1, <2>2 DEF ArgvInv
<1>4. CASE ShellForks  BY <1>1, <1>4, ShellForksArgv
<1>5. CASE \/ ShellFaults \/ NoTaskLeft \/ ShellWaits \/ ShellResumes \/ Tick
           \/ Spin \/ UNCHANGED vars \/ \E c \in Proc!Pids : ProgramFaults(c)
    <2>1. UNCHANGED <<task, command, cells, argc>>
        BY <1>5 DEF ShellFaults, NoTaskLeft, ShellWaits, ShellResumes, Tick, Spin,
                    ProgramFaults, lineVars, vars
    <2>2. pc' = pc \/ pc' \notin {"words", "command"}
        BY <1>5 DEF ShellFaults, NoTaskLeft, ShellWaits, ShellResumes, Tick, Spin,
                    ProgramFaults, lineVars, vars
    <2>3. \A i : Holds(i)' <=> Holds(i)  BY <2>1 DEF Holds
    <2>4. Held => Held'  BY <2>1, <2>3 DEF Held
    <2>5. QED  BY <1>1, <2>1, <2>2, <2>4, ArgvUnchanged
<1>6. ASSUME NEW c \in Proc!Pids, Execvpe(c) PROVE ArgvInv'
    BY <1>1, <1>6, ExecvpeArgv
<1>7. ASSUME NEW c \in Proc!Pids,
             ExecvpeGarbage(c) \/ \E code \in Codes : ProgramExits(c, code)
      PROVE  ArgvInv'
    BY <1>1, <1>7, EndedArgv
<1>8. QED  BY <1>2, <1>3, <1>4, <1>5, <1>6, <1>7 DEF Next

\* Arguments: a program that execvpe has started before the shell read another
\* line has the words of its own line in argv, though it took them from the
\* arrays of the shell, and whichever children searched PATH before it.
THEOREM ArgvDeliveredHolds == Spec => []ArgvDelivered
<1>1. ArgvInv => ArgvDelivered  BY DEF ArgvInv, Started, ArgvDelivered
<1>2. QED  BY <1>1, ArgvInit, ArgvStep, PTL DEF Spec
-----------------------------------------------------------------------------
(* The environment of a program.                                           *)

\* What startsWith compares.
LEMMA PrefixMeans ==
    ASSUME NEW s \in Str, NEW x \in Str
    PROVE  startsWith(s, x) <=>
                Len(x) <= Len(s) /\ \A i \in 1 .. Len(x) : s[i] = x[i]
<1>1. /\ Len(s) \in Nat /\ \A k \in 1 .. Len(s) : s[k] \in Fragment
      /\ Len(x) \in Nat /\ \A k \in 1 .. Len(x) : x[k] \in Fragment
    BY LenProperties, ElementOfSeq DEF Str
<1>2. startsWith(s, x) <=>
        Len(x) <= Len(s) /\ SubSeq(x, 1, Len(x)) = SubSeq(s, 1, Len(x))
    BY DEF startsWith, IsPrefix
<1>3. ASSUME Len(x) <= Len(s)
      PROVE  SubSeq(x, 1, Len(x)) = SubSeq(s, 1, Len(x)) <=>
                \A i \in 1 .. Len(x) : s[i] = x[i]
    <2>1. PICK a, b : a = SubSeq(x, 1, Len(x)) /\ b = SubSeq(s, 1, Len(x))  OBVIOUS
    <2>2. /\ a \in Seq(Fragment)
          /\ Len(a) = IF 1 <= Len(x) THEN Len(x) - 1 + 1 ELSE 0
          /\ \A k \in 1 .. Len(x) - 1 + 1 : a[k] = x[1 + k - 1]
        BY <1>1, <2>1, SubSeqProperties
    <2>3. \A k \in 1 .. Len(x) : s[k] \in Fragment  BY <1>1, <1>3
    <2>4. /\ b \in Seq(Fragment)
          /\ Len(b) = IF 1 <= Len(x) THEN Len(x) - 1 + 1 ELSE 0
          /\ \A k \in 1 .. Len(x) - 1 + 1 : b[k] = s[1 + k - 1]
        BY <1>1, <2>1, <2>3, SubSeqProperties
    <2>5. Len(a) = Len(x) /\ Len(b) = Len(x)  BY <1>1, <2>2, <2>4
    <2>6. \A k \in 1 .. Len(x) : a[k] = x[k] /\ b[k] = s[k]
        <3> SUFFICES ASSUME NEW k \in 1 .. Len(x) PROVE a[k] = x[k] /\ b[k] = s[k]
            OBVIOUS
        <3>1. k \in 1 .. Len(x) - 1 + 1 /\ 1 + k - 1 = k  BY <1>1
        <3>2. QED  BY <2>2, <2>4, <3>1
    <2>7. ASSUME a = b PROVE \A i \in 1 .. Len(x) : s[i] = x[i]  BY <2>6, <2>7
    <2>8. ASSUME \A i \in 1 .. Len(x) : s[i] = x[i] PROVE a = b
        BY <2>2, <2>4, <2>5, <2>6, <2>8, SeqEqual
    <2>9. QED  BY <2>1, <2>7, <2>8
<1>4. QED  BY <1>2, <1>3

\* A name of a variable: what stands before the "=".
IsName(x) == x \in Str /\ \A i \in DOMAIN x : x[i] # Equals

\* Entry s sets variable x.
Sets(s, x) == startsWith(s, x \o <<Equals>>)

LEMMA SetsMeans ==
    ASSUME NEW s \in Str, NEW x \in Str
    PROVE  /\ x \o <<Equals>> \in Str
           /\ Sets(s, x) <=> /\ Len(x) < Len(s)
                             /\ \A i \in 1 .. Len(x) : s[i] = x[i]
                             /\ s[Len(x) + 1] = Equals
<1>1. PICK t \in Str :
        /\ t = x \o <<Equals>> /\ Len(t) = Len(x) + Len(<<Equals>>)
        /\ \A i \in 1 .. (Len(x) + Len(<<Equals>>)) :
                t[i] = IF i <= Len(x) THEN x[i] ELSE <<Equals>>[i - Len(x)]
    BY EqualsFacts, Joined
<1>2. Len(x) \in Nat /\ Len(s) \in Nat  BY LenProperties DEF Str
<1>3. Len(t) = Len(x) + 1 /\ t[Len(x) + 1] = Equals /\ \A i \in 1 .. Len(x) : t[i] = x[i]
    BY <1>1, <1>2, EqualsFacts
<1>4. Sets(s, x) <=> Len(t) <= Len(s) /\ \A i \in 1 .. Len(t) : s[i] = t[i]
    BY <1>1, PrefixMeans DEF Sets
<1>5. \A i \in 1 .. Len(t) : i \in 1 .. Len(x) \/ i = Len(x) + 1  BY <1>2, <1>3
<1>6. \A i \in 1 .. Len(x) : i \in 1 .. Len(t)  BY <1>2, <1>3
<1>7. Len(x) + 1 \in 1 .. Len(t)  BY <1>2, <1>3
<1>8. Len(t) <= Len(s) <=> Len(x) < Len(s)  BY <1>2, <1>3
<1>9. QED  BY <1>1, <1>3, <1>4, <1>5, <1>6, <1>7, <1>8

\* An entry sets one variable.
LEMMA NameUnique ==
    ASSUME NEW s \in Str, NEW x, IsName(x), NEW y, IsName(y), Sets(s, x), Sets(s, y)
    PROVE  x = y
<1>1. /\ x \in Str /\ y \in Str /\ Len(x) \in Nat /\ Len(y) \in Nat
      /\ DOMAIN x = 1 .. Len(x) /\ DOMAIN y = 1 .. Len(y)
    BY LenProperties DEF IsName, Str
<1>2. /\ \A i \in 1 .. Len(x) : s[i] = x[i] /\ x[i] # Equals
      /\ s[Len(x) + 1] = Equals
      /\ \A i \in 1 .. Len(y) : s[i] = y[i] /\ y[i] # Equals
      /\ s[Len(y) + 1] = Equals
    BY <1>1, SetsMeans DEF IsName
<1>3. ~ (Len(x) < Len(y))
    <2> SUFFICES ASSUME Len(x) < Len(y) PROVE FALSE  OBVIOUS
    <2>1. Len(x) + 1 \in 1 .. Len(y)  BY <1>1
    <2>2. QED  BY <1>2, <2>1
<1>4. ~ (Len(y) < Len(x))
    <2> SUFFICES ASSUME Len(y) < Len(x) PROVE FALSE  OBVIOUS
    <2>1. Len(y) + 1 \in 1 .. Len(x)  BY <1>1
    <2>2. QED  BY <1>2, <2>1
<1>5. Len(x) = Len(y)
    <2>1. \A m, n \in Nat : ~ (m < n) /\ ~ (n < m) => m = n  OBVIOUS
    <2>2. Len(x) \in Nat /\ Len(y) \in Nat  BY <1>1
    <2>3. QED  BY ONLY <1>3, <1>4, <2>1, <2>2
<1>6. \A i \in 1 .. Len(x) : x[i] = y[i]  BY <1>2, <1>5
<1>7. QED  BY <1>1, <1>5, <1>6, SeqEqual DEF Str

\* What setenv writes.
LEMMA NewEntry ==
    ASSUME NEW x \in Str, NEW v \in Str
    PROVE  LET s == x \o <<Equals>> \o v
           IN  s \in Str /\ s # Null /\ Sets(s, x)
<1>1. PICK t \in Str :
        /\ t = x \o <<Equals>> /\ Len(t) = Len(x) + Len(<<Equals>>)
        /\ \A i \in 1 .. (Len(x) + Len(<<Equals>>)) :
                t[i] = IF i <= Len(x) THEN x[i] ELSE <<Equals>>[i - Len(x)]
    BY EqualsFacts, Joined
<1>2. Len(x) \in Nat /\ Len(v) \in Nat  BY LenProperties DEF Str
<1>3. Len(t) = Len(x) + 1 /\ t[Len(x) + 1] = Equals /\ \A i \in 1 .. Len(x) : t[i] = x[i]
    BY <1>1, <1>2, EqualsFacts
<1>4. PICK s \in Str :
        /\ s = t \o v /\ Len(s) = Len(t) + Len(v)
        /\ \A i \in 1 .. (Len(t) + Len(v)) :
                s[i] = IF i <= Len(t) THEN t[i] ELSE v[i - Len(t)]
    BY Joined
<1>5. /\ Len(x) < Len(s) /\ s[Len(x) + 1] = Equals
      /\ \A i \in 1 .. Len(x) : s[i] = x[i]
    <2>1. Len(x) + 1 \in 1 .. (Len(t) + Len(v)) /\ Len(x) + 1 <= Len(t)
        BY <1>2, <1>3
    <2>2. \A i \in 1 .. Len(x) : i \in 1 .. (Len(t) + Len(v)) /\ i <= Len(t)
        BY <1>2, <1>3
    <2>3. Len(x) < Len(s)  BY <1>2, <1>3, <1>4
    <2>4. QED  BY <1>3, <1>4, <2>1, <2>2, <2>3
<1>6. Sets(s, x)  BY <1>5, SetsMeans
<1>7. s # Null
    <2> SUFFICES ASSUME s = Null PROVE FALSE  OBVIOUS
    <2>1. Len(Null) = 1  BY DEF Null
    <2>2. Len(x) + 1 = 1  BY <1>2, <1>5, <2>1
    <2>3. Null[1] = Equals  BY <1>5, <2>2
    <2>4. QED  BY <2>3, EqualsFacts
<1>8. s = x \o <<Equals>> \o v  BY <1>1, <1>4
<1>9. QED  BY <1>4, <1>6, <1>7, <1>8

LEMMA SetsBegins ==
    ASSUME NEW s \in Str, NEW x \in Str, Sets(s, x)
    PROVE  startsWith(s, x)
<1>1. Len(x) \in Nat /\ Len(s) \in Nat  BY LenProperties DEF Str
<1>2. QED  BY <1>1, SetsMeans, PrefixMeans

\* The entries of envp (and of path behind it) that are in use.
Slot == ARGV .. (CELLS - 1)
Used == {j \in Slot : cells[j] # Null}

\* While nothing has damaged them, the entries follow each other without a
\* gap, no two of them set the same variable, and they are what was set.
Intact ==
    /\ \A i, j \in Slot : i < j /\ cells[i] = Null => cells[j] = Null
    /\ \A i, j \in Used : \A x :
        IsName(x) /\ Sets(cells[i], x) /\ Sets(cells[j], x) => i = j
    /\ wanted = {cells[j] : j \in Used}

\* A child that is not late was forked with the variables as they are, and one
\* that has started cleanly has got those it was forked with.
Equipped(c) ==
    LET t == task[c] IN
    /\ {"clean", "env", "asked"} \subseteq DOMAIN t
    /\ t.state = "forked" /\ ~ t.late => t.asked = wanted
    /\ t.clean => Range(t.env) = t.asked

EnvInv ==
    /\ ArgvInv
    /\ ~ spoiled => Intact
    /\ \A c \in Proc!Pids : Equipped(c)

LEMMA SlotFacts ==
    /\ Slot \subseteq Cell /\ Slot \subseteq Nat /\ ARGV \in Slot
    /\ CELLS \in Nat /\ ARGV \in Nat /\ 1 \notin Slot
<1>1. CELLS \in Nat /\ ARGV \in Nat /\ ARGV < CELLS /\ ARGV >= 2
    BY CellFacts, ShellAssumption
<1>2. QED  BY <1>1 DEF Slot, Cell

LEMMA NoTaskClean ==
    /\ {"clean", "env", "asked"} \subseteq DOMAIN NoTask
    /\ NoTask.clean = FALSE
BY DEF NoTask

LEMMA EnvInit == Init => EnvInv
<1> SUFFICES ASSUME Init PROVE EnvInv  OBVIOUS
<1>1. \A c \in Proc!Pids : task[c] = NoTask  BY DEF Init
<1>2. \A c \in Proc!Pids : Equipped(c)
    BY <1>1, NoTaskFacts, NoTaskClean DEF Equipped
<1>3. /\ \A j \in Slot : cells[j] = IF j = ARGV THEN InitialPath ELSE Null
      /\ wanted = {InitialPath}
    BY SlotFacts DEF Init
<1>4. InitialPath # Null
    <2>1. PATH \in Str  BY Fragments DEF PATH, Str
    <2>2. <<"/", "bin">> \in Str  BY Fragments DEF Str
    <2>3. QED  BY <2>1, <2>2, NewEntry DEF InitialPath
<1>5. Used = {ARGV}  BY <1>3, <1>4, SlotFacts DEF Used
<1>6. Intact
    <2>1. \A i, j \in Slot : i < j /\ cells[i] = Null => cells[j] = Null
        <3> SUFFICES ASSUME NEW i \in Slot, NEW j \in Slot, i < j PROVE cells[j] = Null
            OBVIOUS
        <3>1. j # ARGV  BY SlotFacts DEF Slot
        <3>2. QED  BY <1>3, <3>1
    <2>2. wanted = {cells[j] : j \in Used}  BY <1>3, <1>5, SlotFacts
    <2>3. QED  BY <1>5, <2>1, <2>2 DEF Intact
<1>7. QED  BY <1>2, <1>6, ArgvInit DEF EnvInv

\* What an intact environment is, as envp of the shell.
LEMMA EnvOfShell ==
    \E n \in ARGV .. CELLS :
        /\ env = [k \in 1 .. (n - ARGV) |-> cells[ARGV + k - 1]]
        /\ \A j \in ARGV .. (n - 1) : cells[j] # Null
        /\ n = CELLS \/ cells[n] = Null
<1> DEFINE nulls == {j \in ARGV .. (CELLS - 1) : cells[j] = Null} \cup {CELLS}
<1>1. CELLS \in Nat /\ ARGV \in Nat /\ ARGV < CELLS /\ ARGV \in Cell
    BY CellFacts, SlotFacts
<1>2. PICK n \in nulls : \A x \in nulls : n <= x
    <2>1. nulls \subseteq Nat /\ nulls # {}  BY <1>1
    <2> HIDE DEF nulls
    <2>2. QED  BY <2>1, NatLeast
<1>3. /\ n \in ARGV .. CELLS /\ (n = CELLS \/ cells[n] = Null)
      /\ \A j \in ARGV .. (n - 1) : cells[j] # Null
    BY <1>1, <1>2
<1>4. env = [k \in 1 .. (n - ARGV) |-> cells[ARGV + k - 1]]
    BY <1>1, <1>3, ListLength DEF env
<1>5. QED  BY <1>3, <1>4

LEMMA IntactEnv ==
    ASSUME Intact
    PROVE  Range(env) = wanted
<1>1. PICK n \in ARGV .. CELLS :
        /\ env = [k \in 1 .. (n - ARGV) |-> cells[ARGV + k - 1]]
        /\ \A j \in ARGV .. (n - 1) : cells[j] # Null
        /\ n = CELLS \/ cells[n] = Null
    BY EnvOfShell
<1>2. CELLS \in Nat /\ ARGV \in Nat /\ n \in Nat  BY SlotFacts
<1>3. Used = ARGV .. (n - 1)
    <2>1. \A j \in ARGV .. (n - 1) : j \in Used  BY <1>1, <1>2 DEF Used, Slot
    <2>2. ASSUME NEW j \in Used PROVE j \in ARGV .. (n - 1)
        <3> SUFFICES ASSUME ~ (j < n) PROVE FALSE  BY <1>2 DEF Used, Slot
        <3>1. j \in Slot /\ cells[j] # Null /\ j \in Nat /\ j < CELLS
            BY <1>2 DEF Used, Slot
        <3>2. n \in Slot /\ cells[n] = Null  BY <1>1, <1>2, <3>1 DEF Slot
        <3>3. n < j  BY <1>2, <3>1, <3>2
        <3>4. QED  BY <3>1, <3>2, <3>3 DEF Intact
    <2>3. QED  BY <2>1, <2>2
<1>4. ASSUME NEW v \in Range(env) PROVE v \in wanted
    <2>1. PICK k \in 1 .. (n - ARGV) : v = cells[ARGV + k - 1]  BY <1>1, <1>4 DEF Range
    <2>2. ARGV + k - 1 \in Used  BY <1>2, <1>3
    <2>3. QED  BY <2>1, <2>2 DEF Intact
<1>5. ASSUME NEW v \in wanted PROVE v \in Range(env)
    <2>1. PICK j \in Used : v = cells[j]  BY <1>5 DEF Intact
    <2>2. PICK k : k = j - ARGV + 1  OBVIOUS
    <2>3. k \in 1 .. (n - ARGV) /\ ARGV + k - 1 = j  BY <1>2, <1>3, <2>2
    <2>4. env[k] = v /\ k \in DOMAIN env  BY <1>1, <2>1, <2>3
    <2>5. QED  BY <2>4 DEF Range
<1>6. QED  BY <1>4, <1>5

\* kexecvpe copies the environment as it is, whatever the arguments are.
LEMMA CopiedEnv ==
    ASSUME NEW words
    PROVE  ListFrom(Copied(words, env), ARGV) = env
<1> DEFINE copy == Copied(words, env)
<1>1. PICK n \in ARGV .. CELLS :
        /\ env = [k \in 1 .. (n - ARGV) |-> cells[ARGV + k - 1]]
        /\ \A j \in ARGV .. (n - 1) : cells[j] # Null
        /\ n = CELLS \/ cells[n] = Null
    BY EnvOfShell
<1>2. /\ CELLS \in Nat /\ ARGV \in Nat /\ n \in Nat /\ n - ARGV \in Nat
      /\ ARGV \in Cell /\ Cell = 0 .. (CELLS - 1)
    BY SlotFacts DEF Cell
<1>3. Len(env) = n - ARGV /\ \A k \in 1 .. (n - ARGV) : env[k] = cells[ARGV + k - 1]
    BY <1>1, <1>2
<1>4. \A i \in Cell : copy[i] =
        IF i >= ARGV /\ i - ARGV < Len(env) THEN env[i - ARGV + 1]
        ELSE IF i = ARGV + Len(env) THEN Null
        ELSE IF i < Len(words) THEN words[i + 1] ELSE Null
    BY DEF Copied
<1> HIDE DEF copy
<1>5. ASSUME NEW j \in ARGV .. (n - 1) PROVE copy[j] = cells[j]
    <2>1. j \in Cell /\ j >= ARGV /\ j - ARGV < Len(env)  BY <1>2, <1>3
    <2>2. j - ARGV + 1 \in 1 .. (n - ARGV) /\ ARGV + (j - ARGV + 1) - 1 = j  BY <1>2
    <2>3. env[j - ARGV + 1] = cells[j]  BY <1>3, <2>2
    <2>4. QED  BY <1>4, <2>1, <2>3
<1>6. n = CELLS \/ copy[n] = Null
    <2> SUFFICES ASSUME n # CELLS PROVE copy[n] = Null  OBVIOUS
    <2>1. n \in Cell /\ n = ARGV + Len(env) /\ ~ (n - ARGV < Len(env))  BY <1>2, <1>3
    <2>2. QED  BY <1>4, <2>1
<1>7. ListFrom(copy, ARGV) = [k \in 1 .. (n - ARGV) |-> copy[ARGV + k - 1]]
    <2>1. \A j \in ARGV .. (n - 1) : copy[j] # Null  BY <1>1, <1>5
    <2>2. ARGV \in Cell /\ n \in ARGV .. CELLS  BY <1>2
    <2>3. QED  BY ONLY <1>6, <2>1, <2>2, ListLength
<1>8. ASSUME NEW k \in 1 .. (n - ARGV) PROVE copy[ARGV + k - 1] = cells[ARGV + k - 1]
    <2>1. ARGV + k - 1 \in ARGV .. (n - 1)  BY <1>2
    <2>2. QED  BY <1>5, <2>1
<1>9. QED  BY <1>1, <1>7, <1>8 DEF copy

\* setenv: the entry it stops at is the one of that variable, or a new one.
LEMMA SetenvIntact ==
    ASSUME EnvInv, Setenv, ~ spoiled'
    PROVE  Intact'
<1> DEFINE var == cells[1]
           new == cells[1] \o <<Equals>> \o cells[2]
           Stops(i) == cells[i] = Null \/ startsWith(cells[i], var)
           First(i) == Stops(i) /\ \A j \in ARGV .. (i - 1) :
                                    cells[j] # Null /\ ~ startsWith(cells[j], var)
<1>1. /\ cells \in [Cell -> Str] /\ var \in Str /\ cells[2] \in Str
    BY CellFacts DEF EnvInv, ArgvInv, WordsInv
<1>2. new \in Str /\ new # Null /\ Sets(new, var)  BY <1>1, NewEntry
<1>3. PICK i \in Slot : i = EntryFor(var) /\ First(i)
    <2>1. \E i \in Slot : Stops(i)  BY DEF Setenv, HasEntry, Slot
    <2> HIDE DEF Stops
    <2>2. {i \in Slot : Stops(i)} \subseteq Nat /\ {i \in Slot : Stops(i)} # {}
        BY <2>1, SlotFacts
    <2>3. PICK i \in {i \in Slot : Stops(i)} : \A j \in {k \in Slot : Stops(k)} : i <= j
        BY <2>2, NatLeast
    <2>4. \A j \in ARGV .. (i - 1) : j \in Slot /\ ~ (i <= j)  BY SlotFacts DEF Slot
    <2>5. \A j \in ARGV .. (i - 1) : ~ Stops(j)  BY <2>3, <2>4
    <2>6. First(i)  BY <2>3, <2>5 DEF Stops
    <2>7. EntryFor(var) \in Slot /\ First(EntryFor(var))
        <3>1. EntryFor(var) = CHOOSE k \in Slot : First(k)  BY DEF EntryFor, Slot, Stops
        <3> HIDE DEF First
        <3>2. QED  BY <2>3, <2>6, <3>1
    <2>8. QED  BY <2>7
<1>4. /\ cells' = [cells EXCEPT ![i] = new]
      /\ wanted' = {v \in wanted : ~ Sets(v, var)} \cup {new}
      /\ ~ spoiled /\ Equals \notin Range(var)
      /\ cells[i] = Null \/ Sets(cells[i], var)
    BY <1>3 DEF Setenv, Assign, Sets
<1>5. IsName(var)
    <2>1. \A k \in DOMAIN var : var[k] # Equals  BY <1>4 DEF Range
    <2>2. QED  BY <1>1, <2>1 DEF IsName
<1>6. Intact  BY <1>4 DEF EnvInv
<1>7. cells'[i] = new /\ \A j \in Cell : j # i => cells'[j] = cells[j]
    BY <1>1, <1>3, <1>4, SlotFacts
<1> HIDE DEF new
<1>8. Used' = Used \cup {i}
    <2>1. \A j \in Slot : cells'[j] # Null <=> j = i \/ cells[j] # Null
        BY <1>2, <1>7, SlotFacts
    <2>2. QED  BY <2>1, <1>3 DEF Used
<1>9. ASSUME NEW j \in Used, j # i PROVE ~ Sets(cells[j], var)
    <2>1. j \in Slot /\ cells[j] # Null /\ cells[j] \in Str  BY <1>1, SlotFacts DEF Used
    <2>2. CASE cells[i] = Null
        <3>1. ~ (i < j)  BY <1>3, <1>6, <2>1, <2>2 DEF Intact
        <3>2. j \in ARGV .. (i - 1)  BY <1>3, <1>9, <2>1, <3>1, SlotFacts DEF Slot
        <3>3. ~ startsWith(cells[j], var)  BY <1>3, <3>2
        <3>4. QED  BY <1>1, <2>1, <3>3, SetsBegins
    <2>3. CASE cells[i] # Null
        <3>1. i \in Used /\ Sets(cells[i], var)  BY <1>3, <1>4, <2>3 DEF Used
        <3>2. QED  BY <1>5, <1>6, <1>9, <3>1 DEF Intact
    <2>4. QED  BY <2>2, <2>3
<1>10. \A j, k \in Slot : j < k /\ cells'[j] = Null => cells'[k] = Null
    <2> SUFFICES ASSUME NEW j \in Slot, NEW k \in Slot, j < k, cells'[j] = Null
                 PROVE  cells'[k] = Null
        OBVIOUS
    <2>1. j # i /\ cells[j] = Null  BY <1>2, <1>7, SlotFacts
    <2>2. cells[k] = Null  BY <1>6, <2>1 DEF Intact
    <2>3. k # i
        <3> SUFFICES ASSUME k = i PROVE FALSE  OBVIOUS
        <3>1. j \in ARGV .. (i - 1)  BY SlotFacts DEF Slot
        <3>2. QED  BY <1>3, <2>1, <3>1
    <2>4. QED  BY <1>7, <2>2, <2>3, SlotFacts
<1>11. ASSUME NEW j \in Used', NEW k \in Used', NEW x, IsName(x),
              Sets(cells'[j], x), Sets(cells'[k], x)
       PROVE  j = k
    <2>1. Used \subseteq Cell /\ i \in Cell  BY <1>3, SlotFacts DEF Used
    <2>2. ASSUME NEW l \in Used, l # i, Sets(new, x), Sets(cells[l], x) PROVE FALSE
        <3>1. x = var  BY <1>2, <1>5, <1>11, <2>2, NameUnique
        <3>2. QED  BY <1>9, <2>2, <3>1
    <2>3. CASE j = i /\ k # i  BY <1>7, <1>8, <1>11, <2>1, <2>2, <2>3
    <2>4. CASE j # i /\ k = i  BY <1>7, <1>8, <1>11, <2>1, <2>2, <2>4
    <2>5. CASE j # i /\ k # i
        <3>1. j \in Used /\ k \in Used /\ cells'[j] = cells[j] /\ cells'[k] = cells[k]
            BY <1>7, <1>8, <2>1, <2>5
        <3>2. QED  BY <1>6, <1>11, <3>1 DEF Intact
    <2>6. QED  BY <2>3, <2>4, <2>5
<1>12. wanted' = {cells'[j] : j \in Used'}
    <2>1. Used \subseteq Cell  BY SlotFacts DEF Used
    <2>2. wanted = {cells[j] : j \in Used}  BY <1>6 DEF Intact
    <2>3. ASSUME NEW v \in wanted' PROVE \E j \in Used' : v = cells'[j]
        <3>1. CASE v = new  BY <1>7, <1>8, <3>1
        <3>2. CASE v # new
            <4>1. v \in wanted /\ ~ Sets(v, var)  BY <1>4, <2>3, <3>2
            <4>2. PICK j \in Used : v = cells[j]  BY <2>2, <4>1
            <4>3. j # i  BY <1>4, <4>1, <4>2 DEF Used
            <4>4. QED  BY <1>7, <1>8, <2>1, <4>2, <4>3
        <3>3. QED  BY <3>1, <3>2
    <2>4. ASSUME NEW j \in Used' PROVE cells'[j] \in wanted'
        <3>1. CASE j = i  BY <1>4, <1>7, <3>1
        <3>2. CASE j # i
            <4>1. j \in Used /\ cells'[j] = cells[j]  BY <1>7, <1>8, <2>1, <3>2
            <4>2. QED  BY <1>4, <1>9, <2>2, <3>2, <4>1
        <3>3. QED  BY <3>1, <3>2
    <2>5. QED  BY <2>3, <2>4
<1>13. Slot' = Slot  BY DEF Slot
<1>14. QED  BY <1>10, <1>11, <1>12, <1>13 DEF Intact

\* A word before the end of argv leaves the entries alone.
LEMMA NextWordIntact ==
    ASSUME EnvInv, NextWord, ~ spoiled'
    PROVE  Intact'
<1>1. /\ \E s : cells' = [cells EXCEPT ![argc] = s]
      /\ ~ spoiled /\ ~ (argc >= ARGV) /\ wanted' = wanted
    BY DEF NextWord
<1>2. argc \in Nat /\ cells \in [Cell -> Str]
    BY CellFacts DEF NextWord, EnvInv, ArgvInv, WordsInv, Reading
<1>3. argc \notin Slot  BY <1>1, <1>2, SlotFacts DEF Slot
<1>4. \A j \in Slot : cells'[j] = cells[j]  BY <1>1, <1>2, <1>3, SlotFacts
<1>5. Used' = Used /\ \A j \in Used : j \in Slot  BY <1>4 DEF Used, Slot
<1>6. Intact  BY <1>1 DEF EnvInv
<1>7. {cells'[j] : j \in Used'} = {cells[j] : j \in Used}  BY <1>4, <1>5
<1>8. Slot' = Slot  BY DEF Slot
<1>9. QED  BY <1>1, <1>4, <1>5, <1>6, <1>7, <1>8 DEF Intact

LEMMA IntactUnchanged ==
    ASSUME Intact, UNCHANGED <<cells, wanted>>
    PROVE  Intact'
<1>1. Used' = Used /\ Slot' = Slot  BY DEF Used, Slot
<1>2. QED  BY <1>1 DEF Intact

LEMMA ExecvpeEnv ==
    ASSUME EnvInv, ArgvInv', NEW c \in Proc!Pids, Execvpe(c)
    PROVE  EnvInv'
<1> DEFINE words == ListFrom(cells, 0)
<1>1. PICK s, a, f :
        task' = [task EXCEPT ![c] = [task[c] EXCEPT
                    !.state = s, !.argv = a, !.env = ListFrom(Copied(words, env), ARGV),
                    !.file = f, !.clean = ~ task[c].late /\ ~ spoiled]]
    BY DEF Execvpe
<1>2. s # "forked"
    <2>1. PICK t \in {"failed", "runs", "garbled"} : \E a1, e, f1, k :
        task' = [task EXCEPT ![c] = [task[c] EXCEPT
                    !.state = t, !.argv = a1, !.env = e, !.file = f1, !.clean = k]]
        BY DEF Execvpe
    <2>2. c \in DOMAIN task /\ "state" \in DOMAIN task[c]
        BY DEF EnvInv, ArgvInv, Started
    <2>3. task'[c].state = t  BY <2>1, <2>2
    <2>4. task'[c].state = s  BY <1>1, <2>2
    <2>5. QED  BY <2>1, <2>3, <2>4
<1>3. ListFrom(Copied(words, env), ARGV) = env  BY CopiedEnv
<1> HIDE DEF words
<1>4. task' = [task EXCEPT ![c] = [task[c] EXCEPT
                    !.state = s, !.argv = a, !.env = env,
                    !.file = f, !.clean = ~ task[c].late /\ ~ spoiled]]
    BY <1>1, <1>3
<1>5. /\ task[c].state = "forked" /\ wanted' = wanted
      /\ spoiled' = (spoiled \/ cells' # cells)
    BY DEF Execvpe
<1>6. ~ spoiled' => Intact'
    <2> SUFFICES ASSUME ~ spoiled' PROVE Intact'  OBVIOUS
    <2>1. cells' = cells /\ Intact  BY <1>5 DEF EnvInv
    <2>2. QED  BY <1>5, <2>1, IntactUnchanged
<1>7. ASSUME NEW d \in Proc!Pids PROVE Equipped(d)'
    <2>1. Equipped(d) /\ d \in DOMAIN task  BY DEF EnvInv, ArgvInv
    <2>2. CASE d = c
        <3>1. {"state", "late", "clean", "env", "asked"} \subseteq DOMAIN task[c]
            BY <2>2 DEF EnvInv, ArgvInv, Started, Equipped
        <3>2. task'[c] = [task[c] EXCEPT
                    !.state = s, !.argv = a, !.env = env,
                    !.file = f, !.clean = ~ task[c].late /\ ~ spoiled]
            BY <1>4, <2>1, <2>2
        <3>3. /\ DOMAIN task'[c] = DOMAIN task[c] /\ task'[c].state = s
              /\ task'[c].env = env /\ task'[c].asked = task[c].asked
              /\ task'[c].clean = (~ task[c].late /\ ~ spoiled)
            BY <3>1, <3>2
        <3>4. ASSUME ~ task[c].late, ~ spoiled PROVE Range(env) = task[c].asked
            <4>1. Range(env) = wanted  BY <3>4, IntactEnv DEF EnvInv
            <4>2. task[c].asked = wanted  BY <1>5, <2>1, <2>2, <3>4 DEF Equipped
            <4>3. QED  BY <4>1, <4>2
        <3>5. QED  BY <1>2, <2>2, <3>1, <3>3, <3>4 DEF Equipped
    <2>3. CASE d # c
        <3>1. task'[d] = task[d]  BY <1>4, <2>1, <2>3
        <3>2. QED  BY <1>5, <2>1, <3>1 DEF Equipped
    <2>4. QED  BY <2>2, <2>3
<1>8. QED  BY <1>6, <1>7 DEF EnvInv

LEMMA EndedEnv ==
    ASSUME EnvInv, ArgvInv', NEW c \in Proc!Pids,
           ExecvpeGarbage(c) \/ \E code \in Codes : ProgramExits(c, code)
    PROVE  EnvInv'
<1>1. /\ wanted' = wanted
      /\ ~ spoiled' => ~ spoiled /\ cells' = cells
      /\ \/ task' = [task EXCEPT ![c].state = "failed"]
         \/ task' = [task EXCEPT ![c] = NoTask]
    <2>1. CASE ExecvpeGarbage(c)
        <3>1. /\ wanted' = wanted /\ spoiled' = (spoiled \/ cells' # cells)
              /\ task' = [task EXCEPT ![c].state = "failed"]
            BY <2>1 DEF ExecvpeGarbage
        <3>2. ~ spoiled' => ~ spoiled /\ cells' = cells  BY <3>1
        <3>3. QED  BY <3>1, <3>2
    <2>2. CASE \E code \in Codes : ProgramExits(c, code)
        BY <2>2 DEF ProgramExits, ghostVars
    <2>3. QED  BY <2>1, <2>2
<1>2. ~ spoiled' => Intact'  BY <1>1, IntactUnchanged DEF EnvInv
<1>3. ASSUME NEW d \in Proc!Pids PROVE Equipped(d)'
    <2>1. Equipped(d) /\ d \in DOMAIN task /\ "state" \in DOMAIN task[d]
        BY DEF EnvInv, ArgvInv, Started
    <2>2. CASE d = c /\ task' = [task EXCEPT ![c].state = "failed"]
        <3>1. task'[d] = [task[d] EXCEPT !.state = "failed"]  BY <2>1, <2>2
        <3>2. /\ DOMAIN task'[d] = DOMAIN task[d] /\ task'[d].state = "failed"
              /\ task'[d].clean = task[d].clean /\ task'[d].env = task[d].env
              /\ task'[d].asked = task[d].asked
            BY <2>1, <3>1 DEF Equipped
        <3>3. QED  BY <2>1, <3>2 DEF Equipped
    <2>3. CASE d = c /\ task' = [task EXCEPT ![c] = NoTask]
        <3>1. task'[d] = NoTask  BY <2>1, <2>3
        <3>2. QED  BY <3>1, NoTaskFacts, NoTaskClean DEF Equipped
    <2>4. CASE d # c
        <3>1. task'[d] = task[d]  BY <1>1, <2>1, <2>4
        <3>2. QED  BY <1>1, <2>1, <3>1 DEF Equipped
    <2>5. QED  BY <1>1, <2>2, <2>3, <2>4
<1>4. QED  BY <1>2, <1>3 DEF EnvInv

LEMMA ReadLineEnv ==
    ASSUME EnvInv, ArgvInv', NEW line, ReadLine(line)
    PROVE  EnvInv'
<1>1. /\ task' = [c \in DOMAIN task |->
                    IF task[c].state = "forked"
                    THEN [task[c] EXCEPT !.late = TRUE] ELSE task[c]]
      /\ UNCHANGED <<cells, wanted, spoiled>>
    BY DEF ReadLine, ghostVars
<1>2. ~ spoiled' => Intact'  BY <1>1, IntactUnchanged DEF EnvInv
<1>3. ASSUME NEW c \in Proc!Pids PROVE Equipped(c)'
    <2>1. Equipped(c) /\ c \in DOMAIN task /\ "late" \in DOMAIN task[c]
        BY DEF EnvInv, ArgvInv, Started
    <2>2. CASE task[c].state = "forked"
        <3>1. task'[c] = [task[c] EXCEPT !.late = TRUE]  BY <1>1, <2>1, <2>2
        <3>2. /\ task'[c].late = TRUE /\ DOMAIN task'[c] = DOMAIN task[c]
              /\ task'[c].clean = task[c].clean /\ task'[c].env = task[c].env
              /\ task'[c].asked = task[c].asked
            BY <2>1, <3>1 DEF Equipped
        <3>3. QED  BY <2>1, <3>2 DEF Equipped
    <2>3. CASE task[c].state # "forked"
        <3>1. task'[c] = task[c]  BY <1>1, <2>1, <2>3
        <3>2. QED  BY <1>1, <2>1, <3>1 DEF Equipped
    <2>4. QED  BY <2>2, <2>3
<1>4. QED  BY <1>2, <1>3 DEF EnvInv

LEMMA ShellForksEnv ==
    ASSUME EnvInv, ArgvInv', ShellForks
    PROVE  EnvInv'
<1> DEFINE new == [NoTask EXCEPT !.state = "forked", !.fg = ~ bg,
                                 !.words = Runs(command, Space), !.asked = wanted]
<1>1. task' = [task EXCEPT ![child'] = new]  BY DEF ShellForks
<1>2. DOMAIN new = DOMAIN NoTask /\ new.asked = wanted /\ new.clean = FALSE
    BY NoTaskFacts, NoTaskClean
<1>3. UNCHANGED <<cells, wanted, spoiled>>  BY DEF ShellForks, ghostVars
<1>4. ~ spoiled' => Intact'  BY <1>3, IntactUnchanged DEF EnvInv
<1> HIDE DEF new
<1>5. ASSUME NEW c \in Proc!Pids PROVE Equipped(c)'
    <2>1. Equipped(c) /\ c \in DOMAIN task  BY DEF EnvInv, ArgvInv
    <2>2. CASE c = child'
        <3>1. task'[c] = new  BY <1>1, <2>1, <2>2
        <3>2. QED  BY <1>2, <1>3, <3>1, NoTaskClean DEF Equipped
    <2>3. CASE c # child'
        <3>1. task'[c] = task[c]  BY <1>1, <2>1, <2>3
        <3>2. QED  BY <1>3, <2>1, <3>1 DEF Equipped
    <2>4. QED  BY <2>2, <2>3
<1>6. QED  BY <1>4, <1>5 DEF EnvInv

LEMMA EnvStep == EnvInv /\ [Next]_vars => EnvInv'
<1> SUFFICES ASSUME EnvInv, [Next]_vars PROVE EnvInv'  OBVIOUS
<1>1. ArgvInv'  BY ArgvStep DEF EnvInv
<1>2. CASE \E line \in Lines : ReadLine(line)  BY <1>1, <1>2, ReadLineEnv
<1>3. ASSUME task' = task, ~ spoiled' => Intact',
             wanted' = wanted \/ pc \in {"words", "command"}
      PROVE  EnvInv'
    <2>1. ASSUME NEW c \in Proc!Pids PROVE Equipped(c)'
        <3>1. Equipped(c) /\ Started(c)  BY DEF EnvInv, ArgvInv
        <3>2. QED  BY <1>3, <3>1 DEF Equipped, Started
    <2>2. QED  BY <1>1, <1>3, <2>1 DEF EnvInv
<1>4. CASE NextWord
    <2>1. task' = task /\ wanted' = wanted  BY <1>4 DEF NextWord
    <2>2. QED  BY <1>3, <1>4, <2>1, NextWordIntact
<1>5. CASE Setenv
    <2>1. task' = task /\ pc = "command"  BY <1>5 DEF Setenv, At
    <2>2. QED  BY <1>3, <1>5, <2>1, SetenvIntact
<1>6. CASE ShellForks  BY <1>1, <1>6, ShellForksEnv
<1>7. CASE \/ Cd \/ PrintsOnly
           \/ ShellFaults \/ NoTaskLeft \/ ShellWaits \/ ShellResumes \/ Tick
           \/ Spin \/ UNCHANGED vars \/ \E c \in Proc!Pids : ProgramFaults(c)
    <2>1. UNCHANGED <<task, cells, wanted, spoiled>>
        BY <1>7 DEF Cd, PrintsOnly, ShellFaults, NoTaskLeft, ShellWaits, ShellResumes,
                    Tick, Spin, ProgramFaults, ghostVars, vars
    <2>2. ~ spoiled' => Intact'  BY <2>1, IntactUnchanged DEF EnvInv
    <2>3. QED  BY <1>3, <2>1, <2>2
<1>8. ASSUME NEW c \in Proc!Pids, Execvpe(c) PROVE EnvInv'
    BY <1>1, <1>8, ExecvpeEnv
<1>9. ASSUME NEW c \in Proc!Pids,
             ExecvpeGarbage(c) \/ \E code \in Codes : ProgramExits(c, code)
      PROVE  EnvInv'
    BY <1>1, <1>9, EndedEnv
<1>10. QED  BY <1>2, <1>4, <1>5, <1>6, <1>7, <1>8, <1>9 DEF Next

\* Environment: a program that execvpe has started in time, while nothing had
\* damaged the strings of the shell, has exactly the variables the user set,
\* though setenv looks for a name that begins an entry and kexecvpe copies from
\* arrays that other children read and cut.
THEOREM EnvDeliveredHolds == Spec => []EnvDelivered
<1>1. EnvInv => EnvDelivered  BY DEF EnvInv, Equipped, EnvDelivered
<1>2. QED  BY <1>1, EnvInit, EnvStep, PTL DEF Spec
-----------------------------------------------------------------------------
(* The archive.                                                            *)

\* The digits one by one.
LEMMA ValueFacts ==
    ASSUME NEW ds \in Seq(0 .. 7), NEW base \in Nat
    PROVE  \E v \in [0 .. Len(ds) -> Nat] :
                /\ v[0] = 0
                /\ \A k \in 1 .. Len(ds) : v[k] = base * v[k - 1] + ds[k]
                /\ Value(ds, base) = v[Len(ds)]
<1> DEFINE n == Len(ds)
           step == [p \in Nat \X (1 .. n) |-> base * p[1] + ds[p[2]]]
           first[k \in 0 .. n] == IF k = 0 THEN 0 ELSE base * first[k - 1] + ds[k]
<1>1. n \in Nat /\ \A k \in 1 .. n : ds[k] \in 0 .. 7  BY LenProperties, ElementOfSeq
<1>2. \A a, b \in Nat : a * b \in Nat  OBVIOUS
<1>3. Value(ds, base) = first[n]  BY DEF Value
<1> HIDE DEF n
<1>4. \A v \in Nat : \A k \in 1 .. n : base * v + ds[k] \in Nat
    <2> SUFFICES ASSUME NEW v \in Nat, NEW k \in 1 .. n PROVE base * v + ds[k] \in Nat
        OBVIOUS
    <2>1. base * v \in Nat /\ ds[k] \in Nat  BY <1>1, <1>2
    <2>2. QED  BY <2>1
<1>5. \A v \in Nat : \A k \in 1 .. n : step[<<v, k>>] = base * v + ds[k]  OBVIOUS
<1> HIDE DEF step
<1>6. PICK f \in [0 .. n -> Nat] :
        f[0] = 0 /\ \A k \in 1 .. n : f[k] = step[<<f[k - 1], k>>]
    <2>1. Iterative(n, Nat, 0, step)  BY <1>1, <1>4, <1>5 DEF Iterative
    <2>2. QED  BY <2>1, PrefixRecursion
<1>7. \A k \in 1 .. n : f[k] = base * f[k - 1] + ds[k]
    <2>1. \A k \in 1 .. n : k - 1 \in 0 .. n  BY <1>1
    <2>2. QED  BY <1>5, <1>6, <2>1
<1>8. f = [k \in 0 .. n |-> IF k = 0 THEN 0 ELSE base * f[k - 1] + ds[k]]
    <2>1. \A k \in 0 .. n : k = 0 \/ k \in 1 .. n  BY <1>1
    <2>2. QED  BY <1>6, <1>7, <2>1
<1>9. first = [k \in 0 .. n |-> IF k = 0 THEN 0 ELSE base * first[k - 1] + ds[k]]
    BY <1>8
<1> HIDE DEF first
<1>10. first[0] = 0 /\ \A k \in 1 .. n : first[k] = base * first[k - 1] + ds[k]
    <2>1. 0 \in 0 .. n /\ \A k \in 1 .. n : k \in 0 .. n /\ k # 0  BY <1>1
    <2>2. QED  BY <1>9, <2>1
<1>11. \A k \in 0 .. n : k \in {j \in 0 .. n : first[j] \in Nat}
    <2> DEFINE good == {j \in 0 .. n : first[j] \in Nat}
    <2>1. 0 \in good  BY <1>1, <1>10
    <2>2. ASSUME NEW k \in 1 .. n, k - 1 \in good PROVE k \in good
        <3>1. k \in 0 .. n /\ first[k - 1] \in Nat  BY <1>1, <2>2
        <3>2. base * first[k - 1] + ds[k] \in Nat  BY <1>4, <3>1
        <3>3. first[k] \in Nat  BY <1>10, <3>2
        <3>4. QED  BY <3>1, <3>3
    <2> HIDE DEF good
    <2>3. \A k \in 0 .. n : k \in good  BY <1>1, <2>1, <2>2, PrefixInduction
    <2>4. QED  BY <2>3 DEF good
<1>12. first \in [0 .. n -> Nat]  BY <1>9, <1>11
<1>13. QED  BY <1>3, <1>10, <1>12 DEF n

\* octal_decimal, given the digits of a size read as a decimal number, returns
\* the size that tar wrote, however many digits there are.
THEOREM OctalRead ==
    ASSUME NEW ds \in Seq(0 .. 7)
    PROVE  octal_decimal(decimal(ds)) = Octal(ds) /\ Octal(ds) \in Nat
<1> DEFINE n == Len(ds)
           num == decimal(ds)
<1>1. n \in Nat /\ \A k \in 1 .. n : ds[k] \in 0 .. 7  BY LenProperties, ElementOfSeq
<1>2. PICK v \in [0 .. n -> Nat] :
        /\ v[0] = 0 /\ \A k \in 1 .. n : v[k] = 10 * v[k - 1] + ds[k]
        /\ num = v[n]
    BY ValueFacts DEF decimal
<1>3. PICK o \in [0 .. n -> Nat] :
        /\ o[0] = 0 /\ \A k \in 1 .. n : o[k] = 8 * o[k - 1] + ds[k]
        /\ Octal(ds) = o[n]
    BY ValueFacts DEF Octal
<1> HIDE DEF n, num
<1>4. num \in Nat /\ o[n] \in Nat  BY <1>1, <1>2
<1> DEFINE from[m \in 0 .. num] ==
                IF m = 0 THEN 0 ELSE (m % 10) + 8 * from[m \div 10]
<1>5. octal_decimal(num) = from[num]  BY DEF octal_decimal
<1>6. ASSUME NEW m \in 1 .. num PROVE m \div 10 \in 0 .. num /\ m \div 10 < m
    BY <1>4
<1>7. \A m \in 0 .. num : m % 10 \in Nat  BY <1>4
<1>8. from[0] = 0 /\ \A m \in 1 .. num : from[m] = (m % 10) + 8 * from[m \div 10]
    <2> DEFINE D == 0 .. num
               stop == {0}
               rank == [m \in D |-> m]
               prev == [m \in D |-> m \div 10]
               base == [m \in D |-> 0]
               step == [p \in Nat \X D |-> (p[2] % 10) + 8 * p[1]]
    <2>1. \A x \in Nat : \A m \in D : step[<<x, m>>] = (m % 10) + 8 * x  OBVIOUS
    <2>2. \A x \in Nat : \A m \in D : (m % 10) + 8 * x \in Nat  BY <1>7
    <2>3. \A m \in D \ stop : /\ m \in 1 .. num /\ prev[m] = m \div 10
                              /\ m \div 10 \in D /\ rank[m] = m
                              /\ rank[prev[m]] = m \div 10
        BY <1>4, <1>6
    <2>4. \A m \in D \ stop : prev[m] \in D /\ rank[prev[m]] < rank[m]
        BY <1>6, <2>3
    <2>5. rank \in [D -> 0 .. num] /\ \A m \in D : base[m] \in Nat /\ base[m] = 0
        OBVIOUS
    <2> HIDE DEF rank, prev, base, step
    <2>6. Recursive(D, num, rank, stop, prev, Nat, base, step)
        BY <1>4, <2>1, <2>2, <2>4, <2>5 DEF Recursive
    <2>7. PICK f \in [D -> Nat] : \A m \in D :
            f[m] = IF m \in stop THEN base[m] ELSE step[<<f[prev[m]], m>>]
        <3> HIDE DEF D, stop
        <3>1. QED  BY <2>6, RankRecursion
    <2>8. \A m \in D : f[m] = IF m = 0 THEN 0 ELSE (m % 10) + 8 * f[m \div 10]
        <3> SUFFICES ASSUME NEW m \in D
                     PROVE  f[m] = IF m = 0 THEN 0 ELSE (m % 10) + 8 * f[m \div 10]
            OBVIOUS
        <3>1. CASE m = 0  BY <2>5, <2>7, <3>1
        <3>2. CASE m # 0
            <4>1. f[m] = step[<<f[m \div 10], m>>] /\ f[m \div 10] \in Nat
                BY <2>3, <2>7, <3>2
            <4>2. QED  BY <2>1, <3>2, <4>1
        <3>3. QED  BY <3>1, <3>2
    <2>9. f = [m \in D |-> IF m = 0 THEN 0 ELSE (m % 10) + 8 * f[m \div 10]]
        BY <2>8
    <2>10. from = [m \in D |-> IF m = 0 THEN 0 ELSE (m % 10) + 8 * from[m \div 10]]
        BY <2>9
    <2> HIDE DEF from
    <2>11. 0 \in D /\ \A m \in 1 .. num : m \in D /\ m # 0  BY <1>4
    <2>12. QED  BY <2>10, <2>11
<1> HIDE DEF from
\* The numbers the first digits stand for grow.
<1>9. \A k \in 0 .. n : v[k] \in 0 .. num
    <2> DEFINE good == {k \in 0 .. n : \A j \in 0 .. k : v[j] <= v[k]}
    <2>1. 0 \in good  BY <1>1, <1>2
    <2>2. ASSUME NEW k \in 1 .. n, k - 1 \in good PROVE k \in good
        <3>1. k \in 0 .. n /\ k - 1 \in 0 .. n  BY <1>1
        <3>2. /\ v[k] \in Nat /\ v[k - 1] \in Nat /\ ds[k] \in Nat
              /\ v[k] = 10 * v[k - 1] + ds[k]
            <4>1. v[k] \in Nat /\ v[k - 1] \in Nat  BY <3>1
            <4>2. ds[k] \in Nat
                <5>1. \A x \in 0 .. 7 : x \in Nat  OBVIOUS
                <5>2. ds[k] \in 0 .. 7  BY <1>1
                <5>3. QED  BY ONLY <5>1, <5>2
            <4>3. v[k] = 10 * v[k - 1] + ds[k]  BY <1>2
            <4>4. QED  BY <4>1, <4>2, <4>3
        <3>3. v[k - 1] <= v[k]  BY <3>2
        <3>4. ASSUME NEW j \in 0 .. k PROVE v[j] <= v[k]
            <4>1. CASE j = k  BY <3>2, <4>1
            <4>2. CASE j # k
                <5>1. j \in 0 .. (k - 1) /\ j \in 0 .. n  BY <1>1, <4>2
                <5>2. v[j] <= v[k - 1] /\ v[j] \in Nat  BY <2>2, <5>1
                <5>3. QED  BY <3>2, <3>3, <5>2
            <4>3. QED  BY <4>1, <4>2
        <3>5. QED  BY <3>1, <3>4
    <2> HIDE DEF good
    <2>3. \A k \in 0 .. n : k \in good  BY <1>1, <2>1, <2>2, PrefixInduction
    <2>4. n \in 0 .. n  BY <1>1
    <2>5. \A k \in 0 .. n : v[k] <= v[n]  BY <2>3, <2>4 DEF good
    <2>6. QED  BY <1>2, <1>4, <2>5
<1>10. \A k \in 0 .. n : from[v[k]] = o[k]
    <2> DEFINE good == {k \in 0 .. n : from[v[k]] = o[k]}
    <2>1. 0 \in good  BY <1>1, <1>2, <1>3, <1>8
    <2>2. ASSUME NEW k \in 1 .. n, k - 1 \in good PROVE k \in good
        <3>1. k \in 0 .. n /\ k - 1 \in 0 .. n  BY <1>1
        <3>2. PICK a \in Nat, b \in Nat, d \in 0 .. 7 :
                /\ a = v[k - 1] /\ b = o[k - 1] /\ d = ds[k]
                /\ v[k] = 10 * a + d /\ o[k] = 8 * b + d
            BY <1>1, <1>2, <1>3, <3>1
        <3>3. from[a] = b  BY <2>2, <3>2
        <3>4. CASE 10 * a + d = 0
            <4>1. a = 0 /\ d = 0  BY <3>4
            <4>2. b = 0  BY <1>8, <3>3, <4>1
            <4>3. v[k] = 0 /\ o[k] = 0  BY <3>2, <4>1, <4>2
            <4>4. QED  BY <1>8, <3>1, <4>3
        <3>5. CASE 10 * a + d # 0
            <4>1. v[k] \in 1 .. num  BY <1>4, <1>9, <3>1, <3>2, <3>5
            <4>2. (10 * a + d) % 10 = d /\ (10 * a + d) \div 10 = a  OBVIOUS
            <4>3. from[v[k]] = d + 8 * from[a]  BY <1>8, <3>2, <4>1, <4>2
            <4>4. QED  BY <3>1, <3>2, <3>3, <4>3
        <3>6. QED  BY <3>4, <3>5
    <2> HIDE DEF good
    <2>3. \A k \in 0 .. n : k \in good  BY <1>1, <2>1, <2>2, PrefixInduction
    <2>4. QED  BY <2>3 DEF good
<1>11. from[num] = o[n]
    <2>1. n \in 0 .. n  BY <1>1
    <2>2. QED  BY <1>2, <1>10, <2>1
<1>12. QED  BY <1>3, <1>4, <1>5, <1>11 DEF num

\* Blocks rounds up, as the code's size + offset does.
LEMMA BlockFacts ==
    ASSUME NEW size \in Nat, NEW b \in Nat
    PROVE  LET offset == IF size % BLOCK # 0 THEN BLOCK - (size % BLOCK) ELSE 0
           IN  /\ Blocks(size) \in Nat
               /\ (b * BLOCK + BLOCK + size + offset) \div BLOCK = b + 1 + Blocks(size)
<1>1. PICK q \in Nat, r \in 0 .. 511 : size = 512 * q + r
    <2>1. size = 512 * (size \div 512) + (size % 512)  OBVIOUS
    <2>2. size \div 512 \in Nat /\ size % 512 \in 0 .. 511  OBVIOUS
    <2>3. QED  BY <2>1, <2>2
<1>2. size % BLOCK = r  BY <1>1 DEF BLOCK
<1>3. Blocks(size) = IF r = 0 THEN q ELSE q + 1
    <2>1. Blocks(size) = (512 * q + r + 512 - 1) \div 512  BY <1>1 DEF Blocks, BLOCK
    <2>2. QED  BY <2>1
<1>4. CASE r = 0
    <2>1. (b * 512 + 512 + (512 * q + 0) + 0) \div 512 = b + 1 + q  OBVIOUS
    <2>2. QED  BY <1>1, <1>2, <1>3, <1>4, <2>1 DEF BLOCK
<1>5. CASE r # 0
    <2>1. (b * 512 + 512 + (512 * q + r) + (512 - r)) \div 512 = b + 1 + (q + 1)  OBVIOUS
    <2>2. QED  BY <1>1, <1>2, <1>3, <1>5, <2>1 DEF BLOCK
<1>6. QED  BY <1>4, <1>5

LEMMA ContentsFacts ==
    /\ Len(Contents) \in Nat /\ DOMAIN Contents = 1 .. Len(Contents)
    /\ \A k \in 1 .. Len(Contents) : Contents[k].size \in Seq(0 .. 7)
<1> DEFINE Files == [name : Seq(STRING), size : Seq(0 .. 7),
                     elf : [magic : BOOLEAN, phoff : Nat, phnum : Nat]]
<1>1. Contents \in Seq(Files)  BY ArchiveAssumption
<1>2. \A f \in Files : f.size \in Seq(0 .. 7)  OBVIOUS
<1> HIDE DEF Files
<1>3. QED  BY <1>1, <1>2, LenProperties, ElementOfSeq

\* Where tar puts the headers: each behind the contents of the last.
LEMMA HeaderPlaces ==
    \E h \in [1 .. (Len(Contents) + 1) -> Nat \ {0}] :
        /\ h[1] = 1
        /\ \A k \in 1 .. Len(Contents) :
                h[k + 1] = h[k] + 1 + Blocks(Octal(Contents[k].size))
        /\ \A k \in 1 .. (Len(Contents) + 1) : HeaderAt(k) = h[k]
<1> DEFINE n == Len(Contents)
           len == [k \in 1 .. n |-> 1 + Blocks(Octal(Contents[k].size))]
           P == Nat \ {0}
           step == [p \in P \X (1 .. n) |-> p[1] + len[p[2]]]
           after[k \in 0 .. n] ==
                IF k = 0 THEN 1
                ELSE after[k - 1] + 1 + Blocks(Octal(Contents[k].size))
<1>1. n \in Nat /\ \A k \in 1 .. n : Blocks(Octal(Contents[k].size)) \in Nat
    <2>1. \A k \in 1 .. n : Octal(Contents[k].size) \in Nat  BY ContentsFacts, OctalRead
    <2>2. QED  BY <2>1, ContentsFacts, BlockFacts
<1>2. \A k \in 1 .. n : len[k] = 1 + Blocks(Octal(Contents[k].size)) /\ len[k] \in Nat
    BY <1>1
<1>3. \A v \in P : \A k \in 1 .. n : step[<<v, k>>] = v + len[k]  OBVIOUS
<1>4. \A k : HeaderAt(k) = after[k - 1]  BY DEF HeaderAt
<1> HIDE DEF n, len, step
<1>5. \A v \in P : \A k \in 1 .. n : v + len[k] \in P  BY <1>2
<1>6. PICK f \in [0 .. n -> P] :
        f[0] = 1 /\ \A k \in 1 .. n : f[k] = step[<<f[k - 1], k>>]
    <2>1. 1 \in P  OBVIOUS
    <2> HIDE DEF P
    <2>2. Iterative(n, P, 1, step)  BY <1>1, <1>3, <1>5, <2>1 DEF Iterative
    <2>3. QED  BY <2>2, PrefixRecursion
<1>7. \A k \in 1 .. n : /\ k - 1 \in 0 .. n /\ k \in 0 .. n /\ k # 0
                        /\ f[k] = f[k - 1] + 1 + Blocks(Octal(Contents[k].size))
    <2> SUFFICES ASSUME NEW k \in 1 .. n
                 PROVE  /\ k - 1 \in 0 .. n /\ k \in 0 .. n /\ k # 0
                        /\ f[k] = f[k - 1] + 1 + Blocks(Octal(Contents[k].size))
        OBVIOUS
    <2>1. k - 1 \in 0 .. n /\ k \in 0 .. n /\ k # 0  BY <1>1
    <2>2. f[k - 1] \in P  BY <2>1
    <2>3. f[k] = f[k - 1] + len[k]
        <3> HIDE DEF P
        <3>1. QED  BY <1>3, <1>6, <2>2
    <2>4. f[k - 1] \in Nat /\ Blocks(Octal(Contents[k].size)) \in Nat  BY <1>1, <2>2
    <2>5. QED  BY <1>2, <2>1, <2>3, <2>4
<1>8. f = [k \in 0 .. n |-> IF k = 0 THEN 1
                            ELSE f[k - 1] + 1 + Blocks(Octal(Contents[k].size))]
    <2>1. \A k \in 0 .. n : k = 0 \/ k \in 1 .. n  BY <1>1
    <2> HIDE DEF P
    <2>2. QED  BY <1>6, <1>7, <2>1
<1>9. after = [k \in 0 .. n |-> IF k = 0 THEN 1
                            ELSE after[k - 1] + 1 + Blocks(Octal(Contents[k].size))]
    BY <1>8
<1> HIDE DEF after
<1>10. \A k \in 0 .. n : k \in {j \in 0 .. n : after[j] = f[j]}
    <2> DEFINE good == {j \in 0 .. n : after[j] = f[j]}
    <2>1. 0 \in good  BY <1>1, <1>6, <1>9
    <2>2. ASSUME NEW k \in 1 .. n, k - 1 \in good PROVE k \in good
        <3>1. after[k - 1] = f[k - 1]  BY <2>2
        <3>2. after[k] = f[k]  BY <1>7, <1>9, <3>1
        <3>3. QED  BY <1>7, <3>2
    <2> HIDE DEF good
    <2>3. \A k \in 0 .. n : k \in good  BY <1>1, <2>1, <2>2, PrefixInduction
    <2>4. QED  BY <2>3 DEF good
<1> DEFINE h == [k \in 1 .. (n + 1) |-> f[k - 1]]
<1>11. \A k \in 1 .. (n + 1) : k - 1 \in 0 .. n /\ h[k] = f[k - 1]  BY <1>1
<1>12. h \in [1 .. (n + 1) -> P]
    <2> HIDE DEF P
    <2>1. QED  BY <1>11
<1>13. 1 \in 1 .. (n + 1) /\ 1 - 1 = 0  BY <1>1
<1>14. h[1] = 1  BY <1>6, <1>11, <1>13
<1>15. \A k \in 1 .. n : k \in 1 .. (n + 1) /\ k + 1 \in 1 .. (n + 1) /\ k + 1 - 1 = k
    BY <1>1
<1> HIDE DEF h, P
<1>16. \A k \in 1 .. n : h[k + 1] = h[k] + 1 + Blocks(Octal(Contents[k].size))
    BY <1>7, <1>11, <1>15
<1>17. \A k \in 1 .. (n + 1) : HeaderAt(k) = h[k]
    BY <1>4, <1>10, <1>11
<1>18. QED  BY <1>12, <1>14, <1>16, <1>17 DEF n, P

LEMMA HeaderOrder ==
    /\ HeaderAt(1) = 1
    /\ \A k \in 1 .. (Len(Contents) + 1) : HeaderAt(k) \in Nat \ {0}
    /\ \A k \in 1 .. Len(Contents) :
            HeaderAt(k + 1) = HeaderAt(k) + 1 + Blocks(Octal(Contents[k].size))
    /\ \A j \in 1 .. (Len(Contents) + 1) : \A i \in 1 .. (j - 1) :
            HeaderAt(i) < HeaderAt(j)
<1> DEFINE n == Len(Contents)
<1>1. PICK h \in [1 .. (n + 1) -> Nat \ {0}] :
        /\ h[1] = 1
        /\ \A k \in 1 .. n : h[k + 1] = h[k] + 1 + Blocks(Octal(Contents[k].size))
        /\ \A k \in 1 .. (n + 1) : HeaderAt(k) = h[k]
    BY HeaderPlaces
<1>2. n \in Nat /\ \A k \in 1 .. n : Blocks(Octal(Contents[k].size)) \in Nat
    <2>1. \A k \in 1 .. n : Octal(Contents[k].size) \in Nat  BY ContentsFacts, OctalRead
    <2>2. QED  BY <2>1, ContentsFacts, BlockFacts
<1> HIDE DEF n
<1>3. \A k \in 1 .. n : k \in 1 .. (n + 1) /\ k + 1 \in 1 .. (n + 1)  BY <1>2
<1>4. \A k \in 1 .. n : h[k] < h[k + 1]
    <2> SUFFICES ASSUME NEW k \in 1 .. n PROVE h[k] < h[k + 1]  OBVIOUS
    <2>1. PICK a \in Nat, b \in Nat : a = h[k] /\ b = Blocks(Octal(Contents[k].size))
        BY <1>1, <1>2, <1>3
    <2>2. h[k + 1] = a + 1 + b  BY <1>1, <2>1
    <2>3. QED  BY <2>1, <2>2
<1>5. \A j \in 0 .. n : j \in {k \in 0 .. n : \A i \in 1 .. k : h[i] < h[k + 1]}
    <2> DEFINE good == {k \in 0 .. n : \A i \in 1 .. k : h[i] < h[k + 1]}
    <2>1. 0 \in good  BY <1>2
    <2>2. ASSUME NEW k \in 1 .. n, k - 1 \in good PROVE k \in good
        <3>1. k \in 0 .. n /\ k - 1 + 1 = k  BY <1>2
        <3>2. \A i \in 1 .. (k - 1) : h[i] < h[k]  BY <2>2, <3>1
        <3>3. ASSUME NEW i \in 1 .. k PROVE h[i] < h[k + 1]
            <4>1. CASE i = k  BY <1>4, <4>1
            <4>2. CASE i # k
                <5>1. i \in 1 .. (k - 1) /\ i \in 1 .. (n + 1)  BY <1>2, <4>2
                <5>2. PICK a \in Nat, b \in Nat, c \in Nat :
                        a = h[i] /\ b = h[k] /\ c = h[k + 1]
                    BY <1>1, <1>3, <5>1
                <5>3. a < b /\ b < c  BY <1>4, <3>2, <5>1, <5>2
                <5>4. QED  BY <5>2, <5>3
            <4>3. QED  BY <4>1, <4>2
        <3>4. QED  BY <3>1, <3>3
    <2> HIDE DEF good
    <2>3. \A k \in 0 .. n : k \in good  BY <1>2, <2>1, <2>2, PrefixInduction
    <2>4. QED  BY <2>3 DEF good
<1>6. ASSUME NEW j \in 1 .. (n + 1), NEW i \in 1 .. (j - 1)
      PROVE  HeaderAt(i) < HeaderAt(j)
    <2>1. j - 1 \in 0 .. n /\ j - 1 + 1 = j /\ i \in 1 .. (n + 1)  BY <1>2
    <2>2. h[i] < h[j]  BY <1>5, <2>1
    <2>3. QED  BY <1>1, <2>1, <2>2
<1>7. 1 \in 1 .. (n + 1)  BY <1>2
<1>8. QED  BY <1>1, <1>3, <1>6, <1>7 DEF n

LEMMA EndFacts ==
    /\ End \in Nat /\ End = HeaderAt(Len(Contents) + 1) + 2
    /\ FirstZero \in Nat \ {0} /\ End = FirstZero + 2
    /\ DOMAIN Header = 1 .. (End - 1) /\ DOMAIN NextHeader = 1 .. (End - 1)
<1>1. Len(Contents) + 1 \in 1 .. (Len(Contents) + 1)  BY ContentsFacts
<1>2. FirstZero \in Nat \ {0}  BY <1>1, HeaderOrder DEF FirstZero
<1>3. End = FirstZero + 2  BY DEF End, ZeroBlocks
<1>4. DOMAIN Header = 1 .. (End - 1)  BY DEF Header
<1>5. DOMAIN NextHeader = DOMAIN Header  BY DEF NextHeader
<1>6. QED  BY <1>2, <1>3, <1>4, <1>5 DEF FirstZero

\* The code's way from a header to the next is where tar has put it.
LEMMA AtHeader ==
    ASSUME NEW k \in 1 .. Len(Contents)
    PROVE  /\ HeaderAt(k) \in 1 .. (End - 3)
           /\ FileAt(HeaderAt(k)) = {k}
           /\ Header[HeaderAt(k)] = Contents[k]
           /\ NextHeader[HeaderAt(k)] = HeaderAt(k + 1)
<1>1. Len(Contents) \in Nat /\ DOMAIN Contents = 1 .. Len(Contents)  BY ContentsFacts
<1>2. HeaderAt(k) \in Nat \ {0} /\ HeaderAt(k) < FirstZero
    <2>1. k \in 1 .. (Len(Contents) + 1) /\ k \in 1 .. (Len(Contents) + 1 - 1)
        BY <1>1
    <2>2. Len(Contents) + 1 \in 1 .. (Len(Contents) + 1)  BY <1>1
    <2>3. QED  BY <2>1, <2>2, HeaderOrder DEF FirstZero
<1>3. HeaderAt(k) \in 1 .. (End - 3) /\ HeaderAt(k) \in 1 .. (End - 1)
    BY <1>2, EndFacts
<1>4. FileAt(HeaderAt(k)) = {k}
    <2>1. ASSUME NEW j \in 1 .. Len(Contents), HeaderAt(j) = HeaderAt(k), j # k
          PROVE  FALSE
        <3>1. j \in 1 .. (Len(Contents) + 1) /\ k \in 1 .. (Len(Contents) + 1)  BY <1>1
        <3>2. j \in 1 .. (k - 1) \/ k \in 1 .. (j - 1)  BY <1>1, <2>1
        <3>3. HeaderAt(j) < HeaderAt(k) \/ HeaderAt(k) < HeaderAt(j)
            BY <3>1, <3>2, HeaderOrder
        <3>4. QED  BY <1>2, <2>1, <3>3
    <2>2. QED  BY <1>1, <2>1 DEF FileAt
<1>5. Header[HeaderAt(k)] = Contents[k]
    <2>1. PICK b : b = HeaderAt(k)  OBVIOUS
    <2>2. (CHOOSE j \in FileAt(b) : TRUE) \in FileAt(b)  BY <1>4, <2>1
    <2>3. (CHOOSE j \in FileAt(b) : TRUE) = k  BY <1>4, <2>1, <2>2
    <2>4. FileAt(b) # {} /\ b \in 1 .. (End - 1)  BY <1>3, <1>4, <2>1
    <2>5. Header[b] = Contents[CHOOSE j \in FileAt(b) : TRUE]  BY <2>4 DEF Header
    <2>6. QED  BY <2>1, <2>3, <2>5
<1>6. NextHeader[HeaderAt(k)] = HeaderAt(k + 1)
    <2>1. PICK b : b = HeaderAt(k)  OBVIOUS
    <2>2. PICK size \in Nat : /\ size = octal_decimal(decimal(Header[b].size))
                              /\ size = Octal(Contents[k].size)
        BY <1>5, <2>1, ContentsFacts, OctalRead
    <2>3. b \in DOMAIN Header /\ b \in Nat  BY <1>2, <1>3, <2>1, EndFacts
    <2> DEFINE offset == IF size % BLOCK # 0 THEN BLOCK - (size % BLOCK) ELSE 0
    <2>4. NextHeader[b] = (b * BLOCK + BLOCK + size + offset) \div BLOCK
        BY <2>2, <2>3 DEF NextHeader
    <2>5. (b * BLOCK + BLOCK + size + offset) \div BLOCK = b + 1 + Blocks(size)
        BY <2>3, BlockFacts
    <2>6. HeaderAt(k + 1) = b + 1 + Blocks(size)  BY <2>1, <2>2, HeaderOrder
    <2> HIDE DEF offset
    <2>7. QED  BY <2>1, <2>4, <2>5, <2>6
<1>7. QED  BY <1>3, <1>4, <1>5, <1>6

\* Elsewhere the code goes on to the next block.
LEMMA AtZero ==
    ASSUME NEW b \in 1 .. (End - 1), FileAt(b) = {}
    PROVE  Header[b] = ZeroHeader /\ NextHeader[b] = b + 1
<1>1. Header[b] = ZeroHeader  BY DEF Header
<1>2. Header[b].size = << >>  BY <1>1 DEF ZeroHeader
<1>3. << >> \in Seq(0 .. 7) /\ Len(<< >>) = 0  BY EmptySeq
<1>4. Octal(<< >>) = 0
    <2>1. PICK e : e = << >>  OBVIOUS
    <2>2. e \in Seq(0 .. 7) /\ Len(e) = 0 /\ 8 \in Nat  BY <1>3, <2>1
    <2>3. PICK v \in [0 .. Len(e) -> Nat] : v[0] = 0 /\ Value(e, 8) = v[Len(e)]
        BY <2>2, ValueFacts
    <2>4. QED  BY <2>1, <2>2, <2>3 DEF Octal
<1>5. octal_decimal(decimal(Header[b].size)) = 0  BY <1>2, <1>3, <1>4, OctalRead
<1>6. b \in DOMAIN Header /\ b \in Nat  BY EndFacts
<1>7. NextHeader[b] = (b * 512 + 512 + 0 + 0) \div 512
    BY <1>5, <1>6 DEF NextHeader, BLOCK
<1>8. QED  BY <1>1, <1>6, <1>7

LEMMA NextHeaderFacts ==
    ASSUME NEW b \in 1 .. (End - 1)
    PROVE  NextHeader[b] \in 1 .. End /\ b < NextHeader[b]
<1>1. CASE FileAt(b) = {}  BY <1>1, AtZero, EndFacts
<1>2. CASE FileAt(b) # {}
    <2>1. PICK k \in 1 .. Len(Contents) : HeaderAt(k) = b
        BY <1>2, ContentsFacts DEF FileAt
    <2>2. NextHeader[b] = HeaderAt(k + 1)  BY <2>1, AtHeader
    <2>3. k + 1 \in 1 .. (Len(Contents) + 1) /\ k \in 1 .. (k + 1 - 1)  BY ContentsFacts
    <2>4. HeaderAt(k + 1) \in Nat \ {0} /\ b < HeaderAt(k + 1)
        BY <2>1, <2>3, HeaderOrder
    <2>5. HeaderAt(k + 1) <= FirstZero
        <3>1. CASE k + 1 = Len(Contents) + 1  BY <3>1, <2>4 DEF FirstZero
        <3>2. CASE k + 1 # Len(Contents) + 1
            <4>1. /\ k + 1 \in 1 .. (Len(Contents) + 1 - 1)
                  /\ Len(Contents) + 1 \in 1 .. (Len(Contents) + 1)
                BY <3>2, ContentsFacts
            <4>2. HeaderAt(k + 1) < HeaderAt(Len(Contents) + 1)
                BY <4>1, HeaderOrder
            <4>3. QED  BY <2>4, <4>2, EndFacts DEF FirstZero
        <3>3. QED  BY <3>1, <3>2
    <2>6. QED  BY <2>2, <2>4, <2>5, EndFacts
<1>3. QED  BY <1>1, <1>2

\* The walk of get_elf_file ends, in whatever block it starts.
LEMMA WalkFacts ==
    ASSUME NEW x
    PROVE  \E w : /\ get_elf_file(x) = w[1] /\ w[End] = NoFile
                  /\ \A b \in 1 .. (End - 1) :
                        w[b] = IF Header[b].name = AfterFirst(x)
                               THEN IF b + 1 = End THEN NoFile ELSE b + 1
                               ELSE w[NextHeader[b]]
<1> DEFINE D == 1 .. End
           Match(b) == Header[b].name = AfterFirst(x)
           walk[b \in 1 .. End] ==
                IF b = End THEN NoFile
                ELSE IF Header[b].name = AfterFirst(x)
                THEN IF b + 1 = End THEN NoFile ELSE b + 1
                ELSE walk[NextHeader[b]]
           stop == {b \in D : b = End \/ Match(b)}
           rank == [b \in D |-> End - b]
           base == [b \in D |-> IF b = End \/ b + 1 = End THEN NoFile ELSE b + 1]
           step == [p \in Nat \X D |-> p[1]]
<1>1. get_elf_file(x) = walk[1]  BY DEF get_elf_file
<1>2. End \in Nat /\ NoFile \in Nat  BY EndFacts DEF NoFile
<1>3. \A b \in D : rank[b] = End - b /\ rank[b] \in 0 .. End  BY <1>2
<1>4. rank \in [D -> 0 .. End]  BY <1>3
<1>5. \A b \in D \ stop : /\ b \in 1 .. (End - 1) /\ ~ Match(b)
    <2> HIDE DEF Match
    <2>1. QED  BY <1>2
<1>6. ASSUME NEW b \in D \ stop
      PROVE  NextHeader[b] \in D /\ rank[NextHeader[b]] < rank[b]
    <2>1. NextHeader[b] \in 1 .. End /\ b < NextHeader[b]  BY <1>5, NextHeaderFacts
    <2>2. PICK c \in 1 .. End : c = NextHeader[b]  BY <2>1
    <2>3. b \in D /\ End - c < End - b  BY <1>2, <2>1, <2>2
    <2> HIDE DEF rank, stop
    <2>4. QED  BY <1>3, <2>2, <2>3
<1>7. \A b \in D : base[b] \in Nat /\ base[b] = IF b = End \/ b + 1 = End THEN NoFile ELSE b + 1
    BY <1>2
<1>8. \A v \in Nat : \A b \in D : step[<<v, b>>] = v  OBVIOUS
<1> HIDE DEF rank, base, step
<1>9. PICK f \in [D -> Nat] : \A b \in D :
        f[b] = IF b \in stop THEN base[b] ELSE step[<<f[NextHeader[b]], b>>]
    <2> HIDE DEF D, stop
    <2>1. Recursive(D, End, rank, stop, NextHeader, Nat, base, step)
        BY <1>2, <1>4, <1>6, <1>7, <1>8 DEF Recursive
    <2>2. QED  BY <2>1, RankRecursion
<1>10. ASSUME NEW b \in D
       PROVE  f[b] = IF b = End THEN NoFile
                     ELSE IF Header[b].name = AfterFirst(x)
                     THEN IF b + 1 = End THEN NoFile ELSE b + 1
                     ELSE f[NextHeader[b]]
    <2>1. CASE b \in stop
        <3>1. f[b] = base[b]  BY <1>9, <2>1
        <3>2. b = End \/ Match(b)  BY <2>1
        <3>3. QED  BY <1>7, <3>1, <3>2
    <2>2. CASE b \notin stop
        <3>1. f[b] = step[<<f[NextHeader[b]], b>>]  BY <1>9, <2>2
        <3>2. NextHeader[b] \in D /\ b # End /\ ~ Match(b)  BY <1>6, <2>2
        <3>3. f[NextHeader[b]] \in Nat  BY <3>2
        <3>4. f[b] = f[NextHeader[b]]  BY <1>8, <3>1, <3>3
        <3>5. QED  BY <3>2, <3>4
    <2>3. QED  BY <2>1, <2>2
<1>11. f = [b \in 1 .. End |->
                IF b = End THEN NoFile
                ELSE IF Header[b].name = AfterFirst(x)
                THEN IF b + 1 = End THEN NoFile ELSE b + 1
                ELSE f[NextHeader[b]]]
    BY <1>10
<1>12. walk = [b \in 1 .. End |->
                IF b = End THEN NoFile
                ELSE IF Header[b].name = AfterFirst(x)
                THEN IF b + 1 = End THEN NoFile ELSE b + 1
                ELSE walk[NextHeader[b]]]
    BY <1>11
<1> HIDE DEF walk
<1>13. End \in 1 .. End /\ \A b \in 1 .. (End - 1) : b \in 1 .. End /\ b # End
    BY EndFacts
<1>14. walk[End] = NoFile  BY <1>12, <1>13
<1>15. ASSUME NEW b \in 1 .. (End - 1)
       PROVE  walk[b] = IF Header[b].name = AfterFirst(x)
                        THEN IF b + 1 = End THEN NoFile ELSE b + 1
                        ELSE walk[NextHeader[b]]
    BY <1>12, <1>13
<1>16. QED  BY <1>1, <1>14, <1>15

\* What get_elf_file returns is the block after a header with that name.
LEMMA FoundIsNamed ==
    ASSUME NEW x, get_elf_file(x) # NoFile
    PROVE  /\ get_elf_file(x) \in Nat
           /\ get_elf_file(x) - 1 \in 1 .. (End - 1)
           /\ Header[get_elf_file(x) - 1].name = AfterFirst(x)
<1>1. PICK w : /\ get_elf_file(x) = w[1] /\ w[End] = NoFile
               /\ \A b \in 1 .. (End - 1) :
                        w[b] = IF Header[b].name = AfterFirst(x)
                               THEN IF b + 1 = End THEN NoFile ELSE b + 1
                               ELSE w[NextHeader[b]]
    BY WalkFacts
<1> DEFINE D == 1 .. End
           Named(v) == /\ v \in Nat /\ v - 1 \in 1 .. (End - 1)
                       /\ Header[v - 1].name = AfterFirst(x)
           stop == {b \in D : b = End \/ Header[b].name = AfterFirst(x)}
           rank == [b \in D |-> End - b]
           good == {b \in D : w[b] = NoFile \/ Named(w[b])}
<1>2. End \in Nat /\ End >= 3  BY EndFacts
<1>3. rank \in [D -> Nat] /\ \A b \in D : rank[b] = End - b  BY <1>2
<1>4. ASSUME NEW b \in D \ stop
      PROVE  NextHeader[b] \in D /\ rank[NextHeader[b]] < rank[b]
    <2>1. b \in 1 .. (End - 1)  BY <1>2
    <2>2. NextHeader[b] \in 1 .. End /\ b < NextHeader[b]  BY <2>1, NextHeaderFacts
    <2>3. PICK c \in 1 .. End : c = NextHeader[b]  BY <2>2
    <2>4. b \in D /\ End - c < End - b  BY <1>2, <2>2, <2>3
    <2> HIDE DEF rank, stop
    <2>5. QED  BY <1>3, <2>3, <2>4
<1>5. ASSUME NEW b \in D, b \in stop PROVE b \in good
    <2>1. CASE b = End  BY <1>1, <2>1
    <2>2. CASE b # End
        <3>1. b \in 1 .. (End - 1) /\ Header[b].name = AfterFirst(x)  BY <1>2, <1>5, <2>2
        <3>2. w[b] = NoFile \/ w[b] = b + 1  BY <1>1, <3>1
        <3>3. b + 1 - 1 = b /\ b + 1 \in Nat  BY <1>2, <3>1
        <3>4. QED  BY <3>1, <3>2, <3>3
    <2>3. QED  BY <2>1, <2>2
<1>6. ASSUME NEW b \in D \ stop, NextHeader[b] \in good PROVE b \in good
    <2>1. b \in 1 .. (End - 1) /\ Header[b].name # AfterFirst(x)  BY <1>2
    <2>2. w[b] = w[NextHeader[b]]  BY <1>1, <2>1
    <2>3. QED  BY <1>6, <2>2
<1>7. 1 \in D  BY <1>2
<1> HIDE DEF D, stop, rank, good
<1>8. 1 \in good
    <2>1. Inherited(D, rank, stop, NextHeader, good)
        BY <1>3, <1>4, <1>5, <1>6 DEF Inherited
    <2>2. QED  BY <1>7, <2>1, RankInduction
<1>9. QED  BY <1>1, <1>8 DEF good

\* When it returns nothing, no file has that name.
LEMMA NotFoundMeans ==
    ASSUME NEW x, get_elf_file(x) = NoFile
    PROVE  \A k \in DOMAIN Contents : Contents[k].name # AfterFirst(x)
<1> DEFINE n == Len(Contents)
<1>1. PICK w : /\ get_elf_file(x) = w[1] /\ w[End] = NoFile
               /\ \A b \in 1 .. (End - 1) :
                        w[b] = IF Header[b].name = AfterFirst(x)
                               THEN IF b + 1 = End THEN NoFile ELSE b + 1
                               ELSE w[NextHeader[b]]
    BY WalkFacts
<1>2. n \in Nat /\ DOMAIN Contents = 1 .. n  BY ContentsFacts
<1>3. ASSUME NEW k \in 1 .. n, w[HeaderAt(k)] = NoFile
      PROVE  Contents[k].name # AfterFirst(x) /\ w[HeaderAt(k + 1)] = NoFile
    <2>1. PICK b : b = HeaderAt(k)  OBVIOUS
    <2>2. /\ b \in 1 .. (End - 3) /\ Header[b] = Contents[k]
          /\ NextHeader[b] = HeaderAt(k + 1)
        BY <2>1, AtHeader
    <2>3. b \in 1 .. (End - 1) /\ b + 1 # End /\ b + 1 # NoFile
        BY <2>2, EndFacts DEF NoFile
    <2>4. w[b] = NoFile  BY <1>3, <2>1
    <2>5. Header[b].name # AfterFirst(x)  BY <1>1, <2>3, <2>4
    <2>6. w[b] = w[NextHeader[b]]  BY <1>1, <2>3, <2>5
    <2>7. QED  BY <2>2, <2>4, <2>5, <2>6
<1> HIDE DEF n
<1>4. \A k \in 0 .. n : k \in {j \in 0 .. n : w[HeaderAt(j + 1)] = NoFile}
    <2> DEFINE good == {j \in 0 .. n : w[HeaderAt(j + 1)] = NoFile}
    <2>1. 0 \in good
        <3>1. HeaderAt(0 + 1) = 1  BY HeaderOrder
        <3>2. QED  BY <1>1, <1>2, <3>1
    <2>2. ASSUME NEW k \in 1 .. n, k - 1 \in good PROVE k \in good
        <3>1. k \in 0 .. n /\ k - 1 + 1 = k  BY <1>2
        <3>2. w[HeaderAt(k)] = NoFile  BY <2>2, <3>1
        <3>3. QED  BY <1>3, <3>1, <3>2
    <2> HIDE DEF good
    <2>3. \A k \in 0 .. n : k \in good  BY <1>2, <2>1, <2>2, PrefixInduction
    <2>4. QED  BY <2>3 DEF good
<1>5. ASSUME NEW k \in 1 .. n PROVE Contents[k].name # AfterFirst(x)
    <2>1. k - 1 \in 0 .. n /\ k - 1 + 1 = k  BY <1>2
    <2>2. w[HeaderAt(k)] = NoFile  BY <1>4, <2>1
    <2>3. QED  BY <1>3, <2>2
<1>6. QED  BY <1>2, <1>5

\* get_elf_file finds a file of that name behind its own header, or nothing when
\* there is none: its walk from header to header, over files of any size, loses
\* no header.  The empty name is the exception, which the zero blocks have too.
THEOREM GetElfFileFinds ==
    ASSUME NEW x
    PROVE  LET found == {k \in DOMAIN Contents : Contents[k].name = AfterFirst(x)}
           IN  IF get_elf_file(x) = NoFile THEN found = {}
               ELSE \/ \E k \in found : get_elf_file(x) = HeaderAt(k) + 1
                    \/ AfterFirst(x) = << >>
<1> DEFINE found == {k \in DOMAIN Contents : Contents[k].name = AfterFirst(x)}
           b == get_elf_file(x) - 1
<1>1. CASE get_elf_file(x) = NoFile  BY <1>1, NotFoundMeans
<1>2. CASE get_elf_file(x) # NoFile
    <2>1. b \in 1 .. (End - 1) /\ Header[b].name = AfterFirst(x)
        BY <1>2, FoundIsNamed
    <2>2. CASE FileAt(b) = {}
        <3>1. Header[b] = ZeroHeader  BY <2>1, <2>2 DEF Header
        <3>2. QED  BY <1>2, <2>1, <3>1 DEF ZeroHeader
    <2>3. CASE FileAt(b) # {}
        <3>1. PICK k \in FileAt(b) : Header[b] = Contents[k]
            BY <2>1, <2>3 DEF Header
        <3>2. k \in DOMAIN Contents /\ HeaderAt(k) = b  BY <3>1 DEF FileAt
        <3>3. k \in found  BY <2>1, <3>1, <3>2
        <3>4. get_elf_file(x) = b + 1
            <4>1. get_elf_file(x) \in Nat  BY <1>2, FoundIsNamed
            <4>2. QED  BY <4>1
        <3>5. QED  BY <1>2, <3>2, <3>3, <3>4
    <2>4. QED  BY <2>2, <2>3
<1>3. QED  BY <1>1, <1>2

-----------------------------------------------------------------------------
(* The directories of PATH.                                                *)

\* A loop of calls of strtok ends and gets strings.
LEMMA TokensType ==
    ASSUME NEW s \in Str, NEW d
    PROVE  Tokens(s, d) \in Seq(Str)
<1> DEFINE n == Len(s) + 1
           D == 1 .. n
           tok == [p \in D |-> strtok(s, p, d)]
           from[p \in D] ==
                LET r == strtok(s, p, d)
                IN  IF r.token = Null THEN << >> ELSE <<r.token>> \o from[r.pos]
           stop == {p \in D : tok[p].token = Null}
           prev == [p \in D |-> tok[p].pos]
           rank == [p \in D |-> n - p]
           base == [p \in D |-> << >>]
<1>1. Tokens(s, d) = from[1]  BY DEF Tokens
<1>2. Len(s) \in Nat /\ n \in Nat /\ n >= 1  BY LenProperties DEF Str
<1>3. ASSUME NEW p \in D, tok[p].token # Null
      PROVE  tok[p].token \in Str /\ tok[p].pos \in D /\ p < tok[p].pos
    <2>1. tok[p] = strtok(s, p, d) /\ p \in 1 .. (Len(s) + 1)  OBVIOUS
    <2>2. strtok(s, p, d) # [token |-> Null, pos |-> Len(s) + 1]  BY <1>3, <2>1
    <2>3. PICK b \in p .. Len(s) : \E e \in b .. Len(s) :
                /\ tok[p].token = SubSeq(s, b, e)
                /\ tok[p].pos = IF e = Len(s) THEN Len(s) + 1 ELSE e + 2
        <3> HIDE DEF tok
        <3>1. QED  BY <2>1, <2>2, StrtokFacts
    <2> HIDE DEF tok
    <2>4. PICK e \in b .. Len(s) :
                /\ tok[p].token = SubSeq(s, b, e)
                /\ tok[p].pos = IF e = Len(s) THEN Len(s) + 1 ELSE e + 2
        BY <2>3
    <2>5. b \in Nat \ {0} /\ e \in 0 .. Len(s)  BY <1>2
    <2>6. tok[p].token \in Str  BY <2>4, <2>5, PartOfString
    <2>7. tok[p].pos \in D /\ p < tok[p].pos
        <3>1. CASE e = Len(s)  BY <1>2, <2>4, <3>1
        <3>2. CASE e # Len(s)  BY <1>2, <2>4, <3>2
        <3>3. QED  BY <3>1, <3>2
    <2>8. QED  BY <2>6, <2>7
<1>4. \A p \in D : tok[p] = strtok(s, p, d) /\ prev[p] = tok[p].pos
    OBVIOUS
<1>5. rank \in [D -> 0 .. n] /\ \A p \in D : rank[p] = n - p /\ rank[p] \in Nat
    BY <1>2
<1>6. \A p \in D \ stop : tok[p].token # Null  OBVIOUS
<1>7. \A p \in stop : tok[p].token = Null /\ p \in D  OBVIOUS
<1> HIDE DEF tok, prev, rank
<1>8. ASSUME NEW p \in D \ stop
      PROVE  prev[p] \in D /\ rank[prev[p]] < rank[p]
    <2>1. prev[p] \in D /\ p < prev[p]  BY <1>3, <1>4, <1>6
    <2>2. PICK c \in D : c = prev[p]  BY <2>1
    <2>3. n - c < n - p /\ p \in D  BY <1>2, <2>1, <2>2
    <2> HIDE DEF D, stop
    <2>4. QED  BY <1>5, <2>2, <2>3
<1>9. << >> \in Seq(Str) /\ \A p \in D : base[p] = << >>  BY EmptySeq
<1> DEFINE Step(p, v) == IF tok[p].token = Null THEN v ELSE <<tok[p].token>> \o v
           total == [q \in Seq(Str) \X D |-> Step(q[2], q[1])]
<1>10. \A v \in Seq(Str) : \A p \in D : total[<<v, p>>] = Step(p, v)  OBVIOUS
<1>11. \A v \in Seq(Str) : \A p \in D : Step(p, v) \in Seq(Str)
    <2> SUFFICES ASSUME NEW v \in Seq(Str), NEW p \in D PROVE Step(p, v) \in Seq(Str)
        OBVIOUS
    <2>1. CASE tok[p].token = Null  BY <2>1
    <2>2. CASE tok[p].token # Null
        <3>1. <<tok[p].token>> \in Seq(Str)  BY <1>3, <2>2, OneFragment
        <3>2. QED  BY <2>2, <3>1, ConcatProperties
    <2>3. QED  BY <2>1, <2>2
<1> HIDE DEF total, base
<1>12. PICK f \in [D -> Seq(Str)] : \A p \in D :
        f[p] = IF p \in stop THEN base[p] ELSE total[<<f[prev[p]], p>>]
    <2>1. \A v \in Seq(Str) : \A p \in D : total[<<v, p>>] \in Seq(Str)
        BY <1>10, <1>11
    <2> HIDE DEF D, n, stop
    <2>2. Recursive(D, n, rank, stop, prev, Seq(Str), base, total)
        BY <1>2, <1>5, <1>8, <1>9, <2>1 DEF Recursive
    <2>3. QED  BY <2>2, RankRecursion
<1>13. ASSUME NEW p \in D
       PROVE  f[p] = IF tok[p].token = Null THEN << >>
                     ELSE <<tok[p].token>> \o f[tok[p].pos]
    <2>1. CASE p \in stop  BY <1>7, <1>9, <1>12, <2>1
    <2>2. CASE p \notin stop
        <3>1. prev[p] \in D /\ prev[p] = tok[p].pos /\ tok[p].token # Null
            BY <1>4, <1>6, <1>8, <2>2
        <3>2. f[prev[p]] \in Seq(Str)  BY <3>1
        <3>3. f[p] = total[<<f[prev[p]], p>>]  BY <1>12, <2>2
        <3>4. f[p] = Step(p, f[prev[p]])
            <4> HIDE DEF Step
            <4>1. QED  BY <1>10, <3>2, <3>3
        <3>5. QED  BY <3>1, <3>4
    <2>3. QED  BY <2>1, <2>2
<1>14. f = [p \in D |-> LET r == strtok(s, p, d)
                        IN  IF r.token = Null THEN << >> ELSE <<r.token>> \o f[r.pos]]
    <2>1. \A p \in D : f[p] = LET r == strtok(s, p, d)
                              IN  IF r.token = Null THEN << >>
                                  ELSE <<r.token>> \o f[r.pos]
        BY <1>4, <1>13
    <2> HIDE DEF D
    <2>2. QED  BY <2>1
<1>15. from = [p \in D |-> LET r == strtok(s, p, d)
                        IN  IF r.token = Null THEN << >> ELSE <<r.token>> \o from[r.pos]]
    <2> HIDE DEF D
    <2>1. QED  BY <1>14
<1> HIDE DEF from
<1>16. ASSUME NEW p \in D
       PROVE  from[p] = IF tok[p].token = Null THEN << >>
                        ELSE <<tok[p].token>> \o from[tok[p].pos]
    <2> HIDE DEF D
    <2>1. QED  BY <1>4, <1>15
<1> DEFINE good == {p \in D : from[p] = f[p]}
<1>17. \A p \in D : p \in stop => p \in good  BY <1>7, <1>13, <1>16
<1>18. ASSUME NEW p \in D \ stop, prev[p] \in good PROVE p \in good
    <2>1. tok[p].token # Null /\ prev[p] = tok[p].pos /\ p \in D  BY <1>4, <1>6
    <2>2. from[prev[p]] = f[prev[p]]  BY <1>18
    <2>3. f[p] = <<tok[p].token>> \o f[prev[p]]  BY <1>13, <2>1
    <2>4. from[p] = <<tok[p].token>> \o from[prev[p]]  BY <1>16, <2>1
    <2>5. QED  BY <2>1, <2>2, <2>3, <2>4
<1>19. 1 \in D  BY <1>2
<1>20. rank \in [D -> Nat]  BY <1>5
<1> HIDE DEF D, good, stop
<1>21. 1 \in good
    <2>1. \A p \in D \ stop : prev[p] \in D /\ rank[prev[p]] < rank[p]  BY <1>8
    <2>2. \A p \in D \ stop : prev[p] \in good => p \in good  BY <1>18
    <2>3. Inherited(D, rank, stop, prev, good)
        BY <1>17, <1>20, <2>1, <2>2 DEF Inherited
    <2>4. QED  BY <1>19, <2>3, RankInduction
<1>22. from[1] = f[1]  BY <1>21 DEF good
<1>23. QED  BY <1>1, <1>19, <1>22

\* getPath returns a list of strings.
LEMMA DirsType ==
    ASSUME NEW entry \in Str
    PROVE  DirsIn(entry) \in Seq(Str)
<1>1. Len(PATH) + 2 \in Nat \ {0}  BY DEF PATH
<1>2. Len(entry) \in Nat /\ Len(entry) \in 0 .. Len(entry)  BY LenProperties DEF Str
<1>3. PICK t : t = SubSeq(entry, Len(PATH) + 2, Len(entry))  OBVIOUS
<1>4. t \in Str  BY <1>1, <1>2, <1>3, PartOfString
<1>5. PICK dirs \in Seq(Str) : dirs = Tokens(t, Semicolon)  BY <1>4, TokensType
<1>6. DirsIn(entry) = [k \in DOMAIN dirs |-> addSlash(dirs[k])]  BY <1>3, <1>5 DEF DirsIn
<1>7. /\ Len(dirs) \in Nat /\ DOMAIN dirs = 1 .. Len(dirs)
      /\ \A k \in 1 .. Len(dirs) : dirs[k] \in Str
    BY LenProperties, ElementOfSeq
<1>8. \A k \in 1 .. Len(dirs) : addSlash(dirs[k]) \in Str  BY <1>7, EndSlash DEF addSlash
<1>9. DirsIn(entry) = [k \in 1 .. Len(dirs) |-> addSlash(dirs[k])]  BY <1>6, <1>7
<1>10. QED  BY <1>7, <1>8, <1>9

LEMMA PathType ==
    ASSUME NEW e \in Seq(Str)
    PROVE  getPath(e) \in Seq(Str)
<1> DEFINE n == Len(e)
           path[k \in 0 .. n] ==
                IF k = 0 THEN << >>
                ELSE IF k \in PathEntries(e) THEN path[k - 1] \o DirsIn(e[k])
                ELSE path[k - 1]
           Step(v, k) == IF k \in PathEntries(e) THEN v \o DirsIn(e[k]) ELSE v
           step == [p \in Seq(Str) \X (1 .. n) |-> Step(p[1], p[2])]
<1>1. n \in Nat /\ \A k \in 1 .. n : e[k] \in Str  BY LenProperties, ElementOfSeq
<1>2. getPath(e) = path[n]  BY DEF getPath
<1>3. \A v \in Seq(Str) : \A k \in 1 .. n : step[<<v, k>>] = Step(v, k)  OBVIOUS
<1> HIDE DEF n, step
<1>4. \A v \in Seq(Str) : \A k \in 1 .. n : Step(v, k) \in Seq(Str)
    BY <1>1, DirsType, ConcatProperties
<1>5. << >> \in Seq(Str)  BY EmptySeq
<1>6. PICK f \in [0 .. n -> Seq(Str)] :
        f[0] = << >> /\ \A k \in 1 .. n : f[k] = step[<<f[k - 1], k>>]
    <2> HIDE DEF Step
    <2>1. Iterative(n, Seq(Str), << >>, step)  BY <1>1, <1>3, <1>4, <1>5 DEF Iterative
    <2>2. QED  BY <2>1, PrefixRecursion
<1>7. \A k \in 1 .. n : k - 1 \in 0 .. n /\ k \in 0 .. n /\ k # 0  BY <1>1
<1>8. \A k \in 1 .. n : f[k] = Step(f[k - 1], k)
    <2> HIDE DEF Step
    <2>1. QED  BY <1>3, <1>6, <1>7
<1>9. f = [k \in 0 .. n |->
                IF k = 0 THEN << >>
                ELSE IF k \in PathEntries(e) THEN f[k - 1] \o DirsIn(e[k])
                ELSE f[k - 1]]
    <2>1. \A k \in 0 .. n : k = 0 \/ k \in 1 .. n  BY <1>1
    <2>2. QED  BY <1>6, <1>8, <2>1
<1>10. path = [k \in 0 .. n |->
                IF k = 0 THEN << >>
                ELSE IF k \in PathEntries(e) THEN path[k - 1] \o DirsIn(e[k])
                ELSE path[k - 1]]
    BY <1>9
<1> HIDE DEF path
<1>11. path[0] = << >> /\ \A k \in 1 .. n : path[k] = Step(path[k - 1], k)
    <2>1. 0 \in 0 .. n  BY <1>1
    <2>2. QED  BY <1>7, <1>10, <2>1
<1> DEFINE good == {k \in 0 .. n : path[k] \in Seq(Str)}
<1>12. 0 \in good
    <2>1. 0 \in 0 .. n  BY <1>1
    <2>2. path[0] \in Seq(Str)  BY <1>5, <1>11
    <2>3. QED  BY <2>1, <2>2
<1>13. ASSUME NEW k \in 1 .. n, k - 1 \in good PROVE k \in good
    <2> HIDE DEF Step
    <2>1. path[k - 1] \in Seq(Str)  BY <1>13
    <2>2. QED  BY <1>4, <1>7, <1>11, <2>1
<1>14. n \in 0 .. n  BY <1>1
<1> HIDE DEF good
<1>15. n \in good  BY <1>1, <1>12, <1>13, <1>14, PrefixInduction
<1>16. QED  BY <1>2, <1>15 DEF good

LEMMA LastOfPath ==
    ASSUME NEW e \in Seq(Str), getPath(e) # << >>
    PROVE  Last(getPath(e)) \in Range(getPath(e))
<1>1. PICK path \in Seq(Str) : path = getPath(e)  BY PathType
<1>2. Len(path) \in Nat /\ Len(path) # 0 /\ DOMAIN path = 1 .. Len(path)
    BY <1>1, LenProperties, EmptySeq
<1>3. Len(path) \in DOMAIN path  BY <1>2
<1>4. QED  BY <1>1, <1>3 DEF Last, Range

-----------------------------------------------------------------------------
(* The file a command means.                                               *)

\* The file execvpe has found is one the name may mean, and where it finds
\* none there is none, in the archive or in the directory of PATH.
Names(file, name, e) == FileAt(file - 1) \cap Meant(name, getPath(e)) # {}

Absent(name, e) == Len(getPath(e)) <= 1 => Meant(name, getPath(e)) = {}

\* Only a file of the archive is accepted: the zero blocks are not.
LEMMA ParsedIsFile ==
    ASSUME NEW x, get_elf_file(x) # NoFile, Parses(get_elf_file(x) - 1)
    PROVE  \E k \in FileAt(get_elf_file(x) - 1) :
                k \in DOMAIN Contents /\ Contents[k].name = AfterFirst(x)
<1>1. PICK b : b = get_elf_file(x) - 1  OBVIOUS
<1>2. b \in 1 .. (End - 1) /\ Header[b].name = AfterFirst(x)  BY <1>1, FoundIsNamed
<1>3. Header[b].elf.magic  BY <1>1 DEF Parses
<1>4. FileAt(b) # {}
    <2> SUFFICES ASSUME FileAt(b) = {} PROVE FALSE  OBVIOUS
    <2>1. Header[b] = ZeroHeader  BY <1>2, AtZero
    <2>2. ZeroHeader.elf = NotElf /\ NotElf.magic = FALSE  BY DEF ZeroHeader, NotElf
    <2>3. QED  BY <1>3, <2>1, <2>2
<1>5. PICK k \in FileAt(b) : TRUE  BY <1>4
<1>6. k \in DOMAIN Contents /\ HeaderAt(k) = b  BY DEF FileAt
<1>7. k \in 1 .. Len(Contents)  BY <1>6, ContentsFacts
<1>8. Header[b] = Contents[k]  BY <1>6, <1>7, AtHeader
<1>9. QED  BY <1>1, <1>2, <1>5, <1>6, <1>8

LEMMA SearchNames ==
    ASSUME NEW name, NEW e \in Seq(Str), Search(name, e) # NoFile,
           Parses(Search(name, e) - 1)
    PROVE  Names(Search(name, e), name, e)
<1> DEFINE path == getPath(e)
<1>1. CASE get_elf_file(name) # NoFile \/ path = << >>
    <2>1. Search(name, e) = get_elf_file(name)  BY <1>1 DEF Search
    <2>2. PICK k \in FileAt(get_elf_file(name) - 1) :
            k \in DOMAIN Contents /\ Contents[k].name = AfterFirst(name)
        BY <2>1, ParsedIsFile
    <2>3. k \in Meant(name, path)  BY <2>2 DEF Meant
    <2>4. QED  BY <2>1, <2>2, <2>3 DEF Names
<1>2. CASE ~ (get_elf_file(name) # NoFile \/ path = << >>)
    <2>1. Search(name, e) = get_elf_file(Last(path) \o name)  BY <1>2 DEF Search
    <2>2. PICK x : x = Last(path) \o name  OBVIOUS
    <2>3. PICK k \in FileAt(get_elf_file(x) - 1) :
            k \in DOMAIN Contents /\ Contents[k].name = AfterFirst(x)
        BY <2>1, <2>2, ParsedIsFile
    <2>4. Last(path) \in Range(path)  BY <1>2, LastOfPath
    <2>5. k \in Meant(name, path)  BY <2>2, <2>3, <2>4 DEF Meant
    <2>6. QED  BY <2>1, <2>2, <2>3, <2>5 DEF Names
<1>3. QED  BY <1>1, <1>2

LEMMA SearchAbsent ==
    ASSUME NEW name, NEW e \in Seq(Str), Search(name, e) = NoFile
    PROVE  Absent(name, e)
<1> DEFINE path == getPath(e)
<1>1. get_elf_file(name) = NoFile  BY DEF Search
<1>2. \A k \in DOMAIN Contents : Contents[k].name # AfterFirst(name)
    BY <1>1, NotFoundMeans
<1>3. CASE path = << >>
    <2>1. Range(path) = {}  BY <1>3 DEF Range
    <2>2. Meant(name, path) = {}  BY <1>2, <2>1 DEF Meant
    <2>3. QED  BY <1>3, <2>2 DEF Absent
<1>4. CASE path # << >>
    <2>1. PICK x : x = Last(path) \o name  OBVIOUS
    <2>2. get_elf_file(x) = NoFile  BY <1>1, <1>4, <2>1 DEF Search
    <2>3. \A k \in DOMAIN Contents : Contents[k].name # AfterFirst(x)
        BY <2>2, NotFoundMeans
    <2>4. ASSUME Len(path) <= 1 PROVE Range(path) = {Last(path)}
        <3>1. PICK p \in Seq(Str) : p = path  BY PathType
        <3>2. Len(p) \in Nat /\ Len(p) # 0 /\ DOMAIN p = 1 .. Len(p)
            BY <1>4, <3>1, LenProperties, EmptySeq
        <3>3. Len(p) = 1 /\ DOMAIN p = {1}  BY <2>4, <3>1, <3>2
        <3>4. QED  BY <3>1, <3>3 DEF Last, Range
    <2>5. ASSUME Len(path) <= 1 PROVE Meant(name, path) = {}
        BY <1>2, <2>1, <2>3, <2>4, <2>5 DEF Meant
    <2>6. QED  BY <2>5 DEF Absent
<1>5. QED  BY <1>3, <1>4

LEMMA EnvType ==
    ASSUME WordsInv
    PROVE  env \in Seq(Str)
<1>1. PICK n \in ARGV .. CELLS :
        env = [k \in 1 .. (n - ARGV) |-> cells[ARGV + k - 1]]
    BY EnvOfShell
<1>2. n - ARGV \in Nat /\ \A k \in 1 .. (n - ARGV) : ARGV + k - 1 \in Cell
    BY SlotFacts DEF Cell
<1>3. \A k \in 1 .. (n - ARGV) : cells[ARGV + k - 1] \in Str  BY <1>2 DEF WordsInv
<1>4. PICK m \in Nat : m = n - ARGV  BY <1>2
<1>5. env = [k \in 1 .. m |-> cells[ARGV + k - 1]] /\ \A k \in 1 .. m : cells[ARGV + k - 1] \in Str
    BY <1>1, <1>3, <1>4
<1>6. QED  BY <1>5

\* The first word of a line is the name the child looks for.
LEMMA FirstWord ==
    ASSUME WordsInv, Held, ListFrom(cells, 0) # << >>
    PROVE  ListFrom(cells, 0)[1] = Runs(command, Space)[1]
<1> DEFINE nulls == {j \in 0 .. (CELLS - 1) : cells[j] = Null} \cup {CELLS}
<1>1. CELLS \in Nat /\ 0 \in Cell /\ ARGV \in Nat /\ ~ (0 >= ARGV) /\ MAX_WORDS \in Nat
    BY CellFacts, ShellAssumption
<1>2. PICK m \in nulls : \A y \in nulls : m <= y
    <2>1. nulls \subseteq Nat /\ nulls # {}  BY <1>1
    <2> HIDE DEF nulls
    <2>2. QED  BY <2>1, NatLeast
<1>3. /\ m \in 0 .. CELLS /\ (m = CELLS \/ cells[m] = Null)
      /\ \A j \in 0 .. (m - 1) : cells[j] # Null
    BY <1>1, <1>2
<1>4. ListFrom(cells, 0) = [k \in 1 .. (m - 0) |-> cells[0 + k - 1]]
    BY <1>1, <1>3, ListLength
<1>5. m # 0
    <2> SUFFICES ASSUME m = 0 PROVE FALSE  OBVIOUS
    <2>1. ListFrom(cells, 0) = [k \in 1 .. 0 |-> cells[0 + k - 1]]  BY <1>4
    <2>2. ListFrom(cells, 0) = << >>  BY <2>1
    <2>3. QED  BY <2>2
<1>6. 1 \in 1 .. (m - 0) /\ 0 + 1 - 1 = 0  BY <1>3, <1>5
<1>7. ListFrom(cells, 0)[1] = cells[0]  BY <1>4, <1>6
<1>8. cells[0] # Null  BY <1>3, <1>5
<1>9. RunBegins(command, Space) # {}  BY <1>8 DEF Held
<1>10. Holds(0)
    <2> DEFINE n == Cardinality(RunBegins(command, Space))
    <2>1. n \in Nat /\ IsFiniteSet(RunBegins(command, Space))
        BY BeginsFinite DEF WordsInv
    <2>2. n # 0  BY <1>9, <2>1, FS_EmptySet
    <2>3. 0 \in 0 .. (n - 1) /\ 0 \in 0 .. MAX_WORDS  BY <1>1, <2>1, <2>2
    <2>4. QED  BY <1>9, <2>3 DEF Held
<1>11. cells[0] = Runs(command, Space)[0 + 1]  BY <1>1, <1>10 DEF Holds
<1>12. QED  BY <1>7, <1>11

\* A child that runs, or whose execvpe failed, in time.
Loaded(c) ==
    LET t == task[c] IN
    /\ {"file", "env"} \subseteq DOMAIN t
    /\ t.state = "runs" /\ ~ t.late => Names(t.file, t.words[1], t.env)
    /\ t.state = "failed" /\ ~ t.late => Absent(t.words[1], t.env)

CommandInv == ArgvInv /\ \A c \in Proc!Pids : Loaded(c)

LEMMA CommandInit == Init => CommandInv
<1> SUFFICES ASSUME Init PROVE CommandInv  OBVIOUS
<1>1. \A c \in Proc!Pids : task[c] = NoTask  BY DEF Init
<1>2. {"file", "env"} \subseteq DOMAIN NoTask  BY DEF NoTask
<1>3. \A c \in Proc!Pids : Loaded(c)  BY <1>1, <1>2, NoTaskFacts DEF Loaded
<1>4. QED  BY <1>3, ArgvInit DEF CommandInv

\* execvpe.
LEMMA ExecvpeCommand ==
    ASSUME CommandInv, ArgvInv', NEW c \in Proc!Pids, Execvpe(c)
    PROVE  CommandInv'
<1> DEFINE words == ListFrom(cells, 0)
           file == Search(words[1], env)
           found == IF file = NoFile THEN "failed"
                    ELSE IF Parses(file - 1) THEN "runs" ELSE "garbled"
<1>1. PICK a, k :
        task' = [task EXCEPT ![c] = [task[c] EXCEPT
                    !.state = found, !.argv = a,
                    !.env = ListFrom(Copied(words, env), ARGV),
                    !.file = file, !.clean = k]]
    BY DEF Execvpe
<1>2. ListFrom(Copied(words, env), ARGV) = env  BY CopiedEnv
<1>3. task[c].state = "forked" /\ words # << >>  BY DEF Execvpe
<1>4. env \in Seq(Str)  BY EnvType DEF CommandInv, ArgvInv
<1>5. found = "runs" => Names(file, words[1], env)
    <2> SUFFICES ASSUME found = "runs" PROVE Names(file, words[1], env)  OBVIOUS
    <2>1. file # NoFile /\ Parses(file - 1)  BY Zenon
    <2>2. QED  BY <1>4, <2>1, SearchNames
<1>6. found = "failed" => Absent(words[1], env)
    <2> SUFFICES ASSUME found = "failed" PROVE Absent(words[1], env)  OBVIOUS
    <2>1. file = NoFile  OBVIOUS
    <2>2. QED  BY <1>4, <2>1, SearchAbsent
<1>7. ASSUME ~ task[c].late PROVE words[1] = task[c].words[1]
    <2>1. Held /\ task[c].words = Runs(command, Space)
        BY <1>3, <1>7 DEF CommandInv, ArgvInv, Started
    <2>2. QED  BY <1>3, <2>1, FirstWord DEF CommandInv, ArgvInv
<1> HIDE DEF words, file, found
<1>8. task' = [task EXCEPT ![c] = [task[c] EXCEPT
                    !.state = found, !.argv = a, !.env = env,
                    !.file = file, !.clean = k]]
    BY <1>1, <1>2
<1>9. ASSUME NEW d \in Proc!Pids PROVE Loaded(d)'
    <2>1. Loaded(d) /\ d \in DOMAIN task  BY DEF CommandInv, ArgvInv
    <2>2. CASE d = c
        <3>1. {"state", "late", "words", "env", "file"} \subseteq DOMAIN task[c]
            BY <2>2 DEF CommandInv, ArgvInv, Started, Loaded
        <3>2. task'[c] = [task[c] EXCEPT
                    !.state = found, !.argv = a, !.env = env,
                    !.file = file, !.clean = k]
            BY <1>8, <2>1, <2>2
        <3>3. /\ DOMAIN task'[c] = DOMAIN task[c] /\ task'[c].state = found
              /\ task'[c].env = env /\ task'[c].file = file
              /\ task'[c].late = task[c].late /\ task'[c].words = task[c].words
            BY <3>1, <3>2
        <3>4. QED  BY <1>5, <1>6, <1>7, <2>2, <3>1, <3>3 DEF Loaded
    <2>3. CASE d # c
        <3>1. task'[d] = task[d]  BY <1>8, <2>1, <2>3
        <3>2. QED  BY <2>1, <3>1 DEF Loaded
    <2>4. QED  BY <2>2, <2>3
<1>10. QED  BY <1>9 DEF CommandInv

\* Steps that start no program.
LEMMA OthersCommand ==
    ASSUME CommandInv, ArgvInv', NEW c \in Proc!Pids, task'[c] # task[c],
           \/ \E line \in Lines : ReadLine(line)
           \/ ShellForks
           \/ \E d \in Proc!Pids :
                ExecvpeGarbage(d) \/ \E code \in Codes : ProgramExits(d, code)
    PROVE  Loaded(c)'
<1>1. c \in DOMAIN task /\ Loaded(c) /\ Started(c)  BY DEF CommandInv, ArgvInv
<1>2. {"file", "env"} \subseteq DOMAIN NoTask  BY DEF NoTask
<1>3. {"state", "late", "file", "env"} \subseteq DOMAIN task[c]
    BY <1>1 DEF Started, Loaded
<1>4. CASE \E line \in Lines : ReadLine(line)
    <2>1. task' = [d \in DOMAIN task |->
                    IF task[d].state = "forked"
                    THEN [task[d] EXCEPT !.late = TRUE] ELSE task[d]]
        BY <1>4 DEF ReadLine
    <2>2. task'[c] = [task[c] EXCEPT !.late = TRUE]  BY <1>1, <2>1
    <2>3. DOMAIN task'[c] = DOMAIN task[c] /\ task'[c].late = TRUE  BY <1>3, <2>2
    <2>4. QED  BY <1>3, <2>3 DEF Loaded
<1>5. CASE ShellForks
    <2> DEFINE new == [NoTask EXCEPT !.state = "forked", !.fg = ~ bg,
                                     !.words = Runs(command, Space), !.asked = wanted]
    <2>1. task' = [task EXCEPT ![child'] = new]  BY <1>5 DEF ShellForks
    <2>2. DOMAIN new = DOMAIN NoTask /\ new.state = "forked"  BY NoTaskFacts
    <2> HIDE DEF new
    <2>3. task'[c] = new  BY <1>1, <2>1
    <2>4. QED  BY <1>2, <2>2, <2>3 DEF Loaded
<1>6. ASSUME NEW d \in Proc!Pids, ExecvpeGarbage(d) PROVE Loaded(c)'
    <2>1. task' = [task EXCEPT ![d].state = "failed"] /\ task[d].late
        BY <1>6 DEF ExecvpeGarbage
    <2>2. d = c  BY <1>1, <2>1
    <2>3. task'[c] = [task[c] EXCEPT !.state = "failed"]  BY <1>1, <2>1, <2>2
    <2>4. DOMAIN task'[c] = DOMAIN task[c] /\ task'[c].late = task[c].late
        BY <1>3, <2>3
    <2>5. QED  BY <1>3, <2>1, <2>2, <2>4 DEF Loaded
<1>7. ASSUME NEW d \in Proc!Pids, \E code \in Codes : ProgramExits(d, code)
      PROVE  Loaded(c)'
    <2>1. task' = [task EXCEPT ![d] = NoTask]  BY <1>7 DEF ProgramExits
    <2>2. task'[c] = NoTask  BY <1>1, <2>1
    <2>3. QED  BY <1>2, <2>2, NoTaskFacts DEF Loaded
<1>8. QED  BY <1>4, <1>5, <1>6, <1>7

LEMMA CommandStep == CommandInv /\ [Next]_vars => CommandInv'
<1> SUFFICES ASSUME CommandInv, [Next]_vars PROVE CommandInv'  OBVIOUS
<1>1. ArgvInv'  BY ArgvStep DEF CommandInv
<1>2. ASSUME NEW c \in Proc!Pids, task'[c] = task[c] PROVE Loaded(c)'
    <2>1. Loaded(c)  BY DEF CommandInv
    <2>2. QED  BY <1>2, <2>1 DEF Loaded
<1>3. CASE \/ \E line \in Lines : ReadLine(line)
           \/ ShellForks
           \/ \E d \in Proc!Pids :
                ExecvpeGarbage(d) \/ \E code \in Codes : ProgramExits(d, code)
    <2>1. ASSUME NEW c \in Proc!Pids PROVE Loaded(c)'
        <3>1. CASE task'[c] = task[c]  BY <1>2, <3>1
        <3>2. CASE task'[c] # task[c]  BY <1>1, <1>3, <3>2, OthersCommand
        <3>3. QED  BY <3>1, <3>2
    <2>2. QED  BY <1>1, <2>1 DEF CommandInv
<1>4. CASE \/ NextWord \/ Setenv \/ Cd \/ PrintsOnly
           \/ ShellFaults \/ NoTaskLeft \/ ShellWaits \/ ShellResumes \/ Tick
           \/ Spin \/ UNCHANGED vars \/ \E c \in Proc!Pids : ProgramFaults(c)
    <2>1. task' = task
        BY <1>4 DEF NextWord, Setenv, Cd, PrintsOnly, ShellFaults, NoTaskLeft,
                    ShellWaits, ShellResumes, Tick, Spin, ProgramFaults, vars
    <2>2. QED  BY <1>1, <1>2, <2>1 DEF CommandInv
<1>5. ASSUME NEW c \in Proc!Pids, Execvpe(c) PROVE CommandInv'
    BY <1>1, <1>5, ExecvpeCommand
<1>6. QED  BY <1>3, <1>4, <1>5 DEF Next

\* A program that execvpe has started in time has the words of its line, and it
\* is a file of the archive that the first word names, as a path or in a
\* directory of PATH: for every archive, every PATH and whatever was typed.
THEOREM RunsCommandHolds == Spec => []RunsCommand
<1>1. CommandInv => RunsCommand
    <2> SUFFICES ASSUME CommandInv PROVE RunsCommand  OBVIOUS
    <2>1. ArgvDelivered  BY DEF CommandInv, ArgvInv, Started, ArgvDelivered
    <2>2. QED  BY <2>1 DEF CommandInv, Loaded, Names, RunsCommand
<1>2. QED  BY <1>1, CommandInit, CommandStep, PTL DEF Spec

\* When execvpe has failed in time and PATH names at most one directory, the
\* archive has no file that the first word names as a path or in that directory.
THEOREM NotFoundIsAbsentHolds == Spec => []NotFoundIsAbsent
<1>1. CommandInv => NotFoundIsAbsent
    BY DEF CommandInv, Loaded, Absent, NotFoundIsAbsent
<1>2. QED  BY <1>1, CommandInit, CommandStep, PTL DEF Spec
=============================================================================
