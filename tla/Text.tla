-------------------------------- MODULE Text --------------------------------
(***************************************************************************)
(* The string functions of Deep OS that its programs and its kernel take   *)
(* apart and put together lines, paths and variables with (libc/string.c   *)
(* and sys/string.c, which have the same bodies).                          *)
(*                                                                         *)
(* A string is a sequence of fragments.  A character the code looks for is *)
(* a fragment of its own, a run of others may be one; strcat is \o, and    *)
(* strcmp returns 0 for equal sequences.                                   *)
(***************************************************************************)
EXTENDS Integers, SequencesExt

Null == <<"NULL">>             \* a null pointer, where a string may be
Space == " "                   \* ' ', '\t' or '\n': isspace
Slash == <<"/">>

startsWith(str, substr) == IsPrefix(substr, str)
endsWith(str, substr) == IsSuffix(substr, str)

trim(str) ==
    LET ink == {i \in DOMAIN str : str[i] # Space}
    IN  IF ink = {} THEN << >> ELSE SubSeq(str, Min(ink), Max(ink))

\* One call of strtok that continues at position p: the token it returns and
\* the position it keeps, after the delimiter that ends the token.
strtok(str, p, delim) ==
    LET end == Len(str) + 1
        ink == {i \in p .. Len(str) : str[i] # delim}
        start == Min(ink)
        stops == {i \in start .. Len(str) : str[i] = delim}
    IN  IF ink = {} THEN [token |-> Null, pos |-> end]
        ELSE IF stops = {} THEN [token |-> SubSeq(str, start, Len(str)), pos |-> end]
        ELSE [token |-> SubSeq(str, start, Min(stops) - 1), pos |-> Min(stops) + 1]

\* The tokens a loop of calls gets.
Tokens(str, delim) ==
    LET from[p \in 1 .. (Len(str) + 1)] ==
            LET r == strtok(str, p, delim)
            IN  IF r.token = Null THEN << >> ELSE <<r.token>> \o from[r.pos]
    IN  from[1]

\* What is left of a string in place after such a loop: every delimiter has
\* become a NUL, and the string ends at the first.
CutByTokens(str, delim) ==
    LET at == {i \in DOMAIN str : str[i] = delim}
    IN  IF at = {} THEN str ELSE SubSeq(str, 1, Min(at) - 1)

\* Reference: the maximal runs of fragments other than delim, in order.
IsRun(str, delim, b, e) ==
    /\ \A i \in b .. e : str[i] # delim
    /\ b = 1 \/ str[b - 1] = delim
    /\ e = Len(str) \/ str[e + 1] = delim

RunBegins(str, delim) ==
    {b \in DOMAIN str : \E e \in b .. Len(str) : IsRun(str, delim, b, e)}

Runs(str, delim) ==
    LET begins == RunBegins(str, delim)
        begin(k) == CHOOSE b \in begins : Cardinality({c \in begins : c < b}) = k - 1
        end(k) == CHOOSE e \in begin(k) .. Len(str) : IsRun(str, delim, begin(k), e)
    IN  [k \in 1 .. Cardinality(begins) |-> SubSeq(str, begin(k), end(k))]
=============================================================================
