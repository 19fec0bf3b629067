------------------------------ MODULE Archive ------------------------------
(***************************************************************************)
(* Finding an executable in the archive tarfs: get_elf_file of             *)
(* sys/read_tarfs.c, octal_decimal and oct_to_dec, which read the size in  *)
(* a header, and Parse_ELF_Executable of sys/elf.c.                        *)
(*                                                                         *)
(* The archive is a sequence of 512-byte blocks, as tar writes it: for     *)
(* each file a header and as many blocks as its contents take, then zero   *)
(* blocks.                                                                 *)
(***************************************************************************)
EXTENDS Text

CONSTANTS
    Contents,  \* the files of the archive in order: name, size in octal
               \* digits as in the header, and what the contents start with
    Letters    \* the fragments of names that are a single character

BLOCK == 512
INT_MAX == 2147483647
ELF_HEADER == 64               \* sizeof(elfHeader)
PROGRAM_HEADER == 56           \* sizeof(programHeader)
EXE_MAX_SEGMENTS == 100
NoFile == 0                    \* get_elf_file returns NULL

NotElf == [magic |-> FALSE, phoff |-> 0, phnum |-> 0]

\* The number that digits stand for in a base.
Value(digits, base) ==
    LET first[n \in 0 .. Len(digits)] ==
            IF n = 0 THEN 0 ELSE base * first[n - 1] + digits[n]
    IN  first[Len(digits)]

\* Reference: the size a header gives.
Octal(digits) == Value(digits, 8)

Blocks(size) == (size + BLOCK - 1) \div BLOCK

\* Reference: the block in which tar puts header k.
HeaderAt(k) ==
    LET after[n \in 0 .. Len(Contents)] ==
            IF n = 0 THEN 1
            ELSE after[n - 1] + 1 + Blocks(Octal(Contents[n].size))
    IN  after[k - 1]

ZeroBlocks == 2
ZeroHeader == [name |-> << >>, size |-> << >>, elf |-> NotElf]
FirstZero == HeaderAt(Len(Contents) + 1)
End == FirstZero + ZeroBlocks

\* The file whose header is in block b, if there is one.
FileAt(b) == {k \in DOMAIN Contents : HeaderAt(k) = b}

\* What the code finds in block b when it looks for a header there.
Header ==
    [b \in 1 .. (End - 1) |->
        IF FileAt(b) = {} THEN ZeroHeader
        ELSE Contents[CHOOSE k \in FileAt(b) : TRUE]]

-----------------------------------------------------------------------------
\* The digits read as a decimal number, and the number with these digits read
\* as octal.
decimal(digits) == Value(digits, 10)

\* No file is so large that its digits, read as a decimal number, are more
\* than an int holds.
ASSUME ArchiveAssumption ==
    /\ Contents \in Seq([name : Seq(STRING), size : Seq(0 .. 7),
                         elf : [magic : BOOLEAN, phoff : Nat, phnum : Nat]])
    /\ \A k \in DOMAIN Contents : decimal(Contents[k].size) <= INT_MAX

octal_decimal(num) ==
    LET from[n \in 0 .. num] ==
            IF n = 0 THEN 0 ELSE (n % 10) + 8 * from[n \div 10]
    IN  from[num]

\* Seeded fault: contents that fill their last block are rounded up too.
NextPadsAlways ==
    [b \in DOMAIN Header |->
        LET size == octal_decimal(decimal(Header[b].size))
            next == (b * BLOCK + BLOCK + size + BLOCK - (size % BLOCK))
        IN  Min({next \div BLOCK, End})]

\* The header after the one in block b: start + 512 + size + offset.
NextHeader ==
    [b \in DOMAIN Header |->
        LET size == octal_decimal(decimal(Header[b].size))
            offset == IF size % BLOCK # 0 THEN BLOCK - (size % BLOCK) ELSE 0
        IN  (b * BLOCK + BLOCK + size + offset) \div BLOCK]

\* oct_to_dec starts at the last digit that is not 0.
oct_to_dec(digits) ==
    LET nonzero == {i \in DOMAIN digits : digits[i] # 0}
    IN  IF nonzero = {} THEN 0 ELSE Octal(SubSeq(digits, 1, Max(nonzero)))

\* filename + 1: a string without its first character.
AfterFirst(str) ==
    IF Head(str) \in Letters \cup {"/"} THEN Tail(str)
    ELSE <<"?">> \o Tail(str)

\* The block after the header that has the name, or NoFile.
get_elf_file(filename) ==
    LET walk[b \in 1 .. End] ==
            IF b = End THEN NoFile
            ELSE IF Header[b].name = AfterFirst(filename)
            THEN IF b + 1 = End THEN NoFile ELSE b + 1
            ELSE walk[NextHeader[b]]
    IN  walk[1]

\* Parse_ELF_Executable accepts the file whose header is in block b; on an
\* error it leaves exeFormat as it is, and get_elf_file does not look.
Parses(b) ==
    LET h == Header[b]
        length == oct_to_dec(h.size)
    IN  /\ length >= ELF_HEADER
        /\ h.elf.magic
        /\ h.elf.phnum <= EXE_MAX_SEGMENTS
        /\ length >= h.elf.phoff + h.elf.phnum * PROGRAM_HEADER
=============================================================================
