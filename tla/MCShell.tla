------------------------------ MODULE MCShell ------------------------------
(* Instance of Shell for TLC.                                              *)
EXTENDS Shell

Elf == [magic |-> TRUE, phoff |-> 64, phnum |-> 2]
File(name, size, elf) == [name |-> name, size |-> size, elf |-> elf]

\* Two directories of programs: "ls" and "vi" end within a block, "cp" fills
\* its last one, and its size, 512 * 8, has trailing zeros that oct_to_dec
\* passes over.
MCContents ==
    << File(<<"bin", "/">>, <<0, 0, 0, 0, 0>>, NotElf),
       File(<<"bin", "/", "ls">>, <<0, 1, 7, 5, 0>>, Elf),
       File(<<"bin", "/", "cp">>, <<1, 0, 0, 0, 0>>, Elf),
       File(<<"usr", "/">>, <<0, 0, 0, 0, 0>>, NotElf),
       File(<<"usr", "/", "vi">>, <<0, 1, 0, 0, 1>>, Elf) >>

MCLines ==
    { <<"ls", " ", "a">>,                                   \* along PATH
      <<"/", "bin", "/", "ls", " ", "&">>,                  \* background
      <<"vi">>,
      <<"cp">>,
      <<"x">>,                                              \* one character
      <<"setenv", " ", "PA", "TH", " ", "/", "bin", ";", "/", "usr">>,
      <<"setenv", " ", "PA", " ", "a">>,
      <<"setenv", " ", "PA", "TH", " ", ";">>,
      <<" ", "cd", " ", "bin", " ">>,
      <<"cd", " ", "/">>,
      <<"help">>,
      <<"ls", " ", "a", " ", "b", " ", "a", " ",            \* into envp
        "PA", "TH", "=", "/", "bin", ";", "&">>,
      <<"x", " ", "a", " ", "x", " ", "a", " ", "x", " ", "a", " ", "x">>,
      <<"&">>,
      <<"sh">> }

\* A PATH of two directories, and a program of each.
MCPathLines ==
    { <<"setenv", " ", "PA", "TH", " ", "/", "bin", ";", "/", "usr">>,
      <<"ls", " ", "a">>,
      <<"vi">> }
=============================================================================
