------------------------------ MODULE MC_Kprintf ------------------------------
(* Calls of kprintf as the kernel makes them: each run of plain text is one *)
(* "t" byte (the buffer never fills on these formats).                      *)
EXTENDS Kprintf

MC_PRINTF_BUFFER_SIZE == 1024

\* shell.c:143  "Peek at 0x%llx (size %zu): "            addr, size_bytes
PeekHeader == [fmt  |-> <<"t", "%", "l", "l", "x", "t", "%", "z", "u", "t">>,
               args |-> <<1024, 4>>]
\* shell.c:148  "0x%08llx\n"                              value
PeekWord == [fmt  |-> <<"t", "%", "0", "8", "l", "l", "x", "NL">>,
             args |-> <<7>>]
\* shell.c:206  "Poke at 0x%llx (size %zu) with value 0x%llx\n"
PokeHeader == [fmt  |-> <<"t", "%", "l", "l", "x", "t", "%", "z", "u", "t",
                          "%", "l", "l", "x", "NL">>,
               args |-> <<1024, 4, 7>>]
\* kheap.c:126  "KHeap: Coalescing forward %p (%zu) with %p (%zu)\n"
Coalescing == [fmt  |-> <<"t", "%", "p", "t", "%", "z", "u", "t", "%", "p",
                          "t", "%", "z", "u", "t", "NL">>,
               args |-> <<4096, 32, 4160, 64>>]
\* shell.c:270  "  Highest Usable Addr: 0x%llx\n" (supported directives only)
PlainHex == [fmt  |-> <<"t", "%", "l", "l", "x", "NL">>, args |-> <<255>>]

MC_Calls == {PeekHeader, PeekWord, PokeHeader, Coalescing, PlainHex}
MC_Junk == {"NUL", "t", "d"}
MC_Garbage == {0, 9}
=============================================================================
