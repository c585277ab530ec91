----------------------------- MODULE MCVoTools -----------------------------
(***************************************************************************)
(* The tools, in one run: a behaviour builds a cartridge (VoBuild) or runs *)
(* the rig on a pair of them and judges its output (VoFrame).              *)
(*                                                                         *)
(* For VoBuild, an eight-byte cartridge.  Lines 1, 3 and 7 have the same   *)
(* text, as five of the seven input sites of the real source do in pairs,  *)
(* line 4 reads a register through a mirror and line 6 is a table with a   *)
(* banned byte in it.                                                      *)
(*                                                                         *)
(* For VoFrame, a frame counter of three values under bytes of two and a   *)
(* sound that counts two bits of three.                                    *)
(***************************************************************************)
EXTENDS VoBuild, VoFrame

MCPristine == << <<<<"a">>>>, <<<<"b", "c">>>>, <<<<"a">>>>, <<<<"REG">>>>,
                 <<>>, <<<<"ban">>>>, <<<<"a">>>>, <<<<"e">>>> >>

Comment == <<>>
\* A comment line more at the head, two more, one less in the middle, two data
\* lines made one, and one line split.
MCDisassemblies ==
    { MCPristine,
      <<Comment>> \o MCPristine,
      <<Comment, Comment>> \o MCPristine,
      <<Comment, Comment, Comment, Comment>> \o MCPristine,
      SubSeq(MCPristine, 1, 4) \o SubSeq(MCPristine, 6, 8),
      SubSeq(MCPristine, 1, 5) \o << <<<<"ban">>, <<"a">>>>, <<<<"e">>>> >> }

\* An entry of patches.py as its author writes it, looking at the disassembly.
Patch(first, n, text) ==
    [line |-> first, nlines |-> n, new |-> text,
     old |-> FlattenSeq(SubSeq(MCPristine, first, first + n - 1)),
     addr |-> Len(Image(SubSeq(MCPristine, 1, first - 1))),
     span |-> Len(Image(SubSeq(MCPristine, first, first + n - 1)))]

One == {<<<<"N">>>>, <<<<"a">>>>, <<>>, <<<<"N", "O">>>>}
Two == {<<<<"P", "Q">>>>, <<<<"P">>, <<"Q">>>>, <<<<"P">>>>, <<<<"P">>, <<"Q">>, <<"R">>>>}
At3 == {Patch(3, 1, t) : t \in One}
At2 == {Patch(2, 1, t) : t \in Two}
At1 == {Patch(1, 1, <<<<"S">>>>)}
At8 == {Patch(8, 1, t) : t \in {<<<<"T">>>>, <<<<"T">>, <<"U">>>>, <<<<"T", "U">>>>}}
Across == {Patch(2, 2, <<<<"P">>, <<"Q", "N">>>>)}

MCPatchTables ==
    {<<>>} \cup {<<p>> : p \in At2 \cup At3 \cup At8 \cup Across}
           \cup {<<p, q>> : p \in At2, q \in At3}
           \cup {<<q, p>> : p \in At1, q \in At3}

Table(c, d, kind) == << [lo |-> 0, hi |-> c, bank |-> "GAME", kind |-> "code"],
                        [lo |-> c, hi |-> d, bank |-> "BOTH", kind |-> kind],
                        [lo |-> d, hi |-> 8, bank |-> "KERN", kind |-> "data"] >>
\* The shape of the real table, with its three holes in the game bank and its two
\* in the kernel bank: a region from each edge to the next.
Cut(edges, banks) == [i \in 1 .. Len(banks) |->
    [lo |-> edges[i], hi |-> edges[i + 1], bank |-> banks[i], kind |-> "data"]]
Real == <<"GAME", "KERN", "BOTH", "KERN", "GAME", "BOTH", "KERN">>
MCRegionTables ==
    {Table(x[1], x[2], x[3]) : x \in
       {y \in (1 .. 6) \X (2 .. 7) \X {"code", "data"} : y[1] < y[2]}}
    \cup {Cut(<<0, 1, 3, 4, 5, 6, 7, 8>>, Real), Cut(<<0, 4, 5, 7, 8>>, SubSeq(Real, 1, 4))}

MCEquates == {"mirror", "plain", "none"}

Nets == {<<>>, <<<<"net">>>>, <<<<"net", "ban">>>>, <<<<"net">>, <<"net", "ban">>, <<"net">>>>}
Shim(g, k) == [GAME |-> <<<<>>, k, g, k, <<>>, <<>>, k>>, KERN |-> <<k, <<>>, <<>>, <<>>, k>>]
MCShims == {Shim(g, k) : g \in Nets, k \in {<<>>, <<<<"net">>>>}}

\* Six bytes below the vectors: one that just fits, one whose end crosses.
MCTails == {<<3, 3>>, <<2, 3, 2>>}

MCBeeps == {3, 4}

VARIABLE job
MCvars == <<job, bvars, fvars>>

\* The tree a rig's images were built from.
Plain == [src |-> MCPristine, patches |-> <<>>, regions |-> Table(2, 4, "code"),
          vcs |-> "plain", shim |-> Shim(<<>>, <<>>), tail |-> <<3, 3>>]

MCInit ==
    /\ BuildInit /\ FrameInit
    /\ \/ job = "build" /\ ram = [c \in Consoles |-> VOSCLR]
       \/ job = "judge" /\ tree = Plain

MCNext ==
    \/ job = "build" /\ BuildNext /\ UNCHANGED <<job, fvars>>
    \/ job = "judge" /\ FrameNext /\ UNCHANGED <<job, bvars>>

MCSpec == MCInit /\ [][MCNext]_MCvars

\* The inductive invariants of the build and of the frame.
ToolsInv == BuildInv /\ FrameInv
=============================================================================
