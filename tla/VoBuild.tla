------------------------------- MODULE VoBuild -------------------------------
(***************************************************************************)
(* The build of the cartridge image, in the order build.sh runs it: the    *)
(* declared patches are applied to the disassembly (tools/patches.py), the *)
(* patched source is split into the two game banks (tools/mkbanks.py), the *)
(* fixed tail and the banks are assembled and measured (tools/mktail.py,   *)
(* tools/checkbanks.py), and the image is judged (tools/checkrom_filter.py *)
(* and tools/check_patch.py).  A gate that fails ends the build: set -e.   *)
(*                                                                         *)
(* The 2048 bytes are scaled to a handful.  A source line is a sequence of *)
(* instructions, an instruction a sequence of bytes, a comment line the    *)
(* empty sequence.  What a developer may hand to the build is the input:   *)
(* a disassembly, a patch table, a region table, the netcode in the holes, *)
(* the tail, and what vcs.inc says of a register.  The model then says     *)
(* which of those inputs ship, and what is in the image when they do.      *)
(***************************************************************************)
EXTENDS Integers, Sequences, FiniteSets, SequencesExt

CONSTANTS
    Pristine,       \* the disassembly the patch table was anchored on
    Disassemblies,  \* what DiStella may emit today: the same bytes, other lines
    PatchTables,    \* sequences of declared patches
    RegionTables,   \* sequences of regions
    Equates,        \* values vcs.inc may give the register the game reads
    Shims,          \* the netcode of a bank, hole by hole
    Tails,          \* the fixed tail: the lengths of its instructions
    Vectors         \* where the vectors lie, counted from the tail's start

Banks == {"GAME", "KERN"}

\* What a line holds; what the table declares.
Text == Seq(Seq(STRING))
Patches == [line : Nat \ {0}, nlines : Nat \ {0}, old : Text, new : Text, addr : Nat, span : Nat]
Entries == [lo : Nat, hi : Nat, bank : Banks \cup {"BOTH"}, kind : {"code", "data"}]

ASSUME TextAssumption ==
    /\ Pristine \in Seq(Text) /\ Disassemblies \subseteq Seq(Text)
    /\ PatchTables \subseteq Seq(Patches) /\ Shims \subseteq [Banks -> Seq(Text)]
    /\ RegionTables \subseteq Seq(Entries)

VARIABLES
    stage,   \* what build.sh runs next, or how it ended
    tree,    \* the working tree the build was started on
    lines,   \* the source, patched so far
    done,    \* how many of the declared patches have been applied
    listing, \* per bank, the rows the assembler listed: address and bytes
    image    \* per bank, the bytes p2bin kept

bvars == <<stage, tree, lines, done, listing, image>>

Bytes(text) == FlattenSeq(text)            \* a sequence of instructions
Image(src) == Bytes(FlattenSeq(src))       \* a sequence of source lines

Size == Len(Image(Pristine))
Window == 0 .. Size - 1

\* The operand "REG" is a register by the mirror the 1977 code used; every
\* other byte is itself.
Stock == [a \in Window |-> LET c == Image(Pristine)[a + 1]
                           IN  IF c = "REG" THEN "mirror" ELSE c]

\* DiStella prints the same bytes, whatever it makes lines of; and the tables in
\* the repository tile the image, region after region, and leave no byte out.
ASSUME TreeAssumption ==
    /\ \A src \in Disassemblies : Image(src) = Image(Pristine)
    /\ \A t \in RegionTables :
         /\ t # <<>> /\ t[1].lo = 0 /\ t[Len(t)].hi = Size
         /\ \A i \in 1 .. Len(t) : t[i].lo < t[i].hi
         /\ \A i \in 1 .. Len(t) - 1 : t[i + 1].lo = t[i].hi

-----------------------------------------------------------------------------
(* tools/patches.py                                                        *)

\* The slots a patch stands on, and the addresses its declaration allows.
Slots(p) == p.line .. p.line + p.nlines - 1
\* A slip for Span: the range runs one byte too far.
SpanLongSlip(p) == p.addr .. p.addr + p.span
Span(p) == p.addr .. p.addr + p.span - 1

Anchored(src, p) ==
    /\ Slots(p) \subseteq DOMAIN src
    /\ FlattenSeq(SubSeq(src, p.line, p.line + p.nlines - 1)) = p.old

\* A slip for Patched: the slots the new text does not need are taken out.
PatchedCollapseSlip(src, p) ==
    SubSeq(src, 1, p.line - 1) \o <<p.new>> \o SubSeq(src, p.line + p.nlines, Len(src))

\* The line count is preserved: the whole of the new text goes into the first
\* slot and the others are blanked.
Patched(src, p) ==
    [n \in DOMAIN src |-> CASE n = p.line -> p.new
                            [] n \in Slots(p) \ {p.line} -> <<>>
                            [] OTHER -> src[n]]

Refuse == stage' = "refused" /\ UNCHANGED <<tree, lines, done, listing, image>>

ApplyPatch ==
    /\ stage = "apply" /\ done < Len(tree.patches)
    /\ LET p == tree.patches[done + 1]
       IN  Anchored(lines, p) /\ lines' = Patched(lines, p)
    /\ done' = done + 1
    /\ UNCHANGED <<stage, tree, listing, image>>

AnchorMismatch ==
    /\ stage = "apply" /\ done < Len(tree.patches)
    /\ ~Anchored(lines, tree.patches[done + 1])
    /\ Refuse

-----------------------------------------------------------------------------
(* tools/mkbanks.py                                                        *)

\* The address the assembler put a line of the UNPATCHED source at.
LineAddress(n) == Len(Image(SubSeq(tree.src, 1, n - 1)))
LineStarts == {LineAddress(n) : n \in DOMAIN tree.src}

\* A slip for EdgesOnLines: an edge need only lie in the image.
EdgesAnywhereSlip == \A r \in Range(tree.regions) : {r.lo, r.hi} \subseteq 0 .. Size

EdgesOnLines ==
    \A r \in Range(tree.regions) : {r.lo, r.hi} \subseteq {0, Size} \cup LineStarts

OwnersOf(r) == IF r.bank = "BOTH" THEN Banks ELSE {r.bank}

InRegion(n, r) == r.lo <= LineAddress(n) /\ LineAddress(n) < r.hi

Bucket(r) ==
    FlattenSeq([n \in DOMAIN lines |-> IF InRegion(n, r) THEN lines[n] ELSE <<>>])

\* A register the body uses keeps the mirror's value, under a name of its own,
\* unless vcs.inc gives it the same one.
KeptEquate == tree.vcs # "mirror"
Resolved(c) == IF c # "REG" THEN c ELSE IF KeptEquate THEN "mirror" ELSE tree.vcs

\* The rows of a piece of text assembled at an address.
Rows(at, text) ==
    [i \in DOMAIN text |-> [addr |-> at + Len(Bytes(SubSeq(text, 1, i - 1))),
                            bytes |-> [j \in DOMAIN text[i] |-> Resolved(text[i][j])]]]

\* vo.inc in one bank: every region of that bank, each at its own ORG.
Regions(b) ==
    FlattenSeq([i \in DOMAIN tree.regions |->
        IF b \in OwnersOf(tree.regions[i])
          THEN Rows(tree.regions[i].lo, Bucket(tree.regions[i])) ELSE <<>>])

Owned(b, i) == i \in DOMAIN tree.regions /\ b \in OwnersOf(tree.regions[i])

\* The holes of a bank, by the region in front of them (0: none, the head of the
\* window): where its own bytes stop and those of the other bank begin.
Holes(b) == {i \in 0 .. Len(tree.regions) - 1 : (i = 0 \/ Owned(b, i)) /\ ~Owned(b, i + 1)}

\* Netcode starts at the end label of the region in front of its hole.  An
\* IF * > ... ERROR guards the next byte that is the bank's own.
HoleAt(i) == IF i = 0 THEN 0
             ELSE tree.regions[i].lo + Len(Bytes(Bucket(tree.regions[i])))
HoleEnd(b, i) ==
    Min({Size} \cup {tree.regions[j].lo : j \in {k \in i + 1 .. Len(tree.regions) : Owned(b, k)}})

Net(b, i) == IF i + 1 \in DOMAIN tree.shim[b] THEN tree.shim[b][i + 1] ELSE <<>>
NetRows(b, i) == IF i \in Holes(b) THEN Rows(HoleAt(i), Net(b, i)) ELSE <<>>

\* The head of the window comes in front of vo.inc, the other holes behind it.
Assembled(b) ==
    NetRows(b, 0) \o Regions(b) \o FlattenSeq([i \in DOMAIN tree.regions |-> NetRows(b, i)])

SplitBanks ==
    /\ stage = "apply" /\ done = Len(tree.patches)
    /\ EdgesOnLines
    /\ listing' = [b \in Banks |-> Assembled(b)]
    /\ stage' = "tail"
    /\ UNCHANGED <<tree, lines, done, image>>

EdgeInsideLine ==
    /\ stage = "apply" /\ done = Len(tree.patches)
    /\ ~EdgesOnLines
    /\ Refuse

-----------------------------------------------------------------------------
(* The tail, assembled and measured first: tools/mktail.py.                *)

TailRows == [i \in DOMAIN tree.tail |->
               [addr |-> SumFunctionOnSet(tree.tail, 1 .. i - 1),
                len |-> tree.tail[i]]]

\* One past the highest byte emitted below the vectors.
TailEnd == Max({0} \cup {r.addr + r.len : r \in {x \in Range(TailRows) : x.addr < Vectors}})

TailMeasured ==
    /\ stage = "tail" /\ TailEnd <= Vectors
    /\ stage' = "banks"
    /\ UNCHANGED <<tree, lines, done, listing, image>>

TailOver == stage = "tail" /\ TailEnd > Vectors /\ Refuse

-----------------------------------------------------------------------------
(* The banks: the assembler's guards, checkbanks.py, p2bin.                *)

GuardsHold ==
    \A b \in Banks : \A i \in Holes(b) : HoleAt(i) + Len(Bytes(Net(b, i))) <= HoleEnd(b, i)

\* A slip for Fits: what starts past the limit is taken to be deliberate.
FitsSkipSlip(row) == row.addr >= Size \/ row.addr + Len(row.bytes) <= Size
Fits(row) == row.addr + Len(row.bytes) <= Size
BanksFit == \A b \in Banks : \A row \in Range(listing[b]) : Fits(row)

\* p2bin keeps the window; what nothing wrote is filler; a later row wins.
Covers(row, a) == row.addr <= a /\ a < row.addr + Len(row.bytes)
Linked(b) ==
    [a \in Window |->
        LET hits == {i \in DOMAIN listing[b] : Covers(listing[b][i], a)}
        IN  IF hits = {} THEN "fill"
            ELSE LET row == listing[b][Max(hits)] IN row.bytes[a - row.addr + 1]]

AssembleBanks ==
    /\ stage = "banks" /\ GuardsHold /\ BanksFit
    /\ image' = [b \in Banks |-> Linked(b)]
    /\ stage' = "checkrom"
    /\ UNCHANGED <<tree, lines, done, listing>>

BankOver == stage = "banks" /\ ~(GuardsHold /\ BanksFit) /\ Refuse

-----------------------------------------------------------------------------
(* tools/checkrom_filter.py over the firmware's checkrom.py, which walks a *)
(* bank linearly: it finds every banned instruction of the code, and any   *)
(* banned byte its walk happens to land on in a table.  It labels both     *)
(* banks as though they began at the fixed half, one window too high.      *)

DataRanges(b) ==
    UNION {r.lo .. r.hi - 1 :
             r \in {x \in Range(tree.regions) : x.kind = "data" /\ b \in OwnersOf(x)}}

IsTable(b, a) ==
    \E r \in Range(tree.regions) :
        r.kind = "data" /\ b \in OwnersOf(r) /\ r.lo <= a /\ a < r.hi

Banned == {f \in Banks \X Window : image[f[1]][f[2]] = "ban"}
Reported(f) == <<f[1], f[2] + Size>>
Dropped(f) == f[2] - Size \in DataRanges(f[1])
Reports == {found \in SUBSET Banned : \A f \in Banned \ found : IsTable(f[1], f[2])}

FilterPasses ==
    /\ stage = "checkrom"
    /\ \E found \in Reports : \A f \in found : Dropped(Reported(f))
    /\ stage' = "audit"
    /\ UNCHANGED <<tree, lines, done, listing, image>>

FilterFails ==
    /\ stage = "checkrom"
    /\ \E found \in Reports : \E f \in found : ~Dropped(Reported(f))
    /\ Refuse

-----------------------------------------------------------------------------
(* tools/check_patch.py: the audit, region by region, every copy.          *)

Allowed == UNION {Span(p) : p \in Range(tree.patches)}

Audited(r) == OwnersOf(r)
Changed ==
    {a \in Window : \E r \in Range(tree.regions) : \E b \in Audited(r) :
        r.lo <= a /\ a < r.hi /\ image[b][a] # Stock[a]}

AuditPasses ==
    /\ Changed \subseteq Allowed
    /\ \A p \in Range(tree.patches) : Span(p) \cap Changed # {}

Ship ==
    /\ stage = "audit" /\ AuditPasses
    /\ stage' = "shipped"
    /\ UNCHANGED <<tree, lines, done, listing, image>>

AuditFails == stage = "audit" /\ ~AuditPasses /\ Refuse

-----------------------------------------------------------------------------
NoImage == [b \in Banks |-> [a \in Window |-> "fill"]]
Trees == [src : Disassemblies, patches : PatchTables, regions : RegionTables,
          vcs : Equates, shim : Shims, tail : Tails]

\* True of the tables in the repository: a declared patch lies inside one
\* region, and only the end of the image, never the next region, is behind it.
Inside(p, r) == r.lo <= p.addr /\ p.addr + p.span < r.hi + (IF r.hi = Size THEN 1 ELSE 0)
PatchesInside(t) ==
    \A p \in Range(t.patches) : \E r \in Range(t.regions) : Inside(p, r)

BuildInit ==
    /\ tree \in {t \in Trees : PatchesInside(t)}
    /\ stage = "apply" /\ lines = tree.src /\ done = 0
    /\ listing = [b \in Banks |-> <<>>] /\ image = NoImage

BuildNext ==
    \/ ApplyPatch \/ AnchorMismatch
    \/ SplitBanks \/ EdgeInsideLine
    \/ TailMeasured \/ TailOver
    \/ AssembleBanks \/ BankOver
    \/ FilterPasses \/ FilterFails
    \/ Ship \/ AuditFails

BuildSpec == BuildInit /\ [][BuildNext]_bvars

-----------------------------------------------------------------------------
(* Properties                                                              *)

\* Every variable keeps its type, and the source its number of lines.
BuildTypeOK ==
    /\ stage \in {"apply", "tail", "banks", "checkrom", "audit", "shipped", "refused"}
    /\ tree \in Trees /\ done \in 0 .. Len(tree.patches)
    /\ lines \in Seq(Text) /\ Len(lines) = Len(tree.src)
    /\ DOMAIN listing = Banks /\ \A b \in Banks : DOMAIN image[b] = Window

\* The source with a set of patches through: each found what it is anchored on and
\* has its slots, and no other line has been touched.
PutThrough(src, text, ps) ==
    /\ \A p \in ps : /\ Anchored(src, p) /\ text[p.line] = p.new
                     /\ \A n \in Slots(p) \ {p.line} : text[n] = <<>>
    /\ \A n \in DOMAIN src : (\A p \in ps : n \notin Slots(p)) => text[n] = src[n]

\* No two patches of the table share a line.
SlotsApart(t) == \A i, j \in DOMAIN t.patches :
                    i # j => Slots(t.patches[i]) \cap Slots(t.patches[j]) = {}

\* The stages follow the gates: what is linked is the patched source, split and
\* assembled, and what is judged is what was linked, and fits.
Gates ==
    /\ done = 0 => lines = tree.src
    /\ SlotsApart(tree) => PutThrough(tree.src, lines, {tree.patches[i] : i \in 1 .. done})
    /\ PatchesInside(tree)
    /\ stage \in {"tail", "banks", "checkrom", "audit", "shipped"} =>
         done = Len(tree.patches) /\ EdgesOnLines /\ listing = [b \in Banks |-> Assembled(b)]
    /\ stage \in {"banks", "checkrom", "audit", "shipped"} => TailEnd <= Vectors
    /\ stage \in {"checkrom", "audit", "shipped"} =>
         GuardsHold /\ BanksFit /\ image = [b \in Banks |-> Linked(b)]
    /\ stage = "shipped" => AuditPasses
BuildInv == BuildTypeOK /\ Gates

\* mkbanks.py, "Every byte keeps the address it has": once the banks are linked
\* without a patch, every byte of the stock image is at its own address in every
\* bank that owns it, before the audit has looked.
EveryByteHome ==
    stage = "checkrom" /\ tree.patches = <<>> =>
        \A r \in Range(tree.regions) : \A b \in OwnersOf(r) : \A a \in r.lo .. r.hi - 1 :
            image[b][a] = Stock[a]

\* What patches.py promises of an image that ships, although it finds a patch by
\* a line number: in every bank that runs a region, the region is the stock text
\* with each patch whole and on the line its author looked at, byte for byte, and
\* not a byte longer or shorter.
Meant(t, n) == LET own == {p \in Range(t.patches) : n \in Slots(p)}
               IN  IF own = {} THEN Pristine[n]
                   ELSE LET p == CHOOSE q \in own : TRUE
                        IN  IF n = p.line THEN p.new ELSE <<>>
PristineAddress(n) == Len(Image(SubSeq(Pristine, 1, n - 1)))
MeantBytes(t, r) ==
    Image([n \in DOMAIN Pristine |->
             IF r.lo <= PristineAddress(n) /\ PristineAddress(n) < r.hi
               THEN Meant(t, n) ELSE <<>>])
ShipsThePatch ==
    stage = "shipped" =>
        \A r \in Range(tree.regions) :
            LET meant == MeantBytes(tree, r)
            IN  /\ Len(meant) = r.hi - r.lo
                /\ \A b \in OwnersOf(r) : \A i \in DOMAIN meant :
                     image[b][r.lo + i - 1] = IF meant[i] = "REG" THEN "mirror" ELSE meant[i]

\* checkbanks.py's reason: in an image that ships, no byte the assembler emitted
\* for a bank is cut off by p2bin or written over by the next region or hole.
NothingLost ==
    stage = "shipped" =>
        \A b \in Banks : \A row \in Range(listing[b]) : \A i \in DOMAIN row.bytes :
            /\ row.addr + i - 1 \in Window
            /\ image[b][row.addr + i - 1] = row.bytes[i]
=============================================================================
