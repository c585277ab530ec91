---------------------------- MODULE VoBuildProofs ----------------------------
(***************************************************************************)
(* Proofs about VoBuild, for any disassembly, patches, regions, holes and  *)
(* tails, and about the two parts of the tools in one specification        *)
(* (MCVoTools).                                                            *)
(***************************************************************************)
EXTENDS MCVoTools, VoFrameProofs, SequenceTheorems

(* What the build derives from its tree and its source changes only with   *)
(* them.                                                                   *)
LEMMA DerivedStays ==
  ASSUME UNCHANGED <<tree, lines>>
  PROVE  /\ EdgesOnLines' = EdgesOnLines /\ TailEnd' = TailEnd /\ GuardsHold' = GuardsHold
         /\ [b \in Banks |-> Assembled(b)]' = [b \in Banks |-> Assembled(b)]
         /\ Allowed' = Allowed
<1>1. tree' = tree /\ lines' = lines
  OBVIOUS
<1>2. EdgesOnLines' = EdgesOnLines
  BY <1>1 DEF EdgesOnLines, LineStarts, LineAddress
<1>3. TailEnd' = TailEnd
  BY <1>1 DEF TailEnd, TailRows
<1>4. \A r : Bucket(r)' = Bucket(r)
  BY <1>1 DEF Bucket, InRegion, LineAddress
<1>5. \A i : HoleAt(i)' = HoleAt(i)
  BY <1>1, <1>4 DEF HoleAt
<1>o. \A b, i : Owned(b, i)' = Owned(b, i)
  BY <1>1 DEF Owned
<1>h. \A b : Holes(b)' = Holes(b)
  BY <1>1, <1>o DEF Holes
<1>n. \A b, i : HoleEnd(b, i)' = HoleEnd(b, i) /\ Net(b, i)' = Net(b, i)
  BY <1>1, <1>o DEF HoleEnd, Net
<1>6. GuardsHold' = GuardsHold
  BY <1>5, <1>h, <1>n DEF GuardsHold
<1>7. \A at, text : Rows(at, text)' = Rows(at, text)
  BY <1>1 DEF Rows, Resolved, KeptEquate
<1>8. \A b : Regions(b)' = Regions(b)
  BY <1>1, <1>4, <1>7 DEF Regions
<1>m. \A b, i : NetRows(b, i)' = NetRows(b, i)
  BY <1>5, <1>7, <1>h, <1>n DEF NetRows
<1>9. \A b : Assembled(b)' = Assembled(b)
  BY <1>1, <1>8, <1>m DEF Assembled
<1>10. Allowed' = Allowed
  BY <1>1 DEF Allowed
<1> QED
  BY <1>2, <1>3, <1>6, <1>9, <1>10

(* What is linked from a listing, and whether it fits, changes with it.    *)
LEMMA LinkedStays ==
  ASSUME UNCHANGED <<tree, lines, listing>>
  PROVE  BanksFit' = BanksFit /\ [b \in Banks |-> Linked(b)]' = [b \in Banks |-> Linked(b)]
<1>1. \A b : Linked(b)' = Linked(b)
  BY DEF Linked
<1>2. BanksFit' = BanksFit
  BY DEF BanksFit
<1> QED
  BY <1>1, <1>2

(* The audit's verdict changes only with the image and the tree.           *)
LEMMA AuditStays ==
  ASSUME UNCHANGED <<tree, lines, image>>
  PROVE  AuditPasses' = AuditPasses
<1>1. Changed' = Changed
  BY DEF Changed
<1> QED
  BY <1>1, DerivedStays DEF AuditPasses

(* A build starts with the source as it was disassembled.                  *)
LEMMA BuildInitInv == BuildInit => BuildInv
<1> SUFFICES ASSUME BuildInit PROVE BuildInv
  OBVIOUS
<1>1. tree \in Trees /\ tree.patches \in Seq(Patches) /\ tree.src \in Seq(Text)
  BY TextAssumption DEF BuildInit, Trees
<1>2. Len(tree.patches) \in Nat /\ 0 \in 0 .. Len(tree.patches)
  BY <1>1
<1>3. BuildTypeOK
  BY <1>1, <1>2 DEF BuildInit, BuildTypeOK, NoImage
<1>4. PutThrough(tree.src, lines, {tree.patches[i] : i \in 1 .. done})
  BY DEF BuildInit, PutThrough
<1>5. Gates
  BY <1>4 DEF BuildInit, Gates
<1> QED
  BY <1>3, <1>5 DEF BuildInv

(* A patch that shares no line with those before it finds the disassembly's*)
(* own lines in its slots, and leaves the earlier patches whole.           *)
LEMMA ApplyThrough ==
  ASSUME NEW src \in Seq(Text), NEW text \in Seq(Text), Len(text) = Len(src),
         NEW ps \in SUBSET Patches, PutThrough(src, text, ps), NEW p \in Patches, Anchored(text, p),
         \A q \in ps : Slots(q) \cap Slots(p) = {}
  PROVE  PutThrough(src, Patched(text, p), ps \cup {p})
<1>1. /\ DOMAIN src = DOMAIN text /\ Slots(p) \subseteq DOMAIN text /\ p.line \in Slots(p)
      /\ p.line \in Nat /\ p.nlines \in Nat
  BY DEF Anchored, Patches, Slots
<1>2. \A n \in Slots(p) : text[n] = src[n]
  BY <1>1 DEF PutThrough
<1>3. Anchored(src, p)
  <2>1. SubSeq(text, p.line, p.line + p.nlines - 1) = SubSeq(src, p.line, p.line + p.nlines - 1)
    <3> DEFINE m == p.line
               n == p.line + p.nlines - 1
               a == SubSeq(text, m, n)
               b == SubSeq(src, m, n)
    <3>1. m \in Nat /\ n \in Nat /\ m <= n /\ Slots(p) = m .. n
      BY DEF Patches, Slots
    <3>2. m .. n \subseteq 1 .. Len(text) /\ m .. n \subseteq 1 .. Len(src)
      BY <1>1, <3>1
    <3>3. m \in 1 .. n + 1 /\ n \in m - 1 .. Len(text) /\ n \in m - 1 .. Len(src)
      BY <3>1, <3>2
    <3> HIDE DEF m, n
    <3>4. /\ a \in Seq(Text) /\ Len(a) = n - m + 1
          /\ \A i \in 1 .. n - m + 1 : a[i] = text[m + i - 1]
      BY <3>3, SubSeqProperties
    <3>5. /\ b \in Seq(Text) /\ Len(b) = n - m + 1
          /\ \A i \in 1 .. n - m + 1 : b[i] = src[m + i - 1]
      BY <3>3, SubSeqProperties
    <3>6. \A i \in 1 .. n - m + 1 : m + i - 1 \in m .. n
      BY <3>1
    <3> HIDE DEF a, b
    <3>7. \A i \in 1 .. n - m + 1 : a[i] = b[i]
      BY <1>2, <3>1, <3>4, <3>5, <3>6
    <3>8. a = b
      BY <3>4, <3>5, <3>7, SeqEqual
    <3> QED
      BY <3>8 DEF a, b, m, n
  <2> QED
    BY <1>1, <2>1 DEF Anchored
<1>4. \A n \in DOMAIN text : Patched(text, p)[n] =
        IF n = p.line THEN p.new ELSE IF n \in Slots(p) THEN <<>> ELSE text[n]
  BY DEF Patched
<1>5. ASSUME NEW q \in ps \cup {p}
      PROVE  /\ Anchored(src, q) /\ Patched(text, p)[q.line] = q.new
             /\ \A n \in Slots(q) \ {q.line} : Patched(text, p)[n] = <<>>
  <2>1. CASE q = p
    BY <1>1, <1>3, <1>4, <2>1
  <2>2. CASE q \in ps
    <3>1. /\ Anchored(src, q) /\ text[q.line] = q.new
          /\ \A n \in Slots(q) \ {q.line} : text[n] = <<>>
      BY <2>2 DEF PutThrough
    <3>2. Slots(q) \subseteq DOMAIN text /\ \A n \in Slots(q) : n \notin Slots(p)
      BY <1>1, <2>2, <3>1 DEF Anchored
    <3>3. q.line \in Slots(q)
      BY <2>2 DEF Patches, Slots
    <3> QED
      BY <1>1, <1>4, <3>1, <3>2, <3>3
  <2> QED
    BY <2>1, <2>2
<1>6. ASSUME NEW n \in DOMAIN src, \A q \in ps \cup {p} : n \notin Slots(q)
      PROVE  Patched(text, p)[n] = src[n]
  BY <1>1, <1>4, <1>6 DEF PutThrough
<1> QED
  BY <1>5, <1>6 DEF PutThrough

(* A patch keeps the number of lines; no gate has been passed yet.         *)
LEMMA ApplyStep ==
  ASSUME BuildInv, ApplyPatch
  PROVE  BuildInv'
<1> USE DEF BuildInv
<1> DEFINE p == tree.patches[done + 1]
<1>1. /\ tree.patches \in Seq(Patches) /\ done \in Nat /\ done + 1 \in 1 .. Len(tree.patches)
      /\ Len(tree.patches) \in Nat /\ lines \in Seq(Text)
  BY TextAssumption DEF BuildTypeOK, Trees, ApplyPatch
<1>2. p \in Patches
  BY <1>1
<1>3. p.new \in Text /\ <<>> \in Text
  BY <1>2 DEF Patches, Text
<1>4. lines' = Patched(lines, p) /\ done' = done + 1 /\ stage = "apply" /\ UNCHANGED <<stage, tree, listing, image>>
  BY DEF ApplyPatch
<1> HIDE DEF p
<1>5. lines' \in Seq(Text) /\ Len(lines') = Len(lines)
  <2>1. DOMAIN lines = 1 .. Len(lines) /\ Len(lines) \in Nat /\ \A n \in 1 .. Len(lines) : lines[n] \in Text
    BY <1>1
  <2>2. DOMAIN lines' = 1 .. Len(lines)
    BY <1>4, <2>1 DEF Patched
  <2>3. \A n \in 1 .. Len(lines) : lines'[n] \in Text
    BY <1>3, <1>4, <2>1 DEF Patched
  <2>4. lines' = [n \in 1 .. Len(lines) |-> lines'[n]]
    BY <1>4, <2>1, <2>2 DEF Patched
  <2> QED
    BY <2>1, <2>3, <2>4
<1>6. BuildTypeOK'
  BY <1>1, <1>4, <1>5 DEF BuildTypeOK, Window, Size
<1>7. ASSUME SlotsApart(tree)
      PROVE  PutThrough(tree.src, lines', {tree.patches[i] : i \in 1 .. done + 1})
  <2> DEFINE ps == {tree.patches[i] : i \in 1 .. done}
  <2>1. PutThrough(tree.src, lines, ps)
    BY <1>7 DEF Gates
  <2>2. tree.src \in Seq(Text) /\ Len(lines) = Len(tree.src) /\ Anchored(lines, p)
    BY <1>1, TextAssumption DEF BuildTypeOK, Trees, ApplyPatch, p
  <2>3. \A i \in 1 .. done : i \in DOMAIN tree.patches /\ i # done + 1
    BY <1>1
  <2>4. done + 1 \in DOMAIN tree.patches
    BY <1>1
  <2>5. \A q \in ps : q \in Patches /\ Slots(q) \cap Slots(p) = {}
    <3> SUFFICES ASSUME NEW i \in 1 .. done
                 PROVE  tree.patches[i] \in Patches /\ Slots(tree.patches[i]) \cap Slots(p) = {}
      OBVIOUS
    <3>1. tree.patches[i] \in Patches
      BY <1>1, <2>3
    <3>2. Slots(tree.patches[i]) \cap Slots(tree.patches[done + 1]) = {}
      BY <1>7, <2>3, <2>4, Zenon DEF SlotsApart
    <3> QED
      BY <3>1, <3>2 DEF p
  <2>6. {tree.patches[i] : i \in 1 .. done + 1} = ps \cup {p}
    <3>1. \A i : i \in 1 .. done + 1 <=> i \in 1 .. done \/ i = done + 1
      BY <1>1
    <3> QED
      BY <3>1, Zenon DEF p
  <2> HIDE DEF ps
  <2>7. PutThrough(tree.src, Patched(lines, p), ps \cup {p})
    BY <1>1, <1>2, <2>1, <2>2, <2>5, ApplyThrough
  <2> QED
    BY <1>4, <2>6, <2>7
<1>8. Gates'
  <2>1. SlotsApart(tree)' = SlotsApart(tree) /\ PatchesInside(tree)' = PatchesInside(tree)
    BY <1>4
  <2>2. done' = done + 1 /\ tree' = tree
    BY <1>4
  <2>3. SlotsApart(tree)' => PutThrough(tree.src, lines, {tree.patches[i] : i \in 1 .. done})'
    BY <1>7, <2>1, <2>2
  <2> QED
    BY <1>1, <1>4, <2>1, <2>3 DEF Gates
<1> QED
  BY <1>6, <1>8

(* The build ends where a gate fails.                                      *)
LEMMA RefuseStep ==
  ASSUME BuildInv, Refuse
  PROVE  BuildInv'
<1>1. BuildTypeOK'
  BY DEF BuildInv, BuildTypeOK, Refuse
<1>2. Gates'
  BY DEF BuildInv, Gates, Refuse
<1> QED
  BY <1>1, <1>2 DEF BuildInv

(* The split makes the listing from the source with every patch in it.     *)
LEMMA SplitStep ==
  ASSUME BuildInv, SplitBanks
  PROVE  BuildInv'
<1>1. /\ stage = "apply" /\ stage' = "tail" /\ done = Len(tree.patches) /\ EdgesOnLines
      /\ listing' = [b \in Banks |-> Assembled(b)] /\ UNCHANGED <<tree, lines, done, image>>
  BY DEF SplitBanks
<1>2. BuildTypeOK'
  BY <1>1 DEF BuildInv, BuildTypeOK
<1>3. EdgesOnLines' /\ listing' = [b \in Banks |-> Assembled(b)]' /\ done' = Len(tree'.patches)
  BY <1>1, DerivedStays
<1>4. Gates'
  BY <1>1, <1>3 DEF BuildInv, Gates
<1> QED
  BY <1>2, <1>4 DEF BuildInv

(* A gate that holds lets the build on.                                    *)
LEMMA PassStep ==
  ASSUME BuildInv, TailMeasured \/ AssembleBanks \/ FilterPasses \/ Ship
  PROVE  BuildInv'
<1>1. /\ UNCHANGED <<tree, lines, done, listing>>
      /\ stage' \in {"banks", "checkrom", "audit", "shipped"}
      /\ stage \in {"tail", "banks", "checkrom", "audit"}
      /\ stage = "tail" <=> stage' = "banks"
      /\ stage = "banks" <=> stage' = "checkrom"
      /\ IF stage = "banks" THEN image' = [b \in Banks |-> Linked(b)] ELSE image' = image
  BY DEF TailMeasured, AssembleBanks, FilterPasses, Ship
<1>2. BuildTypeOK'
  <2>1. \A b \in Banks : DOMAIN image'[b] = Window
    BY <1>1 DEF BuildInv, BuildTypeOK, Linked
  <2> QED
    BY <1>1, <2>1 DEF BuildInv, BuildTypeOK, Window, Size
<1>3. /\ EdgesOnLines' = EdgesOnLines /\ TailEnd' = TailEnd /\ GuardsHold' = GuardsHold
      /\ BanksFit' = BanksFit
      /\ [b \in Banks |-> Assembled(b)]' = [b \in Banks |-> Assembled(b)]
      /\ [b \in Banks |-> Linked(b)]' = [b \in Banks |-> Linked(b)]
  BY <1>1, DerivedStays, LinkedStays
<1>4. done' = Len(tree'.patches) /\ EdgesOnLines' /\ listing' = [b \in Banks |-> Assembled(b)]'
  BY <1>1, <1>3 DEF BuildInv, Gates
<1>5. TailEnd' <= Vectors
  BY <1>1, <1>3 DEF BuildInv, Gates, TailMeasured, AssembleBanks, FilterPasses, Ship
<1>6. stage' # "banks" => GuardsHold' /\ BanksFit' /\ image' = [b \in Banks |-> Linked(b)]'
  <2>1. CASE stage = "banks"
    <3>1. AssembleBanks
      BY <2>1 DEF TailMeasured, FilterPasses, Ship
    <3> QED
      BY <1>1, <1>3, <2>1, <3>1 DEF AssembleBanks
  <2>2. CASE stage # "banks"
    BY <1>1, <1>3, <2>2 DEF BuildInv, Gates
  <2> QED
    BY <2>1, <2>2
<1>7. stage' = "shipped" => AuditPasses'
  <2> SUFFICES ASSUME stage' = "shipped" PROVE AuditPasses'
    OBVIOUS
  <2>1. Ship
    BY DEF TailMeasured, AssembleBanks, FilterPasses
  <2> QED
    BY <2>1, AuditStays DEF Ship
<1>8. done' = 0 => lines' = tree'.src
  BY <1>1 DEF BuildInv, Gates
<1>9. /\ SlotsApart(tree') => PutThrough(tree'.src, lines', {tree'.patches[i] : i \in 1 .. done'})
      /\ PatchesInside(tree')
  BY <1>1 DEF BuildInv, Gates
<1>10. Gates'
  BY <1>1, <1>4, <1>5, <1>6, <1>7, <1>8, <1>9 DEF Gates
<1> QED
  BY <1>2, <1>10 DEF BuildInv

(* Nothing changes, nor does what is derived.                              *)
LEMMA BuildStutter ==
  ASSUME BuildInv, UNCHANGED bvars
  PROVE  BuildInv'
<1>1. UNCHANGED <<stage, tree, lines, done, listing, image>>
  BY DEF bvars
<1>2. BuildTypeOK'
  BY <1>1 DEF BuildInv, BuildTypeOK
<1>3. Gates'
  BY <1>1, DerivedStays, LinkedStays, AuditStays DEF BuildInv, Gates
<1> QED
  BY <1>2, <1>3 DEF BuildInv

(* No step breaks the invariant: a gate that fails ends the build.         *)
LEMMA BuildInductive == BuildInv /\ [BuildNext]_bvars => BuildInv'
<1> SUFFICES ASSUME BuildInv, [BuildNext]_bvars PROVE BuildInv'
  OBVIOUS
<1>1. CASE AnchorMismatch \/ EdgeInsideLine \/ TailOver \/ BankOver \/ FilterFails \/ AuditFails
  <2>1. Refuse
    BY <1>1 DEF AnchorMismatch, EdgeInsideLine, TailOver, BankOver, FilterFails, AuditFails
  <2> QED
    BY <2>1, RefuseStep
<1> QED
  BY <1>1, ApplyStep, SplitStep, PassStep, BuildStutter DEF BuildNext

(* What is judged and shipped is the patched source, split, assembled and  *)
(* linked, and each of build.sh's gates held of it.                        *)
THEOREM BuildInvariance == BuildSpec => []BuildInv
BY BuildInitInv, BuildInductive, PTL DEF BuildSpec

(* Both parts of the tools in one specification: the invariants of the     *)
(* build and of the frame hold whichever of the two a behaviour exercises. *)
THEOREM ToolsInvariance == MCSpec => []ToolsInv
<1>1. MCInit => ToolsInv
  BY BuildInitInv, FrameInitInv DEF MCInit, ToolsInv
<1>2. ToolsInv /\ [MCNext]_MCvars => ToolsInv'
  <2> SUFFICES ASSUME ToolsInv, [MCNext]_MCvars PROVE ToolsInv'
    OBVIOUS
  <2>1. [BuildNext]_bvars /\ [FrameNext]_fvars
    BY DEF MCNext, MCvars
  <2> QED
    BY <2>1, BuildInductive, FrameInductive DEF ToolsInv
<1> QED
  BY <1>1, <1>2, PTL DEF MCSpec

-----------------------------------------------------------------------------
(* What FlattenSeq makes of a sequence of sequences.  Induction over the   *)
(* prefixes of a sequence, with the set of the places that are through.    *)
LEMMA Upwards ==
  ASSUME NEW N \in Nat, NEW S, 0 \in S, \A n \in 0 .. N - 1 : n \in S => n + 1 \in S
  PROVE  \A n \in 0 .. N : n \in S
<1> DEFINE B == {n \in 0 .. N : n \notin S}
<1>1. SUFFICES ASSUME B # {} PROVE FALSE
  OBVIOUS
<1>2. B \subseteq Nat /\ B # {}
  BY <1>1
<1>3. PICK n \in B : \A m \in B : n <= m
  <2> HIDE DEF B
  <2> QED
    BY <1>2, Smallest, Zenon
<1>4. n \in 0 .. N /\ n \notin S /\ n # 0
  BY <1>3
<1>5. n - 1 \in 0 .. N - 1 /\ n - 1 \in 0 .. N /\ ~(n <= n - 1) /\ (n - 1) + 1 = n
  BY <1>4
<1>6. n - 1 \in S
  BY <1>3, <1>5
<1> QED
  BY <1>4, <1>5, <1>6

(* The recursion of FlattenSeq, and that there is such a function.         *)
Flattens(f, s) ==
  f = [i \in 1 .. Len(s) |-> IF i = 1 THEN s[i] ELSE f[i - 1] \o s[i]]

(* There is a function as the recursion asks for, length by length.        *)
LEMMA FlattenFunction ==
  ASSUME NEW X, NEW s \in Seq(Seq(X))
  PROVE  \E f : Flattens(f, s)
<1> DEFINE Part(f, n) == f = [i \in 1 .. n |-> IF i = 1 THEN s[i] ELSE f[i - 1] \o s[i]]
           S == {n \in 0 .. Len(s) : \E f : Part(f, n)}
<1>1. Len(s) \in Nat
  OBVIOUS
<1>2. 0 \in S
  <2> DEFINE f == [i \in 1 .. 0 |-> i]
  <2>1. 1 .. 0 = {}
    OBVIOUS
  <2>2. Part(f, 0)
    BY <2>1
  <2>3. 0 \in 0 .. Len(s)
    BY <1>1
  <2> HIDE DEF f, Part
  <2> QED
    BY <2>2, <2>3
<1>3. ASSUME NEW n \in 0 .. Len(s) - 1, n \in S PROVE n + 1 \in S
  <2>1. PICK f : Part(f, n)
    BY <1>3
  <2>f. \A i \in 1 .. n : f[i] = IF i = 1 THEN s[i] ELSE f[i - 1] \o s[i]
    BY <2>1
  <2> DEFINE g == [i \in 1 .. n + 1 |-> IF i = n + 1 THEN IF i = 1 THEN s[i] ELSE f[i - 1] \o s[i]
                                                     ELSE f[i]]
  <2>2. ASSUME NEW i \in 1 .. n + 1 PROVE g[i] = IF i = 1 THEN s[i] ELSE g[i - 1] \o s[i]
    <3>1. i # 1 => i - 1 \in 1 .. n + 1 /\ i - 1 # n + 1 /\ g[i - 1] = f[i - 1]
      BY <1>1
    <3>2. i # n + 1 => i \in 1 .. n /\ f[i] = IF i = 1 THEN s[i] ELSE f[i - 1] \o s[i]
      BY <1>1, <2>f
    <3> QED
      BY <3>1, <3>2
  <2>3. g = [i \in 1 .. n + 1 |-> g[i]]
    OBVIOUS
  <2>4. Part(g, n + 1)
    <3> HIDE DEF g
    <3> QED
      BY <2>2, <2>3
  <2>5. n + 1 \in 0 .. Len(s)
    BY <1>1
  <2> HIDE DEF g, Part
  <2> QED
    BY <2>4, <2>5
<1>4. Len(s) \in S
  <2> HIDE DEF S
  <2>1. Len(s) \in 0 .. Len(s)
    BY <1>1
  <2> QED
    BY <1>1, <1>2, <1>3, <2>1, Upwards
<1> QED
  BY <1>4 DEF Flattens

(* FlattenSeq is the last value of such a function.                        *)
LEMMA FlattenIs ==
  ASSUME NEW X, NEW s \in Seq(Seq(X))
  PROVE  \E f : /\ Flattens(f, s)
                /\ FlattenSeq(s) = IF Len(s) = 0 THEN s ELSE f[Len(s)]
<1> DEFINE f == CHOOSE g : Flattens(g, s)
<1>1. Flattens(f, s)
  BY FlattenFunction, Zenon
<1>2. FlattenSeq(s) = IF Len(s) = 0 THEN s ELSE f[Len(s)]
  BY DEF FlattenSeq, Flattens
<1> QED
  BY <1>1, <1>2

(* A sequence of sequences over X flattens to one over X.                  *)
LEMMA FlattenType ==
  ASSUME NEW X, NEW s \in Seq(Seq(X))
  PROVE  FlattenSeq(s) \in Seq(X)
<1>1. PICK f : Flattens(f, s) /\ FlattenSeq(s) = IF Len(s) = 0 THEN s ELSE f[Len(s)]
  BY FlattenIs
<1>2. Len(s) \in Nat /\ \A i \in 1 .. Len(s) : s[i] \in Seq(X)
  OBVIOUS
<1>3. CASE Len(s) = 0
  <2>1. s = <<>>
    BY <1>3
  <2> QED
    BY <1>1, <1>3, <2>1
<1>4. CASE Len(s) # 0
  <2> DEFINE S == {n \in 0 .. Len(s) : n = 0 \/ f[n] \in Seq(X)}
  <2>1. 0 \in S
    BY <1>2
  <2>2. ASSUME NEW n \in 0 .. Len(s) - 1, n \in S PROVE n + 1 \in S
    <3>1. n + 1 \in 1 .. Len(s) /\ n + 1 \in 0 .. Len(s) /\ (n + 1) - 1 = n /\ (n + 1 = 1 <=> n = 0)
      BY <1>2
    <3>2. f[n + 1] = IF n = 0 THEN s[n + 1] ELSE f[n] \o s[n + 1]
      BY <1>1, <3>1 DEF Flattens
    <3>3. s[n + 1] \in Seq(X)
      BY <1>2, <3>1
    <3>4. n # 0 => f[n] \in Seq(X)
      BY <2>2
    <3>5. f[n + 1] \in Seq(X)
      BY <3>2, <3>3, <3>4
    <3> QED
      BY <3>1, <3>5
  <2>3. Len(s) \in S
    <3>1. Len(s) \in 0 .. Len(s)
      BY <1>2
    <3> HIDE DEF S
    <3> QED
      BY <1>2, <2>1, <2>2, <3>1, Upwards
  <2> QED
    BY <1>1, <1>4, <2>3
<1> QED
  BY <1>3, <1>4

(* Nothing flattens to nothing.                                            *)
LEMMA FlattenEmpty == FlattenSeq(<<>>) = <<>>
<1>1. Len(<<>>) = 0
  OBVIOUS
<1> QED
  BY <1>1 DEF FlattenSeq

(* A sequence appended is a sequence put at the end.                       *)
LEMMA FlattenAppend ==
  ASSUME NEW X, NEW s \in Seq(Seq(X)), NEW e \in Seq(X)
  PROVE  FlattenSeq(Append(s, e)) = FlattenSeq(s) \o e
<1> DEFINE t == Append(s, e)
           N == Len(s)
<1>1. /\ t \in Seq(Seq(X)) /\ Len(t) = N + 1 /\ N \in Nat /\ t[N + 1] = e
      /\ \A i \in 1 .. N : t[i] = s[i]
  OBVIOUS
<1>2. PICK f : Flattens(f, s) /\ FlattenSeq(s) = IF Len(s) = 0 THEN s ELSE f[Len(s)]
  BY FlattenIs
<1> HIDE DEF t
<1>3. PICK g : Flattens(g, t) /\ FlattenSeq(t) = IF Len(t) = 0 THEN t ELSE g[Len(t)]
  BY <1>1, FlattenIs
<1> DEFINE S == {n \in 0 .. N : n = 0 \/ g[n] = f[n]}
<1>4. 0 \in S
  BY <1>1
<1>5. ASSUME NEW n \in 0 .. N - 1, n \in S PROVE n + 1 \in S
  <2>1. n + 1 \in 1 .. N /\ n + 1 \in 1 .. N + 1 /\ (n + 1) - 1 = n /\ (n + 1 = 1 <=> n = 0) /\ n + 1 \in 0 .. N
    BY <1>1
  <2>2. f[n + 1] = IF n = 0 THEN s[n + 1] ELSE f[n] \o s[n + 1]
    BY <1>2, <2>1 DEF Flattens
  <2>3. g[n + 1] = IF n = 0 THEN t[n + 1] ELSE g[n] \o t[n + 1]
    BY <1>1, <1>3, <2>1 DEF Flattens
  <2>4. t[n + 1] = s[n + 1] /\ (n # 0 => g[n] = f[n])
    BY <1>1, <1>5, <2>1
  <2> QED
    BY <2>1, <2>2, <2>3, <2>4
<1>6. N \in S
  <2>1. N \in 0 .. N
    BY <1>1
  <2> HIDE DEF S, N
  <2> QED
    BY <1>1, <1>4, <1>5, <2>1, Upwards
<1>7. FlattenSeq(t) = g[N + 1] /\ g[N + 1] = IF N = 0 THEN t[N + 1] ELSE g[N] \o t[N + 1]
  <2>1. N + 1 \in 1 .. N + 1 /\ N + 1 # 0 /\ (N + 1 = 1 <=> N = 0) /\ (N + 1) - 1 = N
    BY <1>1
  <2> QED
    BY <1>1, <1>3, <2>1 DEF Flattens
<1>8. CASE N = 0
  <2>1. s = <<>> /\ FlattenSeq(s) = <<>>
    BY <1>8, FlattenEmpty
  <2>2. <<>> \o e = e
    OBVIOUS
  <2> QED
    BY <1>1, <1>7, <1>8, <2>1, <2>2 DEF t
<1>9. CASE N # 0
  BY <1>1, <1>2, <1>6, <1>7, <1>9 DEF t
<1> QED
  BY <1>8, <1>9

(* The first n elements.                                                   *)
Upto(s, n) == SubSeq(s, 1, n)

(* The first n elements are n elements, and one more is one appended.      *)
LEMMA UptoFacts ==
  ASSUME NEW X, NEW s \in Seq(X)
  PROVE  /\ Upto(s, 0) = <<>> /\ Upto(s, Len(s)) = s
         /\ \A n \in 0 .. Len(s) : /\ Upto(s, n) \in Seq(X) /\ Len(Upto(s, n)) = n
                                   /\ \A i \in 1 .. n : Upto(s, n)[i] = s[i]
         /\ \A n \in 0 .. Len(s) - 1 : Upto(s, n + 1) = Append(Upto(s, n), s[n + 1])
<1>1. Len(s) \in Nat /\ DOMAIN s = 1 .. Len(s)
  OBVIOUS
<1>2. Upto(s, 0) = <<>>
  BY DEF Upto
<1>3. Upto(s, Len(s)) = s
  BY <1>1 DEF Upto
<1>4. ASSUME NEW n \in 0 .. Len(s)
      PROVE  /\ Upto(s, n) \in Seq(X) /\ Len(Upto(s, n)) = n
             /\ \A i \in 1 .. n : Upto(s, n)[i] = s[i]
  BY <1>1 DEF Upto
<1>5. ASSUME NEW n \in 0 .. Len(s) - 1
      PROVE  Upto(s, n + 1) = Append(Upto(s, n), s[n + 1])
  <2>1. n \in 0 .. Len(s) /\ n + 1 \in 0 .. Len(s) /\ n + 1 \in 1 .. Len(s) /\ n \in Nat
    BY <1>1
  <2>2. s[n + 1] \in X
    BY <2>1
  <2> DEFINE a == Upto(s, n + 1)
             b == Append(Upto(s, n), s[n + 1])
  <2>3. a \in Seq(X) /\ Len(a) = n + 1 /\ \A i \in 1 .. n + 1 : a[i] = s[i]
    BY <1>4, <2>1
  <2>4. b \in Seq(X) /\ Len(b) = n + 1 /\ \A i \in 1 .. n + 1 : b[i] = s[i]
    <3>1. Upto(s, n) \in Seq(X) /\ Len(Upto(s, n)) = n /\ \A i \in 1 .. n : Upto(s, n)[i] = s[i]
      BY <1>4, <2>1
    <3> HIDE DEF Upto
    <3> QED
      BY <2>1, <2>2, <3>1
  <2> HIDE DEF a, b
  <2>5. \A i \in 1 .. Len(a) : a[i] = b[i]
    BY <2>3, <2>4
  <2>6. a = b
    BY <2>3, <2>4, <2>5, SeqEqual
  <2> QED
    BY <2>6 DEF a, b
<1> QED
  BY <1>2, <1>3, <1>4, <1>5

(* What is used of concatenation, stated once.                             *)
LEMMA Concat ==
  ASSUME NEW X
  PROVE  /\ \A x \in Seq(X) : x \o <<>> = x
         /\ \A x, y \in Seq(X) : x \o y \in Seq(X)
         /\ \A x, y, z \in Seq(X) : (x \o y) \o z = x \o (y \o z)
         /\ \A x \in Seq(X), e \in X : Append(x, e) = x \o <<e>> /\ <<e>> \in Seq(X)
<1>1. \A x \in Seq(X) : x \o <<>> = x
  BY ConcatEmptySeq
<1>2. \A x, y \in Seq(X) : x \o y \in Seq(X)
  OBVIOUS
<1>3. \A x, y, z \in Seq(X) : (x \o y) \o z = x \o (y \o z)
  BY ConcatAssociative
<1>4. \A x \in Seq(X), e \in X : Append(x, e) = x \o <<e>> /\ <<e>> \in Seq(X)
  BY AppendIsConcat
<1> QED
  BY <1>1, <1>2, <1>3, <1>4

(* Where the elements of a concatenation are.                              *)
LEMMA ConcatFacts ==
  ASSUME NEW X, NEW P \in Seq(X), NEW e \in Seq(X)
  PROVE  /\ P \o e \in Seq(X) /\ Len(P \o e) = Len(P) + Len(e)
         /\ \A k \in 1 .. Len(P) : (P \o e)[k] = P[k]
         /\ \A k \in 1 .. Len(e) : (P \o e)[Len(P) + k] = e[k]
OBVIOUS

(* Flattening distributes over concatenation.                              *)
LEMMA FlattenConcat ==
  ASSUME NEW X, NEW s \in Seq(Seq(X)), NEW t \in Seq(Seq(X))
  PROVE  FlattenSeq(s \o t) = FlattenSeq(s) \o FlattenSeq(t)
<1> DEFINE S == {n \in 0 .. Len(t) : FlattenSeq(s \o Upto(t, n)) = FlattenSeq(s) \o FlattenSeq(Upto(t, n))}
<1>1. Len(t) \in Nat /\ FlattenSeq(s) \in Seq(X)
  BY FlattenType
<1>a. \A x, y, z \in Seq(X) : (x \o y) \o z = x \o (y \o z)
  BY Concat
<1>b. \A x, y, z \in Seq(Seq(X)) : (x \o y) \o z = x \o (y \o z)
  BY Concat
<1>c. \A x \in Seq(Seq(X)), z \in Seq(X) : Append(x, z) = x \o <<z>>
  BY Concat
<1>2. 0 \in S
  <2>1. Upto(t, 0) = <<>>
    BY UptoFacts
  <2>2. s \o <<>> = s /\ FlattenSeq(s) \o <<>> = FlattenSeq(s)
    BY <1>1, Concat
  <2>3. 0 \in 0 .. Len(t)
    BY <1>1
  <2> QED
    BY <2>1, <2>2, <2>3, FlattenEmpty, Zenon
<1>3. ASSUME NEW n \in 0 .. Len(t) - 1, n \in S PROVE n + 1 \in S
  <2> DEFINE u == Upto(t, n)
             e == t[n + 1]
  <2>1. n \in 0 .. Len(t) /\ n + 1 \in 0 .. Len(t) /\ n + 1 \in 1 .. Len(t)
    BY <1>1
  <2>2. u \in Seq(Seq(X)) /\ e \in Seq(X) /\ Upto(t, n + 1) = Append(u, e)
    BY <2>1, UptoFacts
  <2>3. FlattenSeq(s \o u) = FlattenSeq(s) \o FlattenSeq(u)
    BY <1>3
  <2> HIDE DEF u, e
  <2>4. s \o Append(u, e) = Append(s \o u, e) /\ s \o u \in Seq(Seq(X))
    <3>1. s \o u \in Seq(Seq(X)) /\ <<e>> \in Seq(Seq(X))
      BY <2>2, Concat, Zenon
    <3>2. Append(u, e) = u \o <<e>> /\ Append(s \o u, e) = (s \o u) \o <<e>>
      BY <2>2, <3>1, <1>c, Zenon
    <3>3. (s \o u) \o <<e>> = s \o (u \o <<e>>)
      <4>1. s \in Seq(Seq(X)) /\ u \in Seq(Seq(X)) /\ <<e>> \in Seq(Seq(X))
        BY <2>2, <3>1
      <4> QED
        BY <4>1, <1>b, Zenon
    <3> QED
      BY <3>1, <3>2, <3>3, Zenon
  <2>5. FlattenSeq(Append(u, e)) = FlattenSeq(u) \o e /\ FlattenSeq(u) \in Seq(X)
    BY <2>2, FlattenAppend, FlattenType
  <2>6. FlattenSeq(Append(s \o u, e)) = FlattenSeq(s \o u) \o e
    BY <2>2, <2>4, FlattenAppend
  <2>7. (FlattenSeq(s) \o FlattenSeq(u)) \o e = FlattenSeq(s) \o (FlattenSeq(u) \o e)
    <3> DEFINE x == FlattenSeq(s)
               y == FlattenSeq(u)
    <3>1. x \in Seq(X) /\ y \in Seq(X) /\ e \in Seq(X)
      BY <1>1, <2>2, <2>5
    <3> HIDE DEF x, y
    <3>2. (x \o y) \o e = x \o (y \o e)
      BY <3>1, <1>a, Zenon
    <3> QED
      BY <3>2 DEF x, y
  <2> QED
    BY <2>1, <2>2, <2>3, <2>4, <2>5, <2>6, <2>7
<1>4. Len(t) \in S
  <2>1. Len(t) \in 0 .. Len(t)
    BY <1>1
  <2> HIDE DEF S
  <2> QED
    BY <1>1, <1>2, <1>3, <2>1, Upwards
<1>5. Upto(t, Len(t)) = t
  BY UptoFacts
<1> QED
  BY <1>4, <1>5

(* The j-th place of a part is a place of the whole.                       *)
LEMMA Within ==
  ASSUME NEW x \in Nat, NEW l \in Nat, NEW top \in Nat, NEW j \in 1 .. l, x + l <= top
  PROVE  x + j \in 1 .. top
OBVIOUS

(* Where the i-th sequence begins, counted from 0.                         *)
Ahead(s, i) == Len(FlattenSeq(Upto(s, i - 1)))

(* Every element of a sequence is in its place, and there is nothing else. *)
LEMMA Positions ==
  ASSUME NEW X, NEW s \in Seq(Seq(X))
  PROVE  /\ \A i \in 1 .. Len(s) : /\ Ahead(s, i) \in Nat
                                   /\ Ahead(s, i) + Len(s[i]) <= Len(FlattenSeq(s))
         /\ \A i \in 1 .. Len(s) : \A j \in 1 .. Len(s[i]) : FlattenSeq(s)[Ahead(s, i) + j] = s[i][j]
         /\ \A k \in 1 .. Len(FlattenSeq(s)) :
              \E i \in 1 .. Len(s) : \E j \in 1 .. Len(s[i]) : k = Ahead(s, i) + j
<1> DEFINE F(n) == FlattenSeq(Upto(s, n))
           Placed(n) ==
             /\ \A i \in 1 .. n : Ahead(s, i) \in Nat /\ Ahead(s, i) + Len(s[i]) <= Len(F(n))
             /\ \A i \in 1 .. n : \A j \in 1 .. Len(s[i]) : F(n)[Ahead(s, i) + j] = s[i][j]
             /\ \A k \in 1 .. Len(F(n)) :
                  \E i \in 1 .. n : \E j \in 1 .. Len(s[i]) : k = Ahead(s, i) + j
           S == {n \in 0 .. Len(s) : Placed(n)}
<1>1. Len(s) \in Nat /\ \A i \in 1 .. Len(s) : s[i] \in Seq(X) /\ Len(s[i]) \in Nat
  OBVIOUS
<1>2. \A n \in 0 .. Len(s) : F(n) \in Seq(X) /\ Len(F(n)) \in Nat
  <2> TAKE n \in 0 .. Len(s)
  <2>1. Upto(s, n) \in Seq(Seq(X))
    BY UptoFacts
  <2>2. F(n) \in Seq(X)
    BY <2>1, FlattenType
  <2> QED
    BY <2>2
<1>3. 0 \in S
  <2>1. F(0) = <<>> /\ Len(<<>>) = 0
    BY UptoFacts, FlattenEmpty
  <2> HIDE DEF F
  <2>2. Placed(0)
    BY <2>1
  <2> QED
    BY <1>1, <2>2
<1>4. ASSUME NEW n \in 0 .. Len(s) - 1, n \in S PROVE n + 1 \in S
  <2> DEFINE m == n + 1
  <2>1. n \in 0 .. Len(s) /\ m \in 0 .. Len(s) /\ m \in 1 .. Len(s) /\ m - 1 = n /\ n \in Nat
    BY <1>1
  <2>2. Upto(s, n) \in Seq(Seq(X)) /\ s[m] \in Seq(X) /\ Upto(s, m) = Append(Upto(s, n), s[m])
    BY <2>1, UptoFacts
  <2>3. F(m) = F(n) \o s[m]
    BY <2>2, FlattenAppend
  <2>4. Ahead(s, m) = Len(F(n))
    BY <2>1 DEF Ahead
  <2>5. Placed(n) /\ F(n) \in Seq(X) /\ Len(F(n)) \in Nat /\ Len(s[m]) \in Nat
    BY <1>1, <1>2, <1>4, <2>1
  <2>6. \A i \in 1 .. m : i = m \/ i \in 1 .. n
    BY <2>1
  <2>7. 1 .. n \subseteq 1 .. m /\ m \in 1 .. m
    BY <2>1
  <2> HIDE DEF F, m
  <2>8. /\ Len(F(m)) = Len(F(n)) + Len(s[m])
        /\ \A k \in 1 .. Len(F(n)) : F(m)[k] = F(n)[k]
        /\ \A j \in 1 .. Len(s[m]) : F(m)[Len(F(n)) + j] = s[m][j]
    <3>1. s[m] \in Seq(X) /\ F(n) \in Seq(X)
      BY <2>2, <2>5
    <3>2. /\ Len(F(n) \o s[m]) = Len(F(n)) + Len(s[m])
          /\ \A k \in 1 .. Len(F(n)) : (F(n) \o s[m])[k] = F(n)[k]
          /\ \A j \in 1 .. Len(s[m]) : (F(n) \o s[m])[Len(F(n)) + j] = s[m][j]
      BY <3>1, ConcatFacts
    <3> QED
      BY <2>3, <3>2, Zenon
  <2>x. Len(F(m)) \in Nat /\ Len(F(n)) <= Len(F(m))
    BY <2>5, <2>8
  <2>9. \A i \in 1 .. m : Ahead(s, i) \in Nat /\ Ahead(s, i) + Len(s[i]) <= Len(F(m))
    <3> TAKE i \in 1 .. m
    <3>1. CASE i = m
      <4>1. Ahead(s, i) = Len(F(n)) /\ Len(s[i]) = Len(s[m])
        BY <2>4, <3>1
      <4> QED
        BY <2>5, <2>8, <4>1
    <3>2. CASE i \in 1 .. n
      <4>1. Ahead(s, i) \in Nat /\ Ahead(s, i) + Len(s[i]) <= Len(F(n)) /\ Len(s[i]) \in Nat
        BY <1>1, <2>1, <2>5, <3>2
      <4>2. \A x, l, y, z \in Nat : x + l <= y /\ y <= z => x + l <= z
        OBVIOUS
      <4> QED
        BY <2>5, <2>x, <4>1, <4>2
    <3> QED
      BY <2>6, <3>1, <3>2
  <2>10. \A i \in 1 .. m : \A j \in 1 .. Len(s[i]) : F(m)[Ahead(s, i) + j] = s[i][j]
    <3> SUFFICES ASSUME NEW i \in 1 .. m, NEW j \in 1 .. Len(s[i])
                 PROVE  F(m)[Ahead(s, i) + j] = s[i][j]
      OBVIOUS
    <3>1. CASE i = m
      BY <2>4, <2>8, <3>1
    <3>2. CASE i \in 1 .. n
      <4>1. Ahead(s, i) \in Nat /\ Ahead(s, i) + Len(s[i]) <= Len(F(n)) /\ Len(s[i]) \in Nat
        BY <1>1, <2>1, <2>5, <3>2
      <4>2. Ahead(s, i) + j \in 1 .. Len(F(n))
        <5>1. Len(F(n)) \in Nat
          BY <2>5
        <5> QED
          BY <4>1, <5>1, Within
      <4>3. F(n)[Ahead(s, i) + j] = s[i][j]
        BY <2>5, <3>2
      <4> QED
        BY <2>8, <4>2, <4>3
    <3> QED
      BY <2>6, <3>1, <3>2
  <2>11. \A k \in 1 .. Len(F(m)) : \E i \in 1 .. m : \E j \in 1 .. Len(s[i]) : k = Ahead(s, i) + j
    <3> TAKE k \in 1 .. Len(F(m))
    <3>1. CASE k <= Len(F(n))
      <4>1. k \in 1 .. Len(F(n))
        BY <2>5, <2>8, <3>1
      <4> QED
        BY <2>5, <2>7, <4>1
    <3>2. CASE ~(k <= Len(F(n)))
      <4> DEFINE j == k - Len(F(n))
      <4>1. j \in 1 .. Len(s[m]) /\ k = Len(F(n)) + j
        BY <2>5, <2>8, <3>2
      <4> HIDE DEF j
      <4> QED
        BY <2>4, <2>7, <4>1
    <3> QED
      BY <3>1, <3>2
  <2>12. Placed(m)
    BY <2>9, <2>10, <2>11
  <2> HIDE DEF Placed
  <2> QED
    BY <2>1, <2>12 DEF m
<1>5. Len(s) \in S
  <2>1. Len(s) \in 0 .. Len(s)
    BY <1>1
  <2> HIDE DEF S
  <2> QED
    BY <1>1, <1>3, <1>4, <2>1, Upwards
<1>6. F(Len(s)) = FlattenSeq(s)
  BY UptoFacts
<1>7. Placed(Len(s))
  BY <1>5
<1> HIDE DEF F
<1> QED
  BY <1>6, <1>7

(* What is in the flat sequence was in one of the sequences.               *)
LEMMA RangeFlatten ==
  ASSUME NEW X, NEW s \in Seq(Seq(X)), NEW x
  PROVE  x \in Range(FlattenSeq(s)) <=> \E i \in 1 .. Len(s) : x \in Range(s[i])
<1> DEFINE F == FlattenSeq(s)
<1>1. F \in Seq(X) /\ DOMAIN F = 1 .. Len(F) /\ Len(F) \in Nat
  BY FlattenType
<1>2. \A i \in 1 .. Len(s) : DOMAIN s[i] = 1 .. Len(s[i]) /\ Len(s[i]) \in Nat
  OBVIOUS
<1>3. /\ \A i \in 1 .. Len(s) : Ahead(s, i) \in Nat /\ Ahead(s, i) + Len(s[i]) <= Len(F)
      /\ \A i \in 1 .. Len(s) : \A j \in 1 .. Len(s[i]) : F[Ahead(s, i) + j] = s[i][j]
      /\ \A k \in 1 .. Len(F) : \E i \in 1 .. Len(s) : \E j \in 1 .. Len(s[i]) : k = Ahead(s, i) + j
  BY Positions
<1> HIDE DEF F
<1>4. ASSUME x \in Range(F) PROVE \E i \in 1 .. Len(s) : x \in Range(s[i])
  <2>1. PICK k \in 1 .. Len(F) : x = F[k]
    BY <1>1, <1>4 DEF Range
  <2>i. PICK i \in 1 .. Len(s) : \E j \in 1 .. Len(s[i]) : k = Ahead(s, i) + j
    BY <1>3
  <2>2. PICK j \in 1 .. Len(s[i]) : k = Ahead(s, i) + j
    BY <2>i
  <2>3. x = s[i][j] /\ j \in DOMAIN s[i]
    BY <1>2, <1>3, <2>1, <2>2
  <2> QED
    BY <2>3 DEF Range
<1>5. ASSUME NEW i \in 1 .. Len(s), x \in Range(s[i]) PROVE x \in Range(F)
  <2>1. PICK j \in 1 .. Len(s[i]) : x = s[i][j]
    BY <1>2, <1>5 DEF Range
  <2>2. Ahead(s, i) + j \in 1 .. Len(F)
    BY <1>1, <1>2, <1>3
  <2>3. F[Ahead(s, i) + j] = x
    BY <1>3, <2>1
  <2> QED
    BY <1>1, <2>2, <2>3 DEF Range
<1> QED
  BY <1>4, <1>5 DEF F

-----------------------------------------------------------------------------
(* The bytes of source lines, and the rows of a piece of text.             *)
Shown == STRING \cup {"mirror"}
LineRow == [addr : Int, bytes : Seq(Shown)]

(* The register reads as its mirror, whatever vcs.inc says of it.          *)
LEMMA Mirror == Resolved("REG") = "mirror" /\ \A c \in STRING : Resolved(c) \in Shown
<1>1. Resolved("REG") = "mirror"
  BY Zenon DEF Resolved, KeptEquate
<1>2. \A c : c # "REG" => Resolved(c) = c
  BY Zenon DEF Resolved
<1> QED
  BY <1>1, <1>2, Zenon DEF Shown

(* A row lies where the instructions before it end, byte for byte.         *)
LEMMA RowsType ==
  ASSUME NEW text \in Text, NEW at \in Int
  PROVE  /\ Rows(at, text) \in Seq(LineRow) /\ DOMAIN Rows(at, text) = 1 .. Len(text)
         /\ \A i \in 1 .. Len(text) :
              /\ Rows(at, text)[i].addr = at + Ahead(text, i)
              /\ Len(Rows(at, text)[i].bytes) = Len(text[i])
              /\ \A j \in 1 .. Len(text[i]) : Rows(at, text)[i].bytes[j] = Resolved(text[i][j])
<1>1. /\ text \in Seq(Seq(STRING)) /\ Len(text) \in Nat /\ DOMAIN text = 1 .. Len(text)
      /\ \A i \in 1 .. Len(text) : /\ text[i] \in Seq(STRING) /\ Len(text[i]) \in Nat
                                   /\ DOMAIN text[i] = 1 .. Len(text[i])
  BY DEF Text
<1> DEFINE R == Rows(at, text)
<1>2. DOMAIN R = 1 .. Len(text)
  BY <1>1 DEF Rows
<1>3. ASSUME NEW i \in 1 .. Len(text)
      PROVE  /\ R[i] \in LineRow /\ R[i].addr = at + Ahead(text, i)
             /\ Len(R[i].bytes) = Len(text[i])
             /\ \A j \in 1 .. Len(text[i]) : R[i].bytes[j] = Resolved(text[i][j])
  <2> DEFINE bs == [j \in 1 .. Len(text[i]) |-> Resolved(text[i][j])]
  <2>1. R[i] = [addr |-> at + Ahead(text, i), bytes |-> bs]
    BY <1>1 DEF Rows, Ahead, Bytes, Upto
  <2>2. bs \in Seq(Shown) /\ Len(bs) = Len(text[i])
    <3>1. \A j \in 1 .. Len(text[i]) : Resolved(text[i][j]) \in Shown
      <4>1. \A j \in 1 .. Len(text[i]) : text[i][j] \in STRING
        BY <1>1
      <4> QED
        BY <4>1, Mirror, Zenon
    <3> QED
      BY <1>1, <3>1
  <2>3. Ahead(text, i) \in Nat
    BY <1>1, Positions
  <2>4. \A j \in 1 .. Len(text[i]) : bs[j] = Resolved(text[i][j])
    OBVIOUS
  <2> HIDE DEF bs
  <2> QED
    BY <2>1, <2>2, <2>3, <2>4 DEF LineRow
<1>4. R \in Seq(LineRow)
  <2>1. R = [i \in 1 .. Len(text) |-> R[i]]
    BY <1>1 DEF Rows
  <2> HIDE DEF R
  <2> QED
    BY <1>1, <1>3, <2>1
<1> QED
  BY <1>2, <1>3, <1>4

(* A row of a piece of text has the bytes of the text where it lies, and   *)
(* every address of the text is in a row.                                  *)
Lies(at, text, a) ==
  /\ \A row \in Range(Rows(at, text)) : Covers(row, a) =>
       /\ at <= a /\ a < at + Len(Bytes(text))
       /\ row.bytes[a - row.addr + 1] = Resolved(Bytes(text)[a - at + 1])
  /\ at <= a /\ a < at + Len(Bytes(text)) =>
       \E row \in Range(Rows(at, text)) : Covers(row, a)

LEMMA RowsRight ==
  ASSUME NEW text \in Text, NEW at \in Int, NEW a \in Int
  PROVE  Lies(at, text, a)
<1> DEFINE R == Rows(at, text)
           B == Bytes(text)
<1>1. /\ text \in Seq(Seq(STRING)) /\ Len(text) \in Nat
      /\ \A i \in 1 .. Len(text) : text[i] \in Seq(STRING) /\ Len(text[i]) \in Nat
  BY DEF Text
<1>2. B \in Seq(STRING) /\ Len(B) \in Nat
  BY <1>1, FlattenType DEF Bytes
<1>3. /\ \A i \in 1 .. Len(text) : Ahead(text, i) \in Nat /\ Ahead(text, i) + Len(text[i]) <= Len(B)
      /\ \A i \in 1 .. Len(text) : \A j \in 1 .. Len(text[i]) : B[Ahead(text, i) + j] = text[i][j]
      /\ \A k \in 1 .. Len(B) :
           \E i \in 1 .. Len(text) : \E j \in 1 .. Len(text[i]) : k = Ahead(text, i) + j
  BY <1>1, Positions DEF Bytes
<1>4. /\ DOMAIN R = 1 .. Len(text)
      /\ \A i \in 1 .. Len(text) :
           /\ R[i].addr = at + Ahead(text, i) /\ Len(R[i].bytes) = Len(text[i])
           /\ \A j \in 1 .. Len(text[i]) : R[i].bytes[j] = Resolved(text[i][j])
  BY RowsType
<1> HIDE DEF R, B
<1>5. ASSUME NEW row \in Range(R), Covers(row, a)
      PROVE  /\ at <= a /\ a < at + Len(B)
             /\ row.bytes[a - row.addr + 1] = Resolved(B[a - at + 1])
  <2>1. PICK i \in 1 .. Len(text) : row = R[i]
    BY <1>4 DEF Range
  <2> DEFINE j == a - row.addr + 1
  <2>2. row.addr = at + Ahead(text, i) /\ Len(row.bytes) = Len(text[i]) /\ Ahead(text, i) \in Nat
        /\ Ahead(text, i) + Len(text[i]) <= Len(B) /\ Len(text[i]) \in Nat
    BY <1>1, <1>3, <1>4, <2>1
  <2>3. row.addr <= a /\ a < row.addr + Len(row.bytes)
    BY <1>5 DEF Covers
  <2>4. j \in 1 .. Len(text[i]) /\ a - at + 1 = Ahead(text, i) + j /\ at <= a /\ a < at + Len(B)
    <3>1. at + Ahead(text, i) <= a /\ a < at + Ahead(text, i) + Len(text[i])
      BY <2>2, <2>3
    <3> DEFINE x == Ahead(text, i)
               l == Len(text[i])
    <3>2. \A y, m, top \in Nat : at + y <= a /\ a < at + y + m /\ y + m <= top =>
            /\ a - (at + y) + 1 \in 1 .. m /\ a - at + 1 = y + (a - (at + y) + 1)
            /\ at <= a /\ a < at + top
      OBVIOUS
    <3>3. x \in Nat /\ l \in Nat /\ Len(B) \in Nat /\ x + l <= Len(B) /\ j = a - (at + x) + 1
      BY <1>2, <2>2
    <3> HIDE DEF x, l, j
    <3>4. j \in 1 .. l /\ a - at + 1 = x + j /\ at <= a /\ a < at + Len(B)
      <4>1. at + x <= a /\ a < at + x + l
        BY <3>1 DEF x, l
      <4> QED
        BY <3>2, <3>3, <4>1
    <3> QED
      BY <3>4 DEF x, l
  <2>5. row.bytes[j] = Resolved(text[i][j]) /\ B[Ahead(text, i) + j] = text[i][j]
    BY <1>3, <1>4, <2>1, <2>4
  <2> QED
    BY <2>4, <2>5
<1>6. ASSUME at <= a, a < at + Len(B)
      PROVE  \E row \in Range(R) : Covers(row, a)
  <2>1. a - at + 1 \in 1 .. Len(B)
    BY <1>2, <1>6
  <2>i. PICK i \in 1 .. Len(text) : \E j \in 1 .. Len(text[i]) : a - at + 1 = Ahead(text, i) + j
    BY <1>3, <2>1
  <2>2. PICK j \in 1 .. Len(text[i]) : a - at + 1 = Ahead(text, i) + j
    BY <2>i
  <2>3. /\ R[i].addr = at + Ahead(text, i) /\ Len(R[i].bytes) = Len(text[i])
        /\ Ahead(text, i) \in Nat /\ Len(text[i]) \in Nat /\ R[i] \in Range(R)
    BY <1>1, <1>3, <1>4 DEF Range
  <2>4. Covers(R[i], a)
    BY <2>2, <2>3 DEF Covers
  <2> QED
    BY <2>3, <2>4
<1> QED
  BY <1>5, <1>6, Zenon DEF R, B, Lies

-----------------------------------------------------------------------------
(* The image of the first n lines, and the address of the line behind them.*)
Addr(src, n) == Len(Image(Upto(src, n)))

(* A line appended to the source is its bytes put at the end.              *)
LEMMA ImageAppend ==
  ASSUME NEW src \in Seq(Text), NEW l \in Text
  PROVE  /\ Image(src) \in Seq(STRING) /\ Bytes(l) \in Seq(STRING)
         /\ Image(Append(src, l)) = Image(src) \o Bytes(l)
<1>1. src \in Seq(Seq(Seq(STRING))) /\ l \in Seq(Seq(STRING))
  BY DEF Text
<1>2. FlattenSeq(src) \in Seq(Seq(STRING))
  BY <1>1, FlattenType
<1>3. FlattenSeq(FlattenSeq(src)) \in Seq(STRING) /\ FlattenSeq(l) \in Seq(STRING)
  BY <1>1, <1>2, FlattenType
<1>4. FlattenSeq(Append(src, l)) = FlattenSeq(src) \o l
  BY <1>1, FlattenAppend
<1>5. FlattenSeq(FlattenSeq(src) \o l) = FlattenSeq(FlattenSeq(src)) \o FlattenSeq(l)
  BY <1>1, <1>2, FlattenConcat
<1> QED
  BY <1>3, <1>4, <1>5 DEF Image, Bytes

(* The image grows line by line, and addresses with it.                    *)
LEMMA Addresses ==
  ASSUME NEW src \in Seq(Text)
  PROVE  /\ \A n \in 0 .. Len(src) : Image(Upto(src, n)) \in Seq(STRING) /\ Addr(src, n) \in Nat
         /\ Image(Upto(src, 0)) = <<>> /\ Addr(src, 0) = 0
         /\ Image(Upto(src, Len(src))) = Image(src)
         /\ \A n \in 0 .. Len(src) - 1 :
              /\ Image(Upto(src, n + 1)) = Image(Upto(src, n)) \o Bytes(src[n + 1])
              /\ Bytes(src[n + 1]) \in Seq(STRING)
              /\ Addr(src, n + 1) = Addr(src, n) + Len(Bytes(src[n + 1]))
         /\ \A m, n \in 0 .. Len(src) : m <= n => Addr(src, m) <= Addr(src, n)
<1>1. Len(src) \in Nat
  OBVIOUS
<1>2. ASSUME NEW n \in 0 .. Len(src)
      PROVE  Image(Upto(src, n)) \in Seq(STRING) /\ Addr(src, n) \in Nat
  <2>1. Upto(src, n) \in Seq(Text)
    BY UptoFacts
  <2>2. <<>> \in Text
    BY DEF Text
  <2>3. Image(Upto(src, n)) \in Seq(STRING)
    BY <2>1, <2>2, ImageAppend
  <2> QED
    BY <2>3 DEF Addr
<1>3. Image(Upto(src, 0)) = <<>> /\ Addr(src, 0) = 0
  <2>1. Image(Upto(src, 0)) = <<>>
    BY UptoFacts, FlattenEmpty DEF Image, Bytes
  <2> QED
    BY <2>1 DEF Addr
<1>4. Image(Upto(src, Len(src))) = Image(src)
  BY UptoFacts
<1>5. ASSUME NEW n \in 0 .. Len(src) - 1
      PROVE  /\ Image(Upto(src, n + 1)) = Image(Upto(src, n)) \o Bytes(src[n + 1])
             /\ Bytes(src[n + 1]) \in Seq(STRING)
             /\ Addr(src, n + 1) = Addr(src, n) + Len(Bytes(src[n + 1]))
  <2>1. n \in 0 .. Len(src) /\ n + 1 \in 1 .. Len(src)
    BY <1>1
  <2>2. /\ Upto(src, n) \in Seq(Text) /\ src[n + 1] \in Text
        /\ Upto(src, n + 1) = Append(Upto(src, n), src[n + 1])
    BY <2>1, UptoFacts
  <2>3. /\ Image(Upto(src, n)) \in Seq(STRING) /\ Bytes(src[n + 1]) \in Seq(STRING)
        /\ Image(Upto(src, n + 1)) = Image(Upto(src, n)) \o Bytes(src[n + 1])
    BY <2>2, ImageAppend
  <2>4. Len(Image(Upto(src, n)) \o Bytes(src[n + 1])) = Len(Image(Upto(src, n))) + Len(Bytes(src[n + 1]))
    BY <2>3, ConcatProperties
  <2> QED
    BY <2>3, <2>4 DEF Addr
<1>6. ASSUME NEW m \in 0 .. Len(src), NEW n \in 0 .. Len(src), m <= n
      PROVE  Addr(src, m) <= Addr(src, n)
  <2> DEFINE S == {k \in 0 .. Len(src) : m <= k => Addr(src, m) <= Addr(src, k)}
  <2>1. 0 \in S
    BY <1>1, <1>2
  <2>2. ASSUME NEW k \in 0 .. Len(src) - 1, k \in S PROVE k + 1 \in S
    <3>1. k \in 0 .. Len(src) /\ k + 1 \in 0 .. Len(src)
      BY <1>1
    <3>2. Addr(src, k) <= Addr(src, k + 1)
      <4>1. Len(Bytes(src[k + 1])) \in Nat /\ Addr(src, k) \in Nat
        BY <1>2, <1>5, <3>1
      <4> QED
        BY <1>5, <4>1
    <3>3. /\ Addr(src, m) \in Nat /\ Addr(src, k) \in Nat /\ Addr(src, k + 1) \in Nat
          /\ m \in Nat /\ k \in Nat
      BY <1>1, <1>2, <3>1
    <3>4. m <= k => Addr(src, m) <= Addr(src, k)
      BY <2>2
    <3>5. m <= k + 1 => m <= k \/ m = k + 1
      BY <3>3
    <3>6. m <= k + 1 => Addr(src, m) <= Addr(src, k + 1)
      BY <3>2, <3>3, <3>4, <3>5
    <3> QED
      BY <3>1, <3>6
  <2>3. \A k \in 0 .. Len(src) : k \in S
    <3> HIDE DEF S
    <3> QED
      BY <1>1, <2>1, <2>2, Upwards
  <2> QED
    BY <1>6, <2>3
<1> QED
  BY <1>2, <1>3, <1>4, <1>5, <1>6

(* Q is what lies between two edges of P, as far as P goes.                *)
Clipped(P, Q, lo, hi) ==
  /\ Len(P) <= lo => Len(Q) = 0
  /\ lo <= Len(P) /\ Len(P) <= hi => Len(Q) = Len(P) - lo
  /\ hi <= Len(P) => Len(Q) = hi - lo
  /\ \A k \in 1 .. Len(Q) : Q[k] = P[lo + k]

(* The arithmetic of the next lemma.                                       *)
LEMMA ClipLengths ==
  ASSUME NEW p \in Nat, NEW l \in Nat, NEW lo \in Nat, NEW hi \in Nat, lo <= hi,
         p < hi => p + l <= hi, p < lo => p + l <= lo
  PROVE  /\ lo <= p /\ p < hi =>
              /\ p + l <= lo => (p - lo) + l = 0
              /\ (p - lo) + l = (p + l) - lo
              /\ hi <= p + l => (p - lo) + l = hi - lo
         /\ p < lo => /\ lo <= p + l => 0 = (p + l) - lo
                      /\ hi <= p + l => 0 = hi - lo
         /\ hi <= p => /\ p + l <= lo => hi - lo = 0
                       /\ p + l <= hi => hi - lo = (p + l) - lo
                       /\ hi <= p + l
OBVIOUS

(* An edge does not lie inside what is added.                              *)
LEMMA ClipStep ==
  ASSUME NEW X, NEW P \in Seq(X), NEW Q \in Seq(X), NEW e \in Seq(X),
         NEW lo \in Nat, NEW hi \in Nat, lo <= hi, Clipped(P, Q, lo, hi),
         Len(P) < lo => Len(P) + Len(e) <= lo, Len(P) < hi => Len(P) + Len(e) <= hi
  PROVE  Clipped(P \o e, Q \o (IF lo <= Len(P) /\ Len(P) < hi THEN e ELSE <<>>), lo, hi)
<1> DEFINE in == lo <= Len(P) /\ Len(P) < hi
           P2 == P \o e
<1>1. Len(P) \in Nat /\ Len(Q) \in Nat /\ Len(e) \in Nat
  OBVIOUS
<1>2. /\ Len(P2) = Len(P) + Len(e)
      /\ \A k \in 1 .. Len(P) : P2[k] = P[k]
      /\ \A k \in 1 .. Len(e) : P2[Len(P) + k] = e[k]
  BY ConcatFacts
<1>3. Q \o <<>> = Q
  BY Concat
<1>l. /\ in => /\ Len(P) + Len(e) <= lo => (Len(P) - lo) + Len(e) = 0
               /\ (Len(P) - lo) + Len(e) = (Len(P) + Len(e)) - lo
               /\ hi <= Len(P) + Len(e) => (Len(P) - lo) + Len(e) = hi - lo
      /\ Len(P) < lo => /\ lo <= Len(P) + Len(e) => 0 = (Len(P) + Len(e)) - lo
                        /\ hi <= Len(P) + Len(e) => 0 = hi - lo
      /\ hi <= Len(P) => /\ Len(P) + Len(e) <= lo => hi - lo = 0
                         /\ Len(P) + Len(e) <= hi => hi - lo = (Len(P) + Len(e)) - lo
                         /\ hi <= Len(P) + Len(e)
  BY <1>1, ClipLengths
<1> HIDE DEF P2
<1>4. CASE in
  <2> DEFINE Q2 == Q \o e
  <2>1. /\ Len(Q2) = Len(Q) + Len(e)
        /\ \A k \in 1 .. Len(Q) : Q2[k] = Q[k]
        /\ \A k \in 1 .. Len(e) : Q2[Len(Q) + k] = e[k]
    BY ConcatFacts
  <2> HIDE DEF Q2
  <2>2. Len(Q) = Len(P) - lo /\ \A k \in 1 .. Len(Q) : Q[k] = P[lo + k]
    BY <1>1, <1>4 DEF Clipped
  <2>3. /\ Len(P2) <= lo => Len(Q2) = 0
        /\ lo <= Len(P2) /\ Len(P2) <= hi => Len(Q2) = Len(P2) - lo
        /\ hi <= Len(P2) => Len(Q2) = hi - lo
    BY <1>1, <1>2, <1>4, <1>l, <2>1, <2>2
  <2>4. ASSUME NEW k \in 1 .. Len(Q2) PROVE Q2[k] = P2[lo + k]
    <3>1. CASE k <= Len(Q)
      <4>1. k \in 1 .. Len(Q) /\ lo + k \in 1 .. Len(P)
        BY <1>1, <2>1, <2>2, <3>1
      <4> QED
        BY <1>2, <2>1, <2>2, <4>1
    <3>2. CASE ~(k <= Len(Q))
      <4> DEFINE j == k - Len(Q)
      <4>1. j \in 1 .. Len(e) /\ k = Len(Q) + j /\ lo + k = Len(P) + j
        BY <1>1, <2>1, <2>2, <3>2
      <4> HIDE DEF j
      <4> QED
        BY <1>2, <2>1, <4>1
    <3> QED
      BY <3>1, <3>2
  <2> QED
    BY <1>4, <2>3, <2>4 DEF Clipped, P2, Q2
<1>5. CASE ~in
  <2>1. Len(P) < lo \/ hi <= Len(P)
    BY <1>1, <1>5
  <2>2. /\ Len(P2) <= lo => Len(Q) = 0
        /\ lo <= Len(P2) /\ Len(P2) <= hi => Len(Q) = Len(P2) - lo
        /\ hi <= Len(P2) => Len(Q) = hi - lo
    <3>1. CASE Len(P) < lo
      <4>1. Len(Q) = 0 /\ Len(P2) <= lo
        BY <1>1, <1>2, <3>1 DEF Clipped
      <4> QED
        BY <1>2, <1>l, <3>1, <4>1
    <3>2. CASE hi <= Len(P)
      <4>1. Len(Q) = hi - lo /\ hi <= Len(P2)
        BY <1>1, <1>2, <3>2 DEF Clipped
      <4> QED
        BY <1>2, <1>l, <3>2, <4>1
    <3> QED
      BY <2>1, <3>1, <3>2
  <2>3. ASSUME NEW k \in 1 .. Len(Q) PROVE Q[k] = P2[lo + k]
    <3>1. lo + k \in 1 .. Len(P)
      BY <1>1, <2>1 DEF Clipped
    <3> QED
      BY <1>2, <3>1 DEF Clipped
  <2> QED
    BY <1>3, <1>5, <2>2, <2>3 DEF Clipped, P2
<1> QED
  BY <1>4, <1>5

-----------------------------------------------------------------------------
(* Where an edge may lie: in front of a line, or behind the last one.      *)
Edges(src) == {Addr(src, m) : m \in 0 .. Len(src)}

(* A line that begins before an edge ends at it at the latest.             *)
LEMMA EdgeStops ==
  ASSUME NEW src \in Seq(Text), NEW x \in Edges(src),
         NEW n \in 0 .. Len(src) - 1, Addr(src, n) < x
  PROVE  Addr(src, n + 1) <= x
<1>1. PICK m \in 0 .. Len(src) : x = Addr(src, m)
  BY DEF Edges
<1>2. Len(src) \in Nat /\ n \in 0 .. Len(src) /\ n + 1 \in 0 .. Len(src) /\ m \in Nat /\ n \in Nat
  OBVIOUS
<1>3. Addr(src, n) \in Nat /\ Addr(src, m) \in Nat
  BY <1>2, Addresses
<1>4. m <= n => Addr(src, m) <= Addr(src, n)
  BY <1>2, Addresses
<1>5. ~(m <= n)
  <2>1. \A y, z \in Nat : y < z => ~(z <= y)
    OBVIOUS
  <2> QED
    BY <1>1, <1>3, <1>4, <2>1
<1>6. n + 1 <= m
  BY <1>2, <1>5
<1> QED
  BY <1>1, <1>2, <1>6, Addresses

(* The edges mkbanks lets through are edges of the tree's lines.           *)
LEMMA TreeEdges ==
  ASSUME BuildTypeOK, EdgesOnLines, NEW r \in Range(tree.regions)
  PROVE  r.lo \in Edges(tree.src) /\ r.hi \in Edges(tree.src)
<1> DEFINE src == tree.src
<1>1. src \in Seq(Text) /\ Image(src) = Image(Pristine) /\ Len(src) \in Nat
  BY TextAssumption, TreeAssumption DEF BuildTypeOK, Trees
<1>2. 0 \in 0 .. Len(src) /\ Len(src) \in 0 .. Len(src)
  BY <1>1
<1>3. Addr(src, 0) = 0 /\ Addr(src, Len(src)) = Size
  BY <1>1, Addresses DEF Addr, Size
<1>4. LineStarts \subseteq Edges(src)
  <2> SUFFICES ASSUME NEW n \in DOMAIN tree.src PROVE LineAddress(n) \in Edges(src)
    BY DEF LineStarts
  <2>1. n \in 1 .. Len(src) /\ n - 1 \in 0 .. Len(src)
    BY <1>1
  <2> QED
    BY <2>1 DEF LineAddress, Addr, Upto, Edges
<1>5. 0 \in Edges(src) /\ Size \in Edges(src)
  BY <1>2, <1>3 DEF Edges
<1> QED
  BY <1>4, <1>5 DEF EdgesOnLines

(* What lies in front of a line is the image's own beginning.              *)
LEMMA Beginning ==
  ASSUME NEW src \in Seq(Text), NEW n \in 0 .. Len(src), NEW k \in 1 .. Addr(src, n)
  PROVE  Image(src)[k] = Image(Upto(src, n))[k]
<1> DEFINE P(m) == Image(Upto(src, m))
           S == {m \in 0 .. Len(src) : n <= m => P(m)[k] = P(n)[k]}
<1>1. Len(src) \in Nat /\ n \in Nat /\ Len(src) \in 0 .. Len(src) /\ n <= Len(src)
  OBVIOUS
<1>2. 0 \in S
  <2>1. 0 \in 0 .. Len(src) /\ (n <= 0 => n = 0)
    BY <1>1
  <2> QED
    BY <2>1
<1>3. ASSUME NEW m \in 0 .. Len(src) - 1, m \in S PROVE m + 1 \in S
  <2> DEFINE e == Bytes(src[m + 1])
  <2>1. m \in 0 .. Len(src) /\ m + 1 \in 0 .. Len(src) /\ (n <= m + 1 => n <= m \/ n = m + 1)
    BY <1>1
  <2>2. /\ P(m + 1) = P(m) \o e /\ P(m) \in Seq(STRING) /\ e \in Seq(STRING)
        /\ n <= m => Addr(src, n) <= Addr(src, m)
        /\ Addr(src, m) = Len(P(m)) /\ Addr(src, m) \in Nat /\ Addr(src, n) \in Nat
    BY <2>1, Addresses DEF Addr
  <2>3. n <= m => P(m)[k] = P(n)[k]
    BY <1>3
  <2> HIDE DEF P, e
  <2>4. CASE n <= m
    <3>1. k \in 1 .. Len(P(m))
      BY <2>2, <2>4
    <3>2. (P(m) \o e)[k] = P(m)[k]
      BY <2>2, <3>1, ConcatFacts
    <3> QED
      BY <2>1, <2>2, <2>3, <2>4, <3>2
  <2>5. CASE n = m + 1
    BY <2>1, <2>5
  <2> QED
    BY <2>1, <2>4, <2>5
<1>4. \A m \in 0 .. Len(src) : m \in S
  <2> HIDE DEF S
  <2> QED
    BY <1>1, <1>2, <1>3, Upwards
<1>5. P(Len(src)) = Image(src)
  BY Addresses
<1> QED
  BY <1>1, <1>4, <1>5

(* The bytes of a line are in the image behind those of the lines before.  *)
LEMMA LineBytes ==
  ASSUME NEW src \in Seq(Text), NEW n \in 0 .. Len(src) - 1, NEW j \in 1 .. Len(Bytes(src[n + 1]))
  PROVE  Image(src)[Addr(src, n) + j] = Bytes(src[n + 1])[j]
<1> DEFINE P(m) == Image(Upto(src, m))
           e == Bytes(src[n + 1])
<1>1. n \in 0 .. Len(src) /\ n + 1 \in 0 .. Len(src)
  OBVIOUS
<1>2. /\ P(n + 1) = P(n) \o e /\ P(n) \in Seq(STRING) /\ e \in Seq(STRING)
      /\ Addr(src, n) = Len(P(n)) /\ Addr(src, n + 1) = Addr(src, n) + Len(e) /\ Addr(src, n) \in Nat
  BY <1>1, Addresses DEF Addr
<1>3. j \in 1 .. Len(e) /\ Len(e) \in Nat
  BY <1>2
<1> HIDE DEF P, e
<1>4. P(n + 1)[Addr(src, n) + j] = e[j]
  BY <1>2, <1>3, ConcatFacts
<1>5. Addr(src, n) + j \in 1 .. Addr(src, n + 1)
  BY <1>2, <1>3
<1>6. Image(src)[Addr(src, n) + j] = P(n + 1)[Addr(src, n) + j]
  BY <1>1, <1>5, Beginning DEF P
<1> QED
  BY <1>4, <1>6 DEF e

-----------------------------------------------------------------------------
(* A source with patches through that keep the number of bytes, as         *)
(* patches.py asks of their author, and that share no line.                *)
LikeForLike(src, text, ps) ==
  /\ src \in Seq(Text) /\ text \in Seq(Text) /\ Len(text) = Len(src) /\ ps \in SUBSET Patches
  /\ PutThrough(src, text, ps)
  /\ \A p, q \in ps : p # q => Slots(p) \cap Slots(q) = {}
  /\ \A p \in ps : Len(Bytes(p.new)) = Len(Bytes(p.old))

From(src, p) == Addr(src, p.line - 1)
Over(p) == Len(Bytes(p.new))

(* The last slot of a patch.                                               *)
Final(p) == p.line + p.nlines - 1

(* The slots of an anchored patch hold the bytes of its old text.          *)
LEMMA SlotBytes ==
  ASSUME NEW src \in Seq(Text), NEW p \in Patches, Anchored(src, p)
  PROVE  /\ p.line \in 1 .. Len(src) /\ Final(p) \in 1 .. Len(src) /\ p.line <= Final(p)
         /\ Slots(p) = p.line .. Final(p)
         /\ Addr(src, Final(p)) = From(src, p) + Len(Bytes(p.old))
         /\ From(src, p) + Len(Bytes(p.old)) <= Len(Image(src))
         /\ \A j \in 1 .. Len(Bytes(p.old)) : Image(src)[From(src, p) + j] = Bytes(p.old)[j]
<1> DEFINE m == p.line - 1
           n == Final(p)
           mid == SubSeq(src, m + 1, n)
           A == Upto(src, m)
           B == Upto(src, n)
<1>1. p.line \in Nat \ {0} /\ p.nlines \in Nat \ {0} /\ p.old \in Text
  BY DEF Patches
<1>2. /\ m \in Nat /\ n \in Nat /\ m + 1 = p.line /\ m + 1 <= n /\ Slots(p) = m + 1 .. n
      /\ m + 1 \in m + 1 .. n /\ n \in m + 1 .. n
  <2>1. \A x, y \in Nat \ {0} :
          /\ x - 1 \in Nat /\ x + y - 1 \in Nat /\ (x - 1) + 1 = x /\ x <= x + y - 1
          /\ x \in x .. x + y - 1 /\ x + y - 1 \in x .. x + y - 1
    OBVIOUS
  <2>2. /\ m \in Nat /\ n \in Nat /\ m + 1 = p.line /\ p.line <= n
        /\ p.line \in p.line .. n /\ n \in p.line .. n
    BY <1>1, <2>1 DEF Final
  <2>3. Slots(p) = p.line .. n
    BY DEF Slots, Final
  <2> HIDE DEF m, n
  <2> QED
    BY <2>2, <2>3
<1>3. m + 1 .. n \subseteq 1 .. Len(src) /\ Len(src) \in Nat
  BY <1>2 DEF Anchored
<1>4. m \in 0 .. Len(src) /\ n \in 0 .. Len(src) /\ m + 1 \in 1 .. Len(src) /\ n \in 1 .. Len(src)
  <2>1. m + 1 \in 1 .. Len(src) /\ n \in 1 .. Len(src)
    BY <1>2, <1>3
  <2> QED
    BY <1>2, <1>3, <2>1
<1>5. FlattenSeq(mid) = p.old
  BY <1>2 DEF Anchored, Final
<1>6. /\ A \in Seq(Text) /\ Len(A) = m /\ \A i \in 1 .. m : A[i] = src[i]
      /\ B \in Seq(Text) /\ Len(B) = n /\ \A i \in 1 .. n : B[i] = src[i]
  BY <1>4, UptoFacts
<1>7. mid \in Seq(Text) /\ Len(mid) = n - m /\ \A i \in 1 .. n - m : mid[i] = src[m + i]
  <2>1. \A i \in m + 1 .. n : src[i] \in Text
    BY <1>3
  <2>2. /\ mid \in Seq(Text) /\ Len(mid) = n - (m + 1) + 1
        /\ \A i \in 1 .. n - (m + 1) + 1 : mid[i] = src[(m + 1) + i - 1]
    <3>1. m + 1 \in Int /\ n \in Int /\ m + 1 <= n
      BY <1>2
    <3> HIDE DEF m, n
    <3>2. /\ SubSeq(src, m + 1, n) \in Seq(Text) /\ Len(SubSeq(src, m + 1, n)) = n - (m + 1) + 1
          /\ \A i \in 1 .. n - (m + 1) + 1 : SubSeq(src, m + 1, n)[i] = src[(m + 1) + i - 1]
      BY <2>1, <3>1, SubSeqProperties
    <3> QED
      BY <3>2
  <2>3. n - (m + 1) + 1 = n - m /\ \A i \in 1 .. n - m : (m + 1) + i - 1 = m + i
    BY <1>2
  <2> HIDE DEF mid
  <2> QED
    BY <2>2, <2>3
<1> HIDE DEF A, B, mid, n, m
<1>8. B = A \o mid
  <2> DEFINE C == A \o mid
  <2>1. /\ C \in Seq(Text) /\ Len(C) = Len(A) + Len(mid)
        /\ \A i \in 1 .. Len(A) : C[i] = A[i]
        /\ \A i \in 1 .. Len(mid) : C[Len(A) + i] = mid[i]
    <3>1. \A x, y \in Seq(Text) : x \o y \in Seq(Text)
      BY Concat
    <3>2. C \in Seq(Text)
      BY <1>6, <1>7, <3>1
    <3>3. /\ Len(C) = Len(A) + Len(mid)
          /\ \A i \in 1 .. Len(A) + Len(mid) : C[i] = IF i <= Len(A) THEN A[i] ELSE mid[i - Len(A)]
      BY <1>6, <1>7, ConcatProperties
    <3>4. \A i \in 1 .. Len(A) : i \in 1 .. Len(A) + Len(mid) /\ i <= Len(A)
      BY <1>2, <1>6, <1>7
    <3>5. \A i \in 1 .. Len(mid) : /\ Len(A) + i \in 1 .. Len(A) + Len(mid) /\ ~(Len(A) + i <= Len(A))
                                   /\ (Len(A) + i) - Len(A) = i
      <4>1. \A x, y \in Nat : \A i \in 1 .. y :
              x + i \in 1 .. x + y /\ ~(x + i <= x) /\ (x + i) - x = i
        OBVIOUS
      <4>2. Len(A) \in Nat /\ Len(mid) \in Nat
        BY <1>6, <1>7
      <4> QED
        BY <4>1, <4>2
    <3> HIDE DEF C
    <3> QED
      BY <3>2, <3>3, <3>4, <3>5
  <2> HIDE DEF C
  <2>2. Len(C) = n
    BY <1>2, <1>6, <1>7, <2>1
  <2>3. ASSUME NEW i \in 1 .. n PROVE B[i] = C[i]
    <3>1. CASE i <= m
      <4>1. i \in 1 .. m
        BY <1>2, <3>1
      <4> QED
        BY <1>6, <2>1, <2>3, <4>1
    <3>2. CASE ~(i <= m)
      <4> DEFINE j == i - m
      <4>1. j \in 1 .. n - m /\ i = m + j
        BY <1>2, <3>2
      <4> HIDE DEF j
      <4>2. C[m + j] = mid[j] /\ mid[j] = src[m + j]
        BY <1>6, <1>7, <2>1, <4>1
      <4> QED
        BY <1>6, <2>3, <4>1, <4>2
    <3> QED
      BY <3>1, <3>2
  <2>4. B = C
    BY <1>6, <2>1, <2>2, <2>3, SeqEqual
  <2> QED
    BY <2>4 DEF C
<1>9. /\ FlattenSeq(A) \in Seq(Seq(STRING)) /\ p.old \in Seq(Seq(STRING))
      /\ FlattenSeq(B) = FlattenSeq(A) \o p.old
  <2>1. A \in Seq(Seq(Seq(STRING))) /\ mid \in Seq(Seq(Seq(STRING)))
    BY <1>6, <1>7 DEF Text
  <2>2. FlattenSeq(A) \in Seq(Seq(STRING))
    BY <2>1, FlattenType
  <2>3. FlattenSeq(A \o mid) = FlattenSeq(A) \o FlattenSeq(mid)
    BY <2>1, FlattenConcat
  <2> QED
    BY <1>1, <1>5, <1>8, <2>2, <2>3 DEF Text
<1>10. FlattenSeq(FlattenSeq(B)) = FlattenSeq(FlattenSeq(A)) \o FlattenSeq(p.old)
  BY <1>9, FlattenConcat
<1>11. FlattenSeq(FlattenSeq(A)) \in Seq(STRING) /\ FlattenSeq(p.old) \in Seq(STRING)
  BY <1>9, FlattenType
<1>12. /\ Len(Image(B)) = Len(Image(A)) + Len(Bytes(p.old))
       /\ \A j \in 1 .. Len(Bytes(p.old)) : Image(B)[Len(Image(A)) + j] = Bytes(p.old)[j]
  BY <1>10, <1>11, ConcatFacts DEF Image, Bytes
<1>13. Addr(src, n) = From(src, p) + Len(Bytes(p.old)) /\ From(src, p) = Len(Image(A)) /\ From(src, p) \in Nat
  <2>1. Addr(src, n) = Len(Image(B)) /\ Addr(src, m) = Len(Image(A)) /\ From(src, p) = Addr(src, m)
    BY DEF Addr, From, A, B, m
  <2>2. Addr(src, m) \in Nat
    BY <1>4, Addresses
  <2> QED
    BY <1>12, <2>1, <2>2
<1>14. Addr(src, n) <= Len(Image(src))
  <2>1. Addr(src, Len(src)) = Len(Image(src))
    BY Addresses DEF Addr
  <2>2. n <= Len(src) /\ Len(src) \in 0 .. Len(src)
    BY <1>4
  <2> QED
    BY <1>4, <2>1, <2>2, Addresses
<1>15. ASSUME NEW j \in 1 .. Len(Bytes(p.old))
       PROVE  Image(src)[From(src, p) + j] = Bytes(p.old)[j]
  <2>1. Len(Bytes(p.old)) \in Nat
    BY <1>11 DEF Bytes
  <2>2. From(src, p) + j \in 1 .. Addr(src, n)
    BY <1>13, <2>1
  <2>3. Image(src)[From(src, p) + j] = Image(Upto(src, n))[From(src, p) + j]
    BY <1>4, <2>2, Beginning
  <2>4. Upto(src, n) = B
    BY DEF B
  <2> QED
    BY <1>12, <1>13, <2>3, <2>4
<1>16. n = Final(p) /\ m + 1 = p.line
  BY <1>2 DEF n
<1> QED
  BY <1>2, <1>4, <1>13, <1>14, <1>15, <1>16

(* The slots of the patches that are through, and what is in them.         *)
LEMMA SlotFacts ==
  ASSUME NEW src, NEW text, NEW ps, LikeForLike(src, text, ps), NEW p \in ps
  PROVE  /\ p.line \in 1 .. Len(src) /\ Final(p) \in 1 .. Len(src) /\ p.line <= Final(p)
         /\ Slots(p) = p.line .. Final(p) /\ Len(src) \in Nat
         /\ From(src, p) \in Nat /\ Over(p) \in Nat /\ Bytes(p.new) \in Seq(STRING)
         /\ Addr(src, Final(p)) = From(src, p) + Over(p)
         /\ text[p.line] = p.new /\ \A n \in Slots(p) \ {p.line} : text[n] = <<>>
         /\ \A q \in ps, n \in Slots(p) : n \in Slots(q) => q = p
<1>1. /\ src \in Seq(Text) /\ p \in Patches /\ Anchored(src, p)
      /\ text[p.line] = p.new /\ \A n \in Slots(p) \ {p.line} : text[n] = <<>>
      /\ Len(Bytes(p.new)) = Len(Bytes(p.old))
  BY DEF LikeForLike, PutThrough
<1>2. /\ p.line \in 1 .. Len(src) /\ Final(p) \in 1 .. Len(src) /\ p.line <= Final(p)
      /\ Slots(p) = p.line .. Final(p)
      /\ Addr(src, Final(p)) = From(src, p) + Len(Bytes(p.old))
  BY <1>1, SlotBytes
<1>3. Bytes(p.new) \in Seq(STRING)
  <2>1. p.new \in Seq(Seq(STRING))
    BY <1>1 DEF Patches, Text
  <2> QED
    BY <2>1, FlattenType DEF Bytes
<1>4. p.line - 1 \in 0 .. Len(src) /\ Len(src) \in Nat
  BY <1>1, <1>2
<1>5. From(src, p) \in Nat
  BY <1>1, <1>4, Addresses DEF From
<1>6. \A q \in ps, n \in Slots(p) : n \in Slots(q) => q = p
  BY DEF LikeForLike
<1> QED
  BY <1>1, <1>2, <1>3, <1>4, <1>5, <1>6 DEF Over

(* Between lines, both sources are at the same address; amid the slots of  *)
(* a patch, the patched one is already behind the patch.                   *)
Amid(p, n) == p.line <= n /\ n < Final(p)
Level(src, text, ps, n) ==
  /\ (\A p \in ps : ~Amid(p, n)) => Addr(text, n) = Addr(src, n)
  /\ \A p \in ps : Amid(p, n) => Addr(text, n) = From(src, p) + Over(p)

(* What the next line is: a patch, a blank slot behind it, or untouched.   *)
Opens(src, text, p, n) ==
  n + 1 = p.line /\ Addr(text, n) = From(src, p) /\ Addr(src, n) = From(src, p) /\ text[n + 1] = p.new
Blank(text, p, n) == Amid(p, n) /\ n + 1 \in Slots(p) /\ Bytes(text[n + 1]) = <<>>
Untouched(src, text, ps, n) ==
  /\ \A p \in ps : n + 1 \notin Slots(p)
  /\ Addr(text, n) = Addr(src, n) /\ text[n + 1] = src[n + 1]
Kind(src, text, ps, n) ==
  \/ \E p \in ps : Opens(src, text, p, n) \/ Blank(text, p, n)
  \/ Untouched(src, text, ps, n)

LEMMA LineKind ==
  ASSUME NEW src, NEW text, NEW ps, LikeForLike(src, text, ps),
         NEW n \in 0 .. Len(src) - 1, Level(src, text, ps, n)
  PROVE  Kind(src, text, ps, n)
<1>1. src \in Seq(Text) /\ n \in Nat /\ n + 1 \in DOMAIN src /\ (n + 1) - 1 = n
  <2>1. src \in Seq(Text)
    BY DEF LikeForLike
  <2> QED
    BY <2>1
<1>2. ASSUME NEW p \in ps, Amid(p, n) PROVE n + 1 \in Slots(p) /\ n + 1 # p.line
  <2>1. p.line \in Nat /\ Final(p) \in Nat /\ Slots(p) = p.line .. Final(p)
    BY SlotFacts
  <2> QED
    BY <1>1, <1>2, <2>1 DEF Amid
<1>3. CASE \E p \in ps : n + 1 = p.line
  <2>1. PICK p \in ps : n + 1 = p.line
    BY <1>3
  <2>2. n + 1 \in Slots(p) /\ text[n + 1] = p.new /\ From(src, p) = Addr(src, n)
    <3>1. p.line \in Nat /\ Final(p) \in Nat /\ p.line <= Final(p) /\ Slots(p) = p.line .. Final(p) /\ text[p.line] = p.new
      BY SlotFacts
    <3> QED
      BY <1>1, <2>1, <3>1 DEF From
  <2>3. \A q \in ps : ~Amid(q, n)
    <3> SUFFICES ASSUME NEW q \in ps, Amid(q, n) PROVE FALSE
      OBVIOUS
    <3>1. n + 1 \in Slots(q) /\ n + 1 # q.line
      BY <1>2
    <3>2. q = p
      BY <2>2, <3>1, SlotFacts
    <3> QED
      BY <2>1, <3>1, <3>2
  <2>4. Addr(text, n) = Addr(src, n)
    BY <2>3 DEF Level
  <2>5. Opens(src, text, p, n)
    BY <2>1, <2>2, <2>4 DEF Opens
  <2> QED
    BY <2>5 DEF Kind
<1>4. CASE \E p \in ps : n + 1 # p.line /\ n + 1 \in Slots(p)
  <2>1. PICK p \in ps : n + 1 # p.line /\ n + 1 \in Slots(p)
    BY <1>4
  <2>2. /\ p.line \in Nat /\ Final(p) \in Nat /\ Slots(p) = p.line .. Final(p)
        /\ \A i \in Slots(p) \ {p.line} : text[i] = <<>>
    BY SlotFacts
  <2>3. Amid(p, n)
    BY <1>1, <2>1, <2>2 DEF Amid
  <2>4. Bytes(text[n + 1]) = <<>>
    BY <2>1, <2>2, FlattenEmpty DEF Bytes
  <2>5. Blank(text, p, n)
    BY <2>1, <2>3, <2>4 DEF Blank
  <2> QED
    BY <2>5 DEF Kind
<1>5. CASE \A p \in ps : n + 1 \notin Slots(p)
  <2>1. \A p \in ps : ~Amid(p, n)
    BY <1>2, <1>5
  <2>2. Addr(text, n) = Addr(src, n)
    BY <2>1 DEF Level
  <2>3. text[n + 1] = src[n + 1]
    BY <1>1, <1>5 DEF LikeForLike, PutThrough
  <2>4. Untouched(src, text, ps, n)
    BY <1>5, <2>2, <2>3 DEF Untouched
  <2> QED
    BY <2>4 DEF Kind
<1> QED
  BY <1>3, <1>4, <1>5

(* The next line adds its own bytes, in both sources.                      *)
LEMMA NextLine ==
  ASSUME NEW src, NEW text, NEW ps, LikeForLike(src, text, ps), NEW n \in 0 .. Len(src) - 1
  PROVE  /\ src \in Seq(Text) /\ text \in Seq(Text) /\ Len(text) = Len(src) /\ Len(src) \in Nat
         /\ n \in Nat /\ n \in 0 .. Len(src) /\ n + 1 \in 0 .. Len(src)
         /\ Addr(src, n) \in Nat /\ Addr(text, n) \in Nat
         /\ Addr(src, n + 1) = Addr(src, n) + Len(Bytes(src[n + 1]))
         /\ Addr(text, n + 1) = Addr(text, n) + Len(Bytes(text[n + 1]))
         /\ Image(Upto(text, n)) \in Seq(STRING) /\ Len(Image(Upto(text, n))) = Addr(text, n)
         /\ Bytes(src[n + 1]) \in Seq(STRING) /\ Bytes(text[n + 1]) \in Seq(STRING)
         /\ Image(Upto(text, n + 1)) = Image(Upto(text, n)) \o Bytes(text[n + 1])
<1>1. src \in Seq(Text) /\ text \in Seq(Text) /\ Len(text) = Len(src) /\ Len(src) \in Nat
  BY DEF LikeForLike
<1>2. n \in Nat /\ n \in 0 .. Len(src) /\ n + 1 \in 0 .. Len(src)
  BY <1>1
<1>3. /\ Addr(src, n) \in Nat /\ Bytes(src[n + 1]) \in Seq(STRING)
      /\ Addr(src, n + 1) = Addr(src, n) + Len(Bytes(src[n + 1]))
  BY <1>1, <1>2, Addresses
<1>4. n \in 0 .. Len(text) - 1 /\ n \in 0 .. Len(text)
  BY <1>1, <1>2
<1>5. /\ Addr(text, n) \in Nat /\ Bytes(text[n + 1]) \in Seq(STRING)
      /\ Addr(text, n + 1) = Addr(text, n) + Len(Bytes(text[n + 1]))
      /\ Image(Upto(text, n)) \in Seq(STRING)
      /\ Image(Upto(text, n + 1)) = Image(Upto(text, n)) \o Bytes(text[n + 1])
  BY <1>1, <1>4, Addresses
<1>6. Len(Image(Upto(text, n))) = Addr(text, n)
  BY DEF Addr
<1> QED
  BY <1>1, <1>2, <1>3, <1>5, <1>6

(* At every line the two sources are level, and every line is of a kind.   *)
LEMMA Levels ==
  ASSUME NEW src, NEW text, NEW ps, LikeForLike(src, text, ps)
  PROVE  /\ \A n \in 0 .. Len(src) : Level(src, text, ps, n)
         /\ \A n \in 0 .. Len(src) - 1 : Kind(src, text, ps, n)
<1> DEFINE S == {n \in 0 .. Len(src) : Level(src, text, ps, n)}
<1>1. src \in Seq(Text) /\ text \in Seq(Text) /\ Len(text) = Len(src) /\ Len(src) \in Nat
  BY DEF LikeForLike
<1>2. 0 \in S
  <2>1. Addr(src, 0) = 0 /\ Addr(text, 0) = 0
    BY <1>1, Addresses
  <2>2. \A p \in ps : ~Amid(p, 0)
    <3> TAKE p \in ps
    <3>1. p.line \in 1 .. Len(src)
      BY SlotFacts
    <3> QED
      BY <1>1, <3>1 DEF Amid
  <2>3. Level(src, text, ps, 0)
    BY <2>1, <2>2 DEF Level
  <2>4. 0 \in 0 .. Len(src)
    BY <1>1
  <2> QED
    BY <2>3, <2>4
<1>3. ASSUME NEW n \in 0 .. Len(src) - 1, n \in S PROVE n + 1 \in S
  <2> DEFINE e == Bytes(text[n + 1])
  <2>1. /\ n \in Nat /\ n + 1 \in 0 .. Len(src) /\ Addr(src, n) \in Nat /\ Addr(text, n) \in Nat
        /\ Addr(src, n + 1) = Addr(src, n) + Len(Bytes(src[n + 1]))
        /\ Addr(text, n + 1) = Addr(text, n) + Len(e)
    BY NextLine
  <2>2. Kind(src, text, ps, n)
    BY <1>3, LineKind
  <2>3. ASSUME NEW q \in ps, Amid(q, n + 1) PROVE n + 1 \in Slots(q)
    <3>1. q.line \in Nat /\ Final(q) \in Nat /\ Slots(q) = q.line .. Final(q)
      BY SlotFacts
    <3> QED
      BY <2>1, <2>3, <3>1 DEF Amid
  <2>4. ASSUME NEW p \in ps, n + 1 \in Slots(p), Addr(text, n + 1) = From(src, p) + Over(p)
        PROVE  Level(src, text, ps, n + 1)
    <3>1. ASSUME NEW q \in ps, Amid(q, n + 1) PROVE Addr(text, n + 1) = From(src, q) + Over(q)
      <4>1. q = p
        BY <2>3, <2>4, <3>1, SlotFacts
      <4> QED
        BY <2>4, <4>1
    <3>2. ASSUME ~Amid(p, n + 1) PROVE Addr(text, n + 1) = Addr(src, n + 1)
      <4>1. p.line \in Nat /\ Final(p) \in Nat /\ Slots(p) = p.line .. Final(p) /\ Addr(src, Final(p)) = From(src, p) + Over(p)
        BY SlotFacts
      <4>2. n + 1 = Final(p)
        BY <2>1, <2>4, <3>2, <4>1 DEF Amid
      <4> QED
        BY <2>4, <4>1, <4>2
    <3> QED
      BY <3>1, <3>2 DEF Level
  <2>5. CASE \E p \in ps : Opens(src, text, p, n)
    <3>1. PICK p \in ps : Opens(src, text, p, n)
      BY <2>5
    <3>2. Addr(text, n + 1) = From(src, p) + Over(p)
      BY <2>1, <3>1 DEF Opens, Over
    <3>3. n + 1 \in Slots(p)
      <4>1. p.line \in Nat /\ Final(p) \in Nat /\ p.line <= Final(p) /\ Slots(p) = p.line .. Final(p)
        BY SlotFacts
      <4> QED
        BY <3>1, <4>1 DEF Opens
    <3> QED
      BY <2>4, <3>2, <3>3
  <2>6. CASE \E p \in ps : Blank(text, p, n)
    <3>1. PICK p \in ps : Blank(text, p, n)
      BY <2>6
    <3>2. Addr(text, n) = From(src, p) + Over(p)
      BY <1>3, <3>1 DEF Level, Blank
    <3>3. Len(e) = 0
      BY <3>1 DEF Blank
    <3>4. Addr(text, n + 1) = From(src, p) + Over(p)
      BY <2>1, <3>2, <3>3
    <3> QED
      BY <2>4, <3>1, <3>4 DEF Blank
  <2>7. CASE Untouched(src, text, ps, n)
    <3>1. Addr(text, n + 1) = Addr(src, n + 1)
      BY <2>1, <2>7 DEF Untouched
    <3>2. \A q \in ps : ~Amid(q, n + 1)
      BY <2>3, <2>7 DEF Untouched
    <3> QED
      BY <3>1, <3>2 DEF Level
  <2>8. Level(src, text, ps, n + 1)
    BY <2>2, <2>5, <2>6, <2>7 DEF Kind
  <2> QED
    BY <2>1, <2>8
<1>4. \A n \in 0 .. Len(src) : n \in S
  <2> HIDE DEF S
  <2> QED
    BY <1>1, <1>2, <1>3, Upwards
<1>5. \A n \in 0 .. Len(src) : Level(src, text, ps, n)
  BY <1>4
<1>6. ASSUME NEW n \in 0 .. Len(src) - 1 PROVE Kind(src, text, ps, n)
  <2>1. n \in 0 .. Len(src)
    BY <1>1
  <2> QED
    BY <1>5, <2>1, LineKind
<1> QED
  BY <1>5, <1>6

(* At the end they are level: the image has its size.                      *)
LEMMA SameSize ==
  ASSUME NEW src, NEW text, NEW ps, LikeForLike(src, text, ps)
  PROVE  Len(Image(text)) = Len(Image(src)) /\ Addr(text, Len(src)) = Len(Image(text))
<1>1. src \in Seq(Text) /\ text \in Seq(Text) /\ Len(text) = Len(src) /\ Len(src) \in Nat
  BY DEF LikeForLike
<1>2. Len(src) \in 0 .. Len(src) /\ Level(src, text, ps, Len(src))
  BY <1>1, Levels
<1>3. \A p \in ps : ~Amid(p, Len(src))
  <2> TAKE p \in ps
  <2>1. Final(p) \in 1 .. Len(src)
    BY SlotFacts
  <2> QED
    BY <1>1, <2>1 DEF Amid
<1>4. Addr(text, Len(src)) = Addr(src, Len(src))
  BY <1>2, <1>3 DEF Level
<1>5. Addr(text, Len(src)) = Len(Image(text)) /\ Addr(src, Len(src)) = Len(Image(src))
  BY <1>1, Addresses DEF Addr
<1> QED
  BY <1>4, <1>5

(* The first n lines of the patched source: every patch begun has its      *)
(* bytes from the address of its first slot on, and every byte no patch is *)
(* over is the old one.                                                    *)
Hits(src, p, k) == From(src, p) < k /\ k <= From(src, p) + Over(p)
Bytewise(src, text, ps, n) ==
  /\ \A p \in ps : p.line <= n =>
       /\ From(src, p) + Over(p) <= Addr(text, n)
       /\ \A j \in 1 .. Over(p) : Image(Upto(text, n))[From(src, p) + j] = Bytes(p.new)[j]
  /\ \A k \in 1 .. Addr(text, n) :
       (\A p \in ps : ~Hits(src, p, k)) => Image(Upto(text, n))[k] = Image(src)[k]

LEMMA BytewiseStep ==
  ASSUME NEW src, NEW text, NEW ps, LikeForLike(src, text, ps),
         NEW n \in 0 .. Len(src) - 1, Bytewise(src, text, ps, n)
  PROVE  Bytewise(src, text, ps, n + 1)
<1> DEFINE P == Image(Upto(text, n))
           Q == Image(Upto(text, n + 1))
           e == Bytes(text[n + 1])
<1>1. /\ src \in Seq(Text) /\ n \in Nat /\ Addr(text, n) \in Nat /\ Len(P) = Addr(text, n)
      /\ Addr(text, n + 1) = Addr(text, n) + Len(e)
      /\ P \in Seq(STRING) /\ e \in Seq(STRING) /\ Q = P \o e
  BY NextLine
<1>2. Kind(src, text, ps, n)
  BY Levels
<1> HIDE DEF P, Q, e
<1>3. /\ \A k \in 1 .. Addr(text, n) : Q[k] = P[k]
      /\ \A j \in 1 .. Len(e) : Q[Addr(text, n) + j] = e[j]
      /\ Len(e) \in Nat
  <2>1. P \in Seq(STRING) /\ e \in Seq(STRING)
    BY <1>1
  <2>2. /\ \A k \in 1 .. Len(P) : (P \o e)[k] = P[k]
        /\ \A j \in 1 .. Len(e) : (P \o e)[Len(P) + j] = e[j]
    BY <2>1, ConcatFacts
  <2>3. Len(e) \in Nat
    BY <2>1
  <2> QED
    BY <1>1, <2>2, <2>3, Zenon
<1>4. ASSUME NEW p \in ps, p.line <= n
      PROVE  /\ From(src, p) + Over(p) <= Addr(text, n + 1)
             /\ \A j \in 1 .. Over(p) : Q[From(src, p) + j] = Bytes(p.new)[j]
  <2>1. /\ From(src, p) + Over(p) <= Addr(text, n)
        /\ \A j \in 1 .. Over(p) : P[From(src, p) + j] = Bytes(p.new)[j]
    BY <1>4 DEF Bytewise, P
  <2>2. From(src, p) \in Nat /\ Over(p) \in Nat
    BY SlotFacts
  <2>3. From(src, p) + Over(p) <= Addr(text, n + 1)
    BY <1>1, <1>3, <2>1, <2>2
  <2>4. \A j \in 1 .. Over(p) : From(src, p) + j \in 1 .. Addr(text, n)
    BY <1>1, <2>1, <2>2, Within
  <2> QED
    BY <1>3, <2>1, <2>3, <2>4
<1>5. ASSUME NEW p \in ps, p.line = n + 1
      PROVE  /\ From(src, p) + Over(p) <= Addr(text, n + 1)
             /\ \A j \in 1 .. Over(p) : Q[From(src, p) + j] = Bytes(p.new)[j]
  <2>1. n + 1 \in Slots(p)
    <3>1. p.line \in Nat /\ Final(p) \in Nat /\ p.line <= Final(p) /\ Slots(p) = p.line .. Final(p)
      BY SlotFacts
    <3> QED
      BY <1>5, <3>1
  <2>2. ~Untouched(src, text, ps, n)
    BY <2>1 DEF Untouched
  <2>3. PICK q \in ps : Opens(src, text, q, n) \/ Blank(text, q, n)
    BY <1>2, <2>2 DEF Kind
  <2>4. n + 1 \in Slots(q)
    <3>1. q.line \in Nat /\ Final(q) \in Nat /\ q.line <= Final(q) /\ Slots(q) = q.line .. Final(q)
      BY SlotFacts
    <3> QED
      BY <2>3, <3>1 DEF Opens, Blank
  <2>5. q = p
    BY <2>1, <2>4, SlotFacts
  <2>6. ~Blank(text, p, n)
    BY <1>1, <1>5 DEF Blank, Amid
  <2>7. Addr(text, n) = From(src, p) /\ e = Bytes(p.new) /\ Len(e) = Over(p)
    BY <2>3, <2>5, <2>6 DEF Opens, Over, e
  <2>8. From(src, p) + Over(p) <= Addr(text, n + 1)
    BY <1>1, <1>3, <2>7
  <2> QED
    BY <1>3, <2>7, <2>8
<1>6. ASSUME NEW p \in ps, p.line <= n + 1 PROVE p.line <= n \/ p.line = n + 1
  <2>1. p.line \in Nat
    BY SlotFacts
  <2> QED
    BY <1>1, <1>6, <2>1
<1>7. ASSUME NEW k \in 1 .. Addr(text, n + 1), \A p \in ps : ~Hits(src, p, k)
      PROVE  Q[k] = Image(src)[k]
  <2>1. CASE k <= Addr(text, n)
    <3>1. k \in 1 .. Addr(text, n)
      BY <1>1, <2>1
    <3>2. P[k] = Image(src)[k]
      BY <1>7, <3>1 DEF Bytewise, P
    <3> QED
      BY <1>3, <3>1, <3>2
  <2>2. CASE ~(k <= Addr(text, n))
    <3> DEFINE j == k - Addr(text, n)
    <3>1. j \in 1 .. Len(e) /\ k = Addr(text, n) + j
      BY <1>1, <1>3, <2>2
    <3> HIDE DEF j
    <3>2. ~\E p \in ps : Opens(src, text, p, n)
      <4> SUFFICES ASSUME NEW p \in ps, Opens(src, text, p, n) PROVE FALSE
        OBVIOUS
      <4>1. Addr(text, n) = From(src, p) /\ Len(e) = Over(p)
        BY DEF Opens, Over, e
      <4>2. Hits(src, p, k)
        BY <1>1, <1>3, <3>1, <4>1 DEF Hits
      <4> QED
        BY <1>7, <4>2
    <3>3. ~\E p \in ps : Blank(text, p, n)
      <4> SUFFICES ASSUME NEW p \in ps, Blank(text, p, n) PROVE FALSE
        OBVIOUS
      <4>1. Len(e) = 0
        BY DEF Blank, e
      <4> QED
        BY <3>1, <4>1
    <3>4. Addr(text, n) = Addr(src, n) /\ e = Bytes(src[n + 1])
      BY <1>2, <3>2, <3>3 DEF Kind, Untouched, e
    <3>5. Image(src)[Addr(src, n) + j] = Bytes(src[n + 1])[j]
      BY <1>1, <3>1, <3>4, LineBytes
    <3> QED
      BY <1>3, <3>1, <3>4, <3>5
  <2> QED
    BY <2>1, <2>2
<1> QED
  BY <1>4, <1>5, <1>6, <1>7 DEF Bytewise, Q

(* So the image has each patch over its own bytes, and is the old one in   *)
(* every other place.                                                      *)
LEMMA BytesPut ==
  ASSUME NEW src, NEW text, NEW ps, LikeForLike(src, text, ps)
  PROVE  /\ \A p \in ps : /\ From(src, p) + Over(p) <= Len(Image(text))
                          /\ \A j \in 1 .. Over(p) : Image(text)[From(src, p) + j] = Bytes(p.new)[j]
         /\ \A k \in 1 .. Len(Image(text)) :
              (\A p \in ps : ~Hits(src, p, k)) => Image(text)[k] = Image(src)[k]
<1> DEFINE S == {n \in 0 .. Len(src) : Bytewise(src, text, ps, n)}
<1>1. src \in Seq(Text) /\ text \in Seq(Text) /\ Len(text) = Len(src) /\ Len(src) \in Nat
  BY DEF LikeForLike
<1>2. 0 \in S
  <2>1. Addr(text, 0) = 0
    BY <1>1, Addresses
  <2>2. \A p \in ps : ~(p.line <= 0)
    <3> TAKE p \in ps
    <3>1. p.line \in 1 .. Len(src)
      BY SlotFacts
    <3> QED
      BY <1>1, <3>1
  <2>3. Bytewise(src, text, ps, 0)
    BY <2>1, <2>2 DEF Bytewise
  <2>4. 0 \in 0 .. Len(src)
    BY <1>1
  <2> QED
    BY <2>3, <2>4
<1>3. ASSUME NEW n \in 0 .. Len(src) - 1, n \in S PROVE n + 1 \in S
  <2>1. n + 1 \in 0 .. Len(src)
    BY <1>1
  <2>2. Bytewise(src, text, ps, n + 1)
    BY <1>3, BytewiseStep
  <2> QED
    BY <2>1, <2>2
<1>4. Bytewise(src, text, ps, Len(src))
  <2>1. Len(src) \in 0 .. Len(src)
    BY <1>1
  <2>2. \A n \in 0 .. Len(src) : n \in S
    <3> HIDE DEF S
    <3> QED
      BY <1>1, <1>2, <1>3, Upwards
  <2> QED
    BY <2>1, <2>2
<1>5. Image(Upto(text, Len(src))) = Image(text) /\ Addr(text, Len(src)) = Len(Image(text))
  BY <1>1, Addresses, SameSize
<1>6. \A p \in ps : p.line <= Len(src)
  <2> TAKE p \in ps
  <2>1. p.line \in 1 .. Len(src)
    BY SlotFacts
  <2> QED
    BY <1>1, <2>1
<1> QED
  BY <1>4, <1>5, <1>6 DEF Bytewise

(* Two disassemblies of the same bytes, with the same patches through at   *)
(* the same addresses, are two sources of the same bytes again.            *)
LEMMA SameBytes ==
  ASSUME NEW src1, NEW text1, NEW src2, NEW text2, NEW ps,
         LikeForLike(src1, text1, ps), LikeForLike(src2, text2, ps),
         Image(src1) = Image(src2), \A p \in ps : From(src1, p) = From(src2, p)
  PROVE  Image(text1) = Image(text2)
<1> DEFINE A == Image(text1)
           B == Image(text2)
<1>1. A \in Seq(STRING) /\ B \in Seq(STRING)
  <2>1. text1 \in Seq(Text) /\ text2 \in Seq(Text) /\ <<>> \in Text
    BY DEF LikeForLike, Text
  <2> QED
    BY <2>1, ImageAppend
<1>2. Len(A) = Len(B)
  BY SameSize
<1>3. ASSUME NEW k \in 1 .. Len(A) PROVE A[k] = B[k]
  <2>1. CASE \E p \in ps : Hits(src1, p, k)
    <3>1. PICK p \in ps : Hits(src1, p, k)
      BY <2>1
    <3> DEFINE j == k - From(src1, p)
    <3>2. j \in 1 .. Over(p) /\ k = From(src1, p) + j /\ From(src1, p) = From(src2, p)
      <4>1. From(src1, p) \in Nat /\ Over(p) \in Nat
        BY SlotFacts
      <4> QED
        BY <3>1, <4>1 DEF Hits
    <3> HIDE DEF j
    <3>3. A[From(src1, p) + j] = Bytes(p.new)[j] /\ B[From(src2, p) + j] = Bytes(p.new)[j]
      BY <3>2, BytesPut
    <3> QED
      BY <3>2, <3>3
  <2>2. CASE \A p \in ps : ~Hits(src1, p, k)
    <3>1. \A p \in ps : ~Hits(src2, p, k)
      BY <2>2 DEF Hits
    <3>2. A[k] = Image(src1)[k]
      BY <2>2, BytesPut
    <3>3. B[k] = Image(src2)[k]
      BY <1>2, <3>1, BytesPut
    <3> QED
      BY <3>2, <3>3
  <2> QED
    BY <2>1, <2>2
<1> HIDE DEF A, B
<1>4. A = B
  BY <1>1, <1>2, <1>3, SeqEqual
<1> QED
  BY <1>4 DEF A, B

-----------------------------------------------------------------------------
(* The lines filed under a region: those that begin in it before the       *)
(* patches.  No edge of the region is amid what a patch is over.           *)
Filed(src, text, r) ==
  FlattenSeq([n \in DOMAIN text |->
                IF r.lo <= Addr(src, n - 1) /\ Addr(src, n - 1) < r.hi THEN text[n] ELSE <<>>])
Clear(src, ps, x) == \A p \in ps : From(src, p) < x => From(src, p) + Over(p) <= x

(* A region gets the bytes that lie between its edges, because its edges   *)
(* are between lines and not within a patch.                               *)
LEMMA FiledRight ==
  ASSUME NEW src, NEW text, NEW ps, LikeForLike(src, text, ps), NEW r,
         r.lo \in Edges(src), r.hi \in Edges(src), Clear(src, ps, r.lo), Clear(src, ps, r.hi),
         r.lo \in Nat, r.hi \in Nat, r.lo <= r.hi, r.hi <= Len(Image(src))
  PROVE  /\ Filed(src, text, r) \in Text /\ Len(Bytes(Filed(src, text, r))) = r.hi - r.lo
         /\ \A k \in 1 .. r.hi - r.lo : Bytes(Filed(src, text, r))[k] = Image(text)[r.lo + k]
<1> DEFINE In(n) == r.lo <= Addr(src, n - 1) /\ Addr(src, n - 1) < r.hi
           sel == [n \in DOMAIN text |-> IF In(n) THEN text[n] ELSE <<>>]
           P(n) == Image(Upto(text, n))
           Q(n) == Image(Upto(sel, n))
           S == {n \in 0 .. Len(src) : Clipped(P(n), Q(n), r.lo, r.hi)}
<1>1. /\ src \in Seq(Text) /\ text \in Seq(Text) /\ Len(text) = Len(src) /\ Len(src) \in Nat
      /\ DOMAIN text = 1 .. Len(src)
  BY DEF LikeForLike
<1>2. <<>> \in Text /\ Bytes(<<>>) = <<>>
  BY FlattenEmpty DEF Text, Bytes
<1> HIDE DEF In
<1>3. /\ sel \in Seq(Text) /\ Len(sel) = Len(src)
      /\ \A n \in 1 .. Len(src) : sel[n] = IF In(n) THEN text[n] ELSE <<>>
  <2>1. \A n \in 1 .. Len(src) : text[n] \in Text
    BY <1>1
  <2>2. sel = [n \in 1 .. Len(src) |-> IF In(n) THEN text[n] ELSE <<>>]
    BY <1>1
  <2> QED
    BY <1>1, <1>2, <2>1, <2>2
<1> HIDE DEF sel
<1>4. 0 \in S
  <2>1. P(0) = <<>> /\ Q(0) = <<>>
    BY <1>1, <1>3, Addresses
  <2> HIDE DEF P, Q
  <2>2. Len(<<>>) = 0
    OBVIOUS
  <2>3. Clipped(P(0), Q(0), r.lo, r.hi)
    BY <2>1, <2>2 DEF Clipped
  <2>4. 0 \in 0 .. Len(src)
    BY <1>1
  <2> QED
    BY <2>3, <2>4
<1>5. ASSUME NEW n \in 0 .. Len(src) - 1, n \in S PROVE n + 1 \in S
  <2> DEFINE e == Bytes(text[n + 1])
             here == r.lo <= Len(P(n)) /\ Len(P(n)) < r.hi
  <2>1. /\ n \in Nat /\ n + 1 \in 0 .. Len(src) /\ n + 1 \in 1 .. Len(src) /\ (n + 1) - 1 = n
        /\ n \in 0 .. Len(sel) - 1 /\ n \in 0 .. Len(sel)
    BY <1>1, <1>3
  <2>2. /\ P(n + 1) = P(n) \o e /\ P(n) \in Seq(STRING) /\ e \in Seq(STRING)
        /\ Len(P(n)) = Addr(text, n) /\ Addr(text, n) \in Nat
        /\ Addr(src, n) \in Nat /\ Addr(src, n + 1) = Addr(src, n) + Len(Bytes(src[n + 1]))
    BY NextLine
  <2>3. In(n + 1) <=> r.lo <= Addr(src, n) /\ Addr(src, n) < r.hi
    BY <2>1 DEF In
  <2>4. Q(n + 1) = Q(n) \o (IF In(n + 1) THEN e ELSE <<>>) /\ Q(n) \in Seq(STRING)
    <3>1. Q(n + 1) = Q(n) \o Bytes(sel[n + 1]) /\ Q(n) \in Seq(STRING)
      BY <1>3, <2>1, Addresses
    <3>2. Bytes(sel[n + 1]) = IF In(n + 1) THEN e ELSE <<>>
      BY <1>2, <1>3, <2>1
    <3> QED
      BY <3>1, <3>2
  <2>5. Kind(src, text, ps, n)
    BY Levels
  <2>6. (IF In(n + 1) THEN e ELSE <<>>) = (IF here THEN e ELSE <<>>)
    <3>1. Addr(text, n) = Addr(src, n) \/ e = <<>>
      BY <2>5 DEF Kind, Opens, Blank, Untouched
    <3> QED
      BY <2>2, <2>3, <3>1
  <2>7. ASSUME NEW x \in {r.lo, r.hi}, Addr(text, n) < x PROVE Addr(text, n) + Len(e) <= x
    <3>1. x \in Nat /\ Clear(src, ps, x) /\ x \in Edges(src)
      OBVIOUS
    <3>2. CASE \E p \in ps : Opens(src, text, p, n)
      <4>1. PICK p \in ps : Opens(src, text, p, n)
        BY <3>2
      <4>2. Addr(text, n) = From(src, p) /\ Len(e) = Over(p)
        BY <4>1 DEF Opens, Over
      <4> QED
        BY <2>7, <3>1, <4>2 DEF Clear
    <3>3. CASE \E p \in ps : Blank(text, p, n)
      <4>1. Len(e) = 0
        BY <3>3 DEF Blank
      <4> QED
        BY <2>2, <2>7, <3>1, <4>1
    <3>4. CASE Untouched(src, text, ps, n)
      <4>1. Addr(text, n) = Addr(src, n) /\ e = Bytes(src[n + 1])
        BY <3>4 DEF Untouched
      <4>2. Addr(src, n + 1) <= x
        BY <1>1, <2>7, <3>1, <4>1, EdgeStops
      <4> QED
        BY <2>2, <4>1, <4>2
    <3> QED
      BY <2>5, <3>2, <3>3, <3>4 DEF Kind
  <2>8. Len(P(n)) < r.lo => Len(P(n)) + Len(e) <= r.lo
    BY <2>2, <2>7
  <2>9. Len(P(n)) < r.hi => Len(P(n)) + Len(e) <= r.hi
    BY <2>2, <2>7
  <2>10. Clipped(P(n), Q(n), r.lo, r.hi)
    BY <1>5
  <2> HIDE DEF P, Q, e
  <2>11. Clipped(P(n) \o e, Q(n) \o (IF here THEN e ELSE <<>>), r.lo, r.hi)
    BY <2>2, <2>4, <2>8, <2>9, <2>10, ClipStep
  <2>12. Clipped(P(n + 1), Q(n + 1), r.lo, r.hi)
    BY <2>2, <2>4, <2>6, <2>11
  <2> QED
    BY <2>1, <2>12
<1>6. Len(src) \in S
  <2>1. Len(src) \in 0 .. Len(src)
    BY <1>1
  <2> HIDE DEF S
  <2> QED
    BY <1>1, <1>4, <1>5, <2>1, Upwards
<1>7. P(Len(src)) = Image(text) /\ Q(Len(src)) = Image(sel)
  BY <1>1, <1>3, Addresses
<1>8. Filed(src, text, r) = FlattenSeq(sel) /\ Bytes(Filed(src, text, r)) = Image(sel)
  BY DEF Filed, sel, In, Image
<1>9. Filed(src, text, r) \in Text
  <2>1. sel \in Seq(Seq(Seq(STRING)))
    BY <1>3 DEF Text
  <2> QED
    BY <1>8, <2>1, FlattenType DEF Text
<1>10. Clipped(Image(text), Image(sel), r.lo, r.hi)
  BY <1>6, <1>7
<1>11. r.hi <= Len(Image(text))
  BY SameSize
<1>12. Len(Image(sel)) = r.hi - r.lo
  BY <1>10, <1>11 DEF Clipped
<1> QED
  BY <1>8, <1>9, <1>10, <1>12 DEF Clipped

-----------------------------------------------------------------------------
(* The regions tile the image: they follow one another in the order of the *)
(* table.                                                                  *)
LEMMA Tiled ==
  ASSUME BuildTypeOK
  PROVE  /\ Size \in Nat /\ Len(tree.regions) \in Nat /\ DOMAIN tree.regions = 1 .. Len(tree.regions)
         /\ \A i \in 1 .. Len(tree.regions) :
              /\ tree.regions[i].lo \in Nat /\ tree.regions[i].hi \in Nat
              /\ tree.regions[i].lo < tree.regions[i].hi /\ tree.regions[i].hi <= Size
              /\ OwnersOf(tree.regions[i]) \subseteq Banks
         /\ \A i, j \in 1 .. Len(tree.regions) : i < j => tree.regions[i].hi <= tree.regions[j].lo
<1> DEFINE t == tree.regions
           N == Len(t)
<1>1. /\ t \in Seq(Entries) /\ t # <<>> /\ t[N].hi = Size
      /\ \A i \in 1 .. N : t[i].lo < t[i].hi
      /\ \A i \in 1 .. N - 1 : t[i + 1].lo = t[i].hi
  BY TextAssumption, TreeAssumption DEF BuildTypeOK, Trees
<1> HIDE DEF t
<1>2. N \in Nat /\ N # 0 /\ DOMAIN t = 1 .. N /\ \A i \in 1 .. N : t[i] \in Entries
  BY <1>1
<1>3. \A i \in 1 .. N : t[i].lo \in Nat /\ t[i].hi \in Nat
  BY <1>2 DEF Entries
<1>4. N \in 1 .. N
  BY <1>2
<1>5. Size \in Nat
  BY <1>1, <1>3, <1>4
<1>6. \A i \in 1 .. N : OwnersOf(t[i]) \subseteq Banks
  BY <1>2 DEF Entries, OwnersOf
<1>7. ASSUME NEW i \in 1 .. N, NEW j \in 1 .. N, i < j PROVE t[i].hi <= t[j].lo
  <2> DEFINE S == {n \in 0 .. N : i < n => t[i].hi <= t[n].lo}
  <2>1. 0 \in S
    BY <1>2
  <2>2. ASSUME NEW n \in 0 .. N - 1, n \in S PROVE n + 1 \in S
    <3>1. n + 1 \in 1 .. N /\ n + 1 \in 0 .. N /\ (i < n + 1 => n \in 1 .. N /\ n \in 1 .. N - 1 /\ (i < n \/ i = n))
      BY <1>2
    <3>2. i < n => t[i].hi <= t[n].lo
      BY <2>2
    <3>3. ASSUME i < n + 1 PROVE t[i].hi <= t[n + 1].lo
      <4>1. n \in 1 .. N /\ t[n].lo < t[n].hi /\ t[n + 1].lo = t[n].hi /\ (i < n \/ i = n)
        BY <1>1, <3>1, <3>3
      <4>2. t[n].lo \in Nat /\ t[n].hi \in Nat /\ t[i].hi \in Nat
        BY <1>3, <4>1
      <4>3. \A x, y, z \in Nat : x <= y /\ y < z => x <= z
        OBVIOUS
      <4>4. CASE i < n
        BY <3>2, <4>1, <4>2, <4>3, <4>4
      <4>5. CASE i = n
        BY <4>1, <4>2, <4>5
      <4> QED
        BY <4>1, <4>4, <4>5
    <3> QED
      BY <3>1, <3>3
  <2>3. \A n \in 0 .. N : n \in S
    <3> HIDE DEF S, N
    <3> QED
      BY <1>2, <2>1, <2>2, Upwards
  <2>4. j \in 0 .. N
    BY <1>2
  <2> QED
    BY <1>7, <2>3, <2>4
<1>8. ASSUME NEW i \in 1 .. N PROVE t[i].hi <= Size
  <2>1. i = N \/ i < N
    <3>1. \A x \in Nat : \A k \in 1 .. x : k = x \/ k < x
      OBVIOUS
    <3> HIDE DEF N
    <3> QED
      BY <1>2, <3>1
  <2>2. CASE i = N
    BY <1>1, <1>5, <2>2
  <2>3. CASE i < N
    <3>1. t[i].hi <= t[N].lo /\ t[N].lo < t[N].hi /\ t[N].hi = Size
      BY <1>1, <1>4, <1>7, <2>3
    <3>2. t[i].hi \in Nat /\ t[N].lo \in Nat
      BY <1>3, <1>4
    <3>3. \A x, y, z \in Nat : x <= y /\ y < z => x <= z
      OBVIOUS
    <3> QED
      BY <1>5, <3>1, <3>2, <3>3
  <2> QED
    BY <2>1, <2>2, <2>3
<1> QED
  BY <1>1, <1>2, <1>3, <1>5, <1>6, <1>7, <1>8 DEF t

(* The least of some numbers is one of them.                               *)
LEMMA Least ==
  ASSUME NEW A \in SUBSET Nat, A # {}
  PROVE  Min(A) \in A /\ \A x \in A : Min(A) <= x
<1>1. \E n \in A : \A m \in A : n <= m
  BY Smallest, Zenon
<1> QED
  BY <1>1, Zenon DEF Min

(* Every bucket has as many bytes as its region.                           *)
Filled ==
  \A i \in 1 .. Len(tree.regions) :
    /\ Bucket(tree.regions[i]) \in Text
    /\ Len(Bytes(Bucket(tree.regions[i]))) = tree.regions[i].hi - tree.regions[i].lo

(* Netcode starts behind the region in front of it, and stays away from    *)
(* the bank's own bytes behind it.                                         *)
LEMMA HoleFacts ==
  ASSUME BuildTypeOK, Filled, NEW b \in Banks, NEW i \in Holes(b)
  PROVE  /\ i \in 0 .. Len(tree.regions) - 1 /\ i \in Nat /\ HoleAt(i) \in Nat /\ Net(b, i) \in Text
         /\ i = 0 => HoleAt(i) = 0
         /\ i # 0 => i \in 1 .. Len(tree.regions) /\ Owned(b, i) /\ HoleAt(i) = tree.regions[i].hi
         /\ GuardsHold =>
              /\ HoleAt(i) + Len(Bytes(Net(b, i))) <= Size
              /\ \A j \in 1 .. Len(tree.regions) :
                   Owned(b, j) /\ i < j => HoleAt(i) + Len(Bytes(Net(b, i))) <= tree.regions[j].lo
<1> DEFINE t == tree.regions
           N == Len(t)
           A == {Size} \cup {t[j].lo : j \in {k \in i + 1 .. N : Owned(b, k)}}
           need == HoleAt(i) + Len(Bytes(Net(b, i)))
<1>1. /\ Size \in Nat /\ N \in Nat
      /\ \A j \in 1 .. N : t[j].lo \in Nat /\ t[j].hi \in Nat
  BY Tiled
<1>2. i \in 0 .. N - 1 /\ (i = 0 \/ Owned(b, i))
  BY DEF Holes
<1>3. i \in Nat /\ (i # 0 => i \in 1 .. N)
  BY <1>1, <1>2
<1>4. i # 0 => HoleAt(i) = t[i].hi
  <2> SUFFICES ASSUME i # 0 PROVE HoleAt(i) = t[i].hi
    OBVIOUS
  <2>1. HoleAt(i) = t[i].lo + (t[i].hi - t[i].lo)
    BY <1>3 DEF HoleAt, Filled
  <2>2. t[i].lo \in Nat /\ t[i].hi \in Nat
    BY <1>1, <1>3
  <2>3. \A x, y \in Nat : x + (y - x) = y
    OBVIOUS
  <2> QED
    BY <2>1, <2>2, <2>3
<1>5. i = 0 => HoleAt(i) = 0
  BY DEF HoleAt
<1>6. HoleAt(i) \in Nat
  BY <1>1, <1>3, <1>4, <1>5
<1>7. Net(b, i) \in Text
  <2>1. tree.shim[b] \in Seq(Text)
    BY TextAssumption DEF BuildTypeOK, Trees
  <2>2. <<>> \in Text
    BY DEF Text
  <2> QED
    BY <2>1, <2>2 DEF Net
<1>8. Len(Bytes(Net(b, i))) \in Nat
  <2>1. Bytes(Net(b, i)) \in Seq(STRING)
    BY <1>7, FlattenType DEF Text, Bytes
  <2> QED
    BY <2>1
<1>9. ASSUME GuardsHold
      PROVE  need <= Size /\ \A j \in 1 .. N : Owned(b, j) /\ i < j => need <= t[j].lo
  <2>1. need <= HoleEnd(b, i) /\ HoleEnd(b, i) = Min(A)
    BY <1>9 DEF GuardsHold, HoleEnd
  <2>2. \A k \in i + 1 .. N : k \in 1 .. N
    BY <1>1, <1>3
  <2>3. A \in SUBSET Nat /\ A # {} /\ Size \in A
    BY <1>1, <2>2
  <2>4. \A j \in 1 .. N : i < j => j \in i + 1 .. N
    BY <1>1, <1>3
  <2>5. \A j \in 1 .. N : Owned(b, j) /\ i < j => t[j].lo \in A
    BY <2>4
  <2>6. need \in Nat
    BY <1>6, <1>8
  <2> HIDE DEF A, need, t
  <2>7. Min(A) \in Nat /\ \A x \in A : Min(A) <= x
    BY <2>3, Least
  <2>8. \A x \in A : need <= x
    <3> TAKE x \in A
    <3>1. x \in Nat /\ Min(A) <= x /\ need <= Min(A)
      BY <2>1, <2>3, <2>7
    <3> QED
      BY <2>6, <2>7, <3>1
  <2> QED
    BY <2>3, <2>5, <2>8
<1> QED
  BY <1>2, <1>3, <1>4, <1>5, <1>6, <1>7, <1>9

-----------------------------------------------------------------------------
(* The pieces of a bank: the regions it owns, and the netcode in its       *)
(* holes.  A piece is an address and a text.                               *)
Pieces(b) ==
  {<<tree.regions[i].lo, Bucket(tree.regions[i])>> : i \in {j \in 1 .. Len(tree.regions) : Owned(b, j)}}
    \cup {<<HoleAt(i), Net(b, i)>> : i \in Holes(b)}
End(q) == q[1] + Len(Bytes(q[2]))

(* What a piece is, and that it lies in the window.                        *)
IsRegion(b, q, i) ==
  Owned(b, i) /\ q = <<tree.regions[i].lo, Bucket(tree.regions[i])>> /\ End(q) = tree.regions[i].hi
IsHole(b, q, i) == i \in Holes(b) /\ q = <<HoleAt(i), Net(b, i)>>

LEMMA PieceKind ==
  ASSUME BuildTypeOK, Filled, GuardsHold, NEW b \in Banks, NEW q \in Pieces(b)
  PROVE  /\ (\E i \in 1 .. Len(tree.regions) : IsRegion(b, q, i)) \/ (\E i \in Holes(b) : IsHole(b, q, i))
         /\ q[1] \in Nat /\ q[2] \in Text /\ End(q) \in Nat /\ End(q) <= Size
<1> DEFINE t == tree.regions
<1>1. CASE \E i \in 1 .. Len(t) : Owned(b, i) /\ q = <<t[i].lo, Bucket(t[i])>>
  <2>1. PICK i \in 1 .. Len(t) : Owned(b, i) /\ q = <<t[i].lo, Bucket(t[i])>>
    BY <1>1
  <2>2. /\ t[i].lo \in Nat /\ t[i].hi \in Nat /\ t[i].hi <= Size
        /\ Bucket(t[i]) \in Text /\ Len(Bytes(Bucket(t[i]))) = t[i].hi - t[i].lo
    BY Tiled DEF Filled
  <2>3. q[1] = t[i].lo /\ q[2] = Bucket(t[i])
    BY <2>1
  <2>4. End(q) = t[i].lo + (t[i].hi - t[i].lo)
    BY <2>2, <2>3 DEF End
  <2>5. \A x, y \in Nat : x + (y - x) = y
    OBVIOUS
  <2>6. End(q) = t[i].hi
    BY <2>2, <2>4, <2>5
  <2>7. IsRegion(b, q, i)
    BY <2>1, <2>6 DEF IsRegion
  <2> QED
    BY <2>2, <2>3, <2>6, <2>7
<1>2. CASE \E i \in Holes(b) : q = <<HoleAt(i), Net(b, i)>>
  <2>1. PICK i \in Holes(b) : q = <<HoleAt(i), Net(b, i)>>
    BY <1>2
  <2>2. HoleAt(i) \in Nat /\ Net(b, i) \in Text /\ HoleAt(i) + Len(Bytes(Net(b, i))) <= Size
    BY HoleFacts
  <2>3. Len(Bytes(Net(b, i))) \in Nat
    <3>1. Bytes(Net(b, i)) \in Seq(STRING)
      BY <2>2, FlattenType DEF Text, Bytes
    <3> QED
      BY <3>1
  <2>4. q[1] = HoleAt(i) /\ q[2] = Net(b, i) /\ IsHole(b, q, i)
    BY <2>1 DEF IsHole
  <2>5. End(q) = HoleAt(i) + Len(Bytes(Net(b, i)))
    BY <2>4 DEF End
  <2> QED
    BY <2>2, <2>3, <2>4, <2>5
<1> QED
  BY <1>1, <1>2 DEF Pieces

(* Two pieces of a bank are one behind the other.                          *)
Behind(s, q) == End(q) <= s[1]

LEMMA HoleAndRegion ==
  ASSUME BuildTypeOK, Filled, GuardsHold, NEW b \in Banks, NEW q, NEW s,
         NEW j \in 1 .. Len(tree.regions), IsRegion(b, q, j), NEW i \in Holes(b), IsHole(b, s, i)
  PROVE  Behind(s, q) \/ Behind(q, s)
<1> DEFINE t == tree.regions
<1>1. /\ i \in Nat /\ HoleAt(i) \in Nat
      /\ i # 0 => i \in 1 .. Len(t) /\ HoleAt(i) = t[i].hi
      /\ Owned(b, j) /\ i < j => HoleAt(i) + Len(Bytes(Net(b, i))) <= t[j].lo
  BY HoleFacts
<1>2. q[1] = t[j].lo /\ End(q) = t[j].hi /\ Owned(b, j) /\ s[1] = HoleAt(i) /\ s[2] = Net(b, i)
  BY DEF IsRegion, IsHole
<1>3. End(s) = HoleAt(i) + Len(Bytes(Net(b, i)))
  BY <1>2 DEF End
<1>4. CASE i < j
  BY <1>1, <1>2, <1>3, <1>4 DEF Behind
<1>5. CASE i = j
  <2>1. i # 0
    BY <1>5
  <2>2. HoleAt(i) = t[j].hi /\ t[j].hi \in Nat
    BY <1>1, <1>5, <2>1, Tiled
  <2> QED
    BY <1>2, <2>2 DEF Behind
<1>6. CASE j < i
  <2>1. i # 0 /\ j \in Nat
    BY <1>1, <1>6
  <2>2. i \in 1 .. Len(t) /\ HoleAt(i) = t[i].hi
    BY <1>1, <2>1
  <2>3. t[j].hi <= t[i].lo /\ t[i].lo < t[i].hi /\ t[j].hi \in Nat /\ t[i].lo \in Nat /\ t[i].hi \in Nat
    BY <1>6, <2>2, Tiled
  <2>4. t[j].hi <= t[i].hi
    BY <2>3
  <2> QED
    BY <1>2, <2>2, <2>4 DEF Behind
<1>7. j \in Nat
  OBVIOUS
<1> QED
  BY <1>1, <1>4, <1>5, <1>6, <1>7

LEMMA OneBehind ==
  ASSUME BuildTypeOK, Filled, GuardsHold, NEW b \in Banks, NEW q \in Pieces(b), NEW s \in Pieces(b)
  PROVE  q = s \/ Behind(q, s) \/ Behind(s, q)
<1> DEFINE t == tree.regions
<1>1. /\ (\E i \in 1 .. Len(t) : IsRegion(b, q, i)) \/ (\E i \in Holes(b) : IsHole(b, q, i))
      /\ (\E i \in 1 .. Len(t) : IsRegion(b, s, i)) \/ (\E i \in Holes(b) : IsHole(b, s, i))
  BY PieceKind
<1>2. ASSUME NEW i \in 1 .. Len(t), IsRegion(b, q, i), NEW j \in 1 .. Len(t), IsRegion(b, s, j)
      PROVE  q = s \/ Behind(q, s) \/ Behind(s, q)
  <2>1. i = j => q = s
    BY <1>2 DEF IsRegion
  <2>2. q[1] = t[i].lo /\ End(q) = t[i].hi /\ s[1] = t[j].lo /\ End(s) = t[j].hi
    BY <1>2 DEF IsRegion
  <2>3. (i < j => t[i].hi <= t[j].lo) /\ (j < i => t[j].hi <= t[i].lo)
    BY Tiled
  <2>4. i < j \/ j < i \/ i = j
    OBVIOUS
  <2> QED
    BY <2>1, <2>2, <2>3, <2>4 DEF Behind
<1>3. ASSUME NEW i \in Holes(b), IsHole(b, q, i), NEW j \in Holes(b), IsHole(b, s, j)
      PROVE  q = s \/ Behind(q, s) \/ Behind(s, q)
  <2>1. i = j => q = s
    BY <1>3 DEF IsHole
  <2>2. /\ q[1] = HoleAt(i) /\ End(q) = HoleAt(i) + Len(Bytes(Net(b, i)))
        /\ s[1] = HoleAt(j) /\ End(s) = HoleAt(j) + Len(Bytes(Net(b, j)))
    BY <1>3 DEF IsHole, End
  <2>3. ASSUME NEW k \in Holes(b), NEW m \in Holes(b), k < m
        PROVE  HoleAt(k) + Len(Bytes(Net(b, k))) <= HoleAt(m)
    <3>1. k \in Nat /\ m \in Nat
      BY HoleFacts
    <3>2. m # 0
      BY <2>3, <3>1
    <3>3. m \in 1 .. Len(t) /\ Owned(b, m) /\ HoleAt(m) = t[m].hi
      BY <3>2, HoleFacts
    <3>4. HoleAt(k) + Len(Bytes(Net(b, k))) <= t[m].lo
      BY <2>3, <3>3, HoleFacts
    <3>5. t[m].lo < t[m].hi /\ t[m].lo \in Nat /\ t[m].hi \in Nat
      BY <3>3, Tiled
    <3>6. HoleAt(k) + Len(Bytes(Net(b, k))) \in Nat
      <4>1. HoleAt(k) \in Nat /\ Net(b, k) \in Text
        BY HoleFacts
      <4>2. Bytes(Net(b, k)) \in Seq(STRING)
        BY <4>1, FlattenType DEF Text, Bytes
      <4> QED
        BY <4>1, <4>2
    <3> QED
      BY <3>3, <3>4, <3>5, <3>6
  <2>4. i < j \/ j < i \/ i = j
    <3>1. i \in Nat /\ j \in Nat
      BY HoleFacts
    <3> QED
      BY <3>1
  <2> QED
    BY <2>1, <2>2, <2>3, <2>4 DEF Behind
<1> QED
  BY <1>1, <1>2, <1>3, HoleAndRegion

(* So no address is in two of them.                                        *)
LEMMA OnePiece ==
  ASSUME BuildTypeOK, Filled, GuardsHold, NEW b \in Banks, NEW q \in Pieces(b), NEW s \in Pieces(b),
         NEW a \in Int, q[1] <= a, a < End(q), s[1] <= a, a < End(s)
  PROVE  q = s
<1>1. q[1] \in Nat /\ s[1] \in Nat /\ End(q) \in Nat /\ End(s) \in Nat
  BY PieceKind
<1>2. ~Behind(q, s) /\ ~Behind(s, q)
  BY <1>1 DEF Behind
<1>3. q = s \/ Behind(q, s) \/ Behind(s, q)
  BY OneBehind
<1> QED
  BY <1>2, <1>3

-----------------------------------------------------------------------------
(* A byte that one row of a bank covers, and that every row that covers it *)
(* gives the same value, has that value when the bank is linked.           *)
Agreed(rows, a, v) ==
  /\ \E row \in Range(rows) : Covers(row, a)
  /\ \A row \in Range(rows) : Covers(row, a) => row.bytes[a - row.addr + 1] = v

LEMMA LinkedRight ==
  ASSUME NEW b \in Banks, NEW rows \in Seq(LineRow), listing[b] = rows, NEW a \in Window, NEW v,
         Agreed(rows, a, v)
  PROVE  Linked(b)[a] = v
<1> DEFINE hits == {i \in DOMAIN listing[b] : Covers(listing[b][i], a)}
<1>1. DOMAIN rows = 1 .. Len(rows) /\ Len(rows) \in Nat
  OBVIOUS
<1>2. hits \subseteq 1 .. Len(rows) /\ hits # {}
  BY <1>1 DEF Agreed, Range
<1>3. \A i \in hits : rows[i].bytes[a - rows[i].addr + 1] = v
  BY DEF Agreed, Range
<1>4. Linked(b)[a] = LET row == listing[b][Max(hits)] IN row.bytes[a - row.addr + 1]
  BY <1>2 DEF Linked
<1> HIDE DEF hits
<1>5. Max(hits) \in hits
  <2> DEFINE T == {Len(rows) - i : i \in hits}
  <2>1. T \subseteq Nat /\ T # {}
    <3>1. \A i \in 1 .. Len(rows) : Len(rows) - i \in Nat
      BY <1>1
    <3> QED
      BY <1>2, <3>1, Zenon
  <2>2. PICK n \in T : \A m \in T : n <= m
    <3> HIDE DEF T
    <3> QED
      BY <2>1, Smallest, Zenon
  <2>3. PICK i \in hits : n = Len(rows) - i
    OBVIOUS
  <2>4. \A j \in hits : i >= j
    <3> TAKE j \in hits
    <3>1. Len(rows) - i <= Len(rows) - j
      BY <2>2, <2>3
    <3>2. i \in Int /\ j \in Int
      BY <1>2
    <3> QED
      BY <1>1, <3>1, <3>2
  <2> QED
    BY <2>4, Zenon DEF Max
<1> QED
  BY <1>3, <1>4, <1>5

(* What the assembler lists for a bank: the rows of its pieces.            *)
AsListed(b) ==
  /\ Assembled(b) \in Seq(LineRow)
  /\ \A row : row \in Range(Assembled(b)) <=> \E q \in Pieces(b) : row \in Range(Rows(q[1], q[2]))

LEMMA Listed ==
  ASSUME BuildTypeOK, Filled, NEW b \in Banks
  PROVE  AsListed(b)
<1> DEFINE N == Len(tree.regions)
           body == [i \in DOMAIN tree.regions |->
                      IF b \in OwnersOf(tree.regions[i])
                        THEN Rows(tree.regions[i].lo, Bucket(tree.regions[i])) ELSE <<>>]
           nets == [i \in DOMAIN tree.regions |-> NetRows(b, i)]
           InRegion2(row) == \E i \in 1 .. N : Owned(b, i) /\ row \in Range(Rows(tree.regions[i].lo, Bucket(tree.regions[i])))
           InHole(row) == \E i \in Holes(b) : row \in Range(Rows(HoleAt(i), Net(b, i)))
<1>1. DOMAIN tree.regions = 1 .. N /\ N \in Nat
  BY Tiled
<1>2. <<>> \in Seq(LineRow) /\ Range(<<>>) = {}
  BY DEF Range
<1>3. ASSUME NEW i \in 1 .. N
      PROVE  /\ body[i] \in Seq(LineRow)
             /\ body[i] = IF Owned(b, i) THEN Rows(tree.regions[i].lo, Bucket(tree.regions[i])) ELSE <<>>
  <2>1. tree.regions[i].lo \in Int /\ Bucket(tree.regions[i]) \in Text
    BY Tiled DEF Filled
  <2>2. Rows(tree.regions[i].lo, Bucket(tree.regions[i])) \in Seq(LineRow)
    BY <2>1, RowsType
  <2>3. body[i] = IF Owned(b, i) THEN Rows(tree.regions[i].lo, Bucket(tree.regions[i])) ELSE <<>>
    BY <1>1 DEF Owned
  <2> HIDE DEF body
  <2> QED
    BY <1>2, <2>2, <2>3
<1>4. ASSUME NEW i
      PROVE  /\ NetRows(b, i) \in Seq(LineRow)
             /\ NetRows(b, i) = IF i \in Holes(b) THEN Rows(HoleAt(i), Net(b, i)) ELSE <<>>
  <2>1. CASE i \in Holes(b)
    <3>1. HoleAt(i) \in Int /\ Net(b, i) \in Text
      BY <2>1, HoleFacts
    <3>2. Rows(HoleAt(i), Net(b, i)) \in Seq(LineRow)
      BY <3>1, RowsType
    <3> QED
      BY <2>1, <3>2 DEF NetRows
  <2>2. CASE i \notin Holes(b)
    BY <1>2, <2>2 DEF NetRows
  <2> QED
    BY <2>1, <2>2
<1>5. body \in Seq(Seq(LineRow)) /\ Len(body) = N
  <2>1. body = [i \in 1 .. N |-> body[i]]
    BY <1>1
  <2> HIDE DEF body, N
  <2>2. \A i \in 1 .. N : body[i] \in Seq(LineRow)
    BY <1>3
  <2> QED
    BY <1>1, <2>1, <2>2
<1>6. nets \in Seq(Seq(LineRow)) /\ Len(nets) = N /\ \A i \in 1 .. N : nets[i] = NetRows(b, i)
  <2>1. nets = [i \in 1 .. N |-> NetRows(b, i)]
    BY <1>1
  <2> HIDE DEF nets
  <2> QED
    BY <1>1, <1>4, <2>1
<1>7. Regions(b) = FlattenSeq(body)
  BY DEF Regions
<1>8. Assembled(b) = NetRows(b, 0) \o Regions(b) \o FlattenSeq(nets)
  BY DEF Assembled
<1> HIDE DEF body, nets
<1>9. FlattenSeq(body) \in Seq(LineRow) /\ FlattenSeq(nets) \in Seq(LineRow) /\ NetRows(b, 0) \in Seq(LineRow)
  BY <1>4, <1>5, <1>6, FlattenType
<1>10. NetRows(b, 0) \o Regions(b) \in Seq(LineRow) /\ Assembled(b) \in Seq(LineRow)
  <2>1. \A x, y \in Seq(LineRow) : x \o y \in Seq(LineRow)
    BY Concat
  <2>2. NetRows(b, 0) \o Regions(b) \in Seq(LineRow)
    BY <1>7, <1>9, <2>1
  <2> QED
    BY <1>8, <1>9, <2>1, <2>2
<1>11. Range(Assembled(b)) = Range(NetRows(b, 0)) \cup Range(Regions(b)) \cup Range(FlattenSeq(nets))
  <2>1. Range(NetRows(b, 0) \o Regions(b)) = Range(NetRows(b, 0)) \cup Range(Regions(b))
    BY <1>7, <1>9, RangeConcatenation
  <2>2. Range((NetRows(b, 0) \o Regions(b)) \o FlattenSeq(nets)) = Range(NetRows(b, 0) \o Regions(b)) \cup Range(FlattenSeq(nets))
    <3>1. \A x, y \in Seq(LineRow) : Range(x \o y) = Range(x) \cup Range(y)
      BY RangeConcatenation
    <3> QED
      BY <1>9, <1>10, <3>1, Zenon
  <2> QED
    BY <1>8, <2>1, <2>2
<1>12. ASSUME NEW row PROVE row \in Range(Regions(b)) <=> InRegion2(row)
  <2>1. row \in Range(Regions(b)) <=> \E i \in 1 .. N : row \in Range(body[i])
    BY <1>5, <1>7, RangeFlatten
  <2>2. \A i \in 1 .. N : row \in Range(body[i]) <=>
          Owned(b, i) /\ row \in Range(Rows(tree.regions[i].lo, Bucket(tree.regions[i])))
    BY <1>2, <1>3
  <2> QED
    BY <2>1, <2>2
<1>13. ASSUME NEW row, NEW i PROVE row \in Range(NetRows(b, i)) <=> i \in Holes(b) /\ row \in Range(Rows(HoleAt(i), Net(b, i)))
  BY <1>2, <1>4
<1>14. ASSUME NEW row
       PROVE  row \in Range(NetRows(b, 0)) \/ row \in Range(FlattenSeq(nets)) <=> InHole(row)
  <2>1. row \in Range(FlattenSeq(nets)) <=> \E i \in 1 .. N : row \in Range(NetRows(b, i))
    BY <1>6, RangeFlatten
  <2>2. \A i \in Holes(b) : i = 0 \/ i \in 1 .. N
    <3> TAKE i \in Holes(b)
    <3> QED
      BY HoleFacts
  <2> QED
    BY <1>13, <2>1, <2>2
<1>15. ASSUME NEW row
       PROVE  InRegion2(row) \/ InHole(row) <=> \E q \in Pieces(b) : row \in Range(Rows(q[1], q[2]))
  <2>1. ASSUME NEW q \in Pieces(b), row \in Range(Rows(q[1], q[2])) PROVE InRegion2(row) \/ InHole(row)
    <3>1. CASE \E i \in 1 .. N : Owned(b, i) /\ q = <<tree.regions[i].lo, Bucket(tree.regions[i])>>
      BY <2>1, <3>1
    <3>2. CASE \E i \in Holes(b) : q = <<HoleAt(i), Net(b, i)>>
      BY <2>1, <3>2
    <3> QED
      BY <3>1, <3>2 DEF Pieces
  <2>2. ASSUME NEW i \in 1 .. N, Owned(b, i), row \in Range(Rows(tree.regions[i].lo, Bucket(tree.regions[i])))
        PROVE  \E q \in Pieces(b) : row \in Range(Rows(q[1], q[2]))
    <3> DEFINE q == <<tree.regions[i].lo, Bucket(tree.regions[i])>>
    <3>1. q \in Pieces(b)
      BY <2>2 DEF Pieces
    <3>2. q[1] = tree.regions[i].lo /\ q[2] = Bucket(tree.regions[i])
      OBVIOUS
    <3> HIDE DEF q
    <3> QED
      BY <2>2, <3>1, <3>2
  <2>3. ASSUME NEW i \in Holes(b), row \in Range(Rows(HoleAt(i), Net(b, i)))
        PROVE  \E q \in Pieces(b) : row \in Range(Rows(q[1], q[2]))
    <3> DEFINE q == <<HoleAt(i), Net(b, i)>>
    <3>1. q \in Pieces(b)
      BY DEF Pieces
    <3>2. q[1] = HoleAt(i) /\ q[2] = Net(b, i)
      OBVIOUS
    <3> HIDE DEF q
    <3> QED
      BY <2>3, <3>1, <3>2
  <2> QED
    BY <2>1, <2>2, <2>3
<1> HIDE DEF InRegion2, InHole
<1>16. \A row : row \in Range(Assembled(b)) <=> \E q \in Pieces(b) : row \in Range(Rows(q[1], q[2]))
  BY <1>11, <1>12, <1>14, <1>15
<1> QED
  BY <1>10, <1>16 DEF AsListed

(* A bank keeps what it lists: every byte of every row is in the window    *)
(* and is what the linker puts there.                                      *)
LEMMA RowsKept ==
  ASSUME BuildTypeOK, Filled, GuardsHold, NEW b \in Banks, listing[b] = Assembled(b),
         NEW row \in Range(Assembled(b)), NEW a \in Int, Covers(row, a)
  PROVE  a \in Window /\ Linked(b)[a] = row.bytes[a - row.addr + 1]
<1>1. AsListed(b)
  BY Listed
<1>2. PICK q \in Pieces(b) : row \in Range(Rows(q[1], q[2]))
  BY <1>1 DEF AsListed
<1>3. ASSUME NEW s \in Pieces(b), NEW w \in Range(Rows(s[1], s[2])), Covers(w, a)
      PROVE  /\ s[1] <= a /\ a < End(s)
             /\ w.bytes[a - w.addr + 1] = Resolved(Bytes(s[2])[a - s[1] + 1])
  <2>1. s[1] \in Int /\ s[2] \in Text
    BY PieceKind
  <2>2. Lies(s[1], s[2], a)
    BY <2>1, RowsRight
  <2> QED
    BY <1>3, <2>2 DEF Lies, End
<1> DEFINE v == Resolved(Bytes(q[2])[a - q[1] + 1])
<1>4. q[1] <= a /\ a < End(q) /\ row.bytes[a - row.addr + 1] = v
  BY <1>2, <1>3
<1>5. a \in Window
  <2>1. q[1] \in Nat /\ End(q) \in Nat /\ End(q) <= Size /\ Size \in Nat
    BY PieceKind, Tiled
  <2>2. \A x, y, z \in Nat : x <= a /\ a < y /\ y <= z => a \in 0 .. z - 1
    OBVIOUS
  <2> QED
    BY <1>4, <2>1, <2>2 DEF Window
<1>6. ASSUME NEW w \in Range(Assembled(b)), Covers(w, a)
      PROVE  w.bytes[a - w.addr + 1] = v
  <2>1. PICK s \in Pieces(b) : w \in Range(Rows(s[1], s[2]))
    BY <1>1 DEF AsListed
  <2>2. s[1] <= a /\ a < End(s) /\ w.bytes[a - w.addr + 1] = Resolved(Bytes(s[2])[a - s[1] + 1])
    BY <1>3, <1>6, <2>1
  <2>3. q[1] <= a /\ a < End(q) /\ s[1] <= a /\ a < End(s)
    BY <1>4, <2>2
  <2> HIDE DEF v
  <2>4. q = s
    BY <2>3, OnePiece
  <2>5. w.bytes[a - w.addr + 1] = Resolved(Bytes(q[2])[a - q[1] + 1])
    BY <2>2, <2>4
  <2> QED
    BY <2>5 DEF v
<1> HIDE DEF v
<1>7. Assembled(b) \in Seq(LineRow)
  BY <1>1 DEF AsListed
<1>8. Linked(b)[a] = v
  <2>1. Agreed(Assembled(b), a, v)
    BY <1>6 DEF Agreed
  <2> QED
    BY <1>5, <1>7, <2>1, LinkedRight
<1> QED
  BY <1>4, <1>5, <1>8

(* In particular the bytes of the regions it owns.                         *)
LEMMA RegionKept ==
  ASSUME BuildTypeOK, Filled, GuardsHold, NEW b \in Banks, listing[b] = Assembled(b),
         NEW i \in 1 .. Len(tree.regions), b \in OwnersOf(tree.regions[i]),
         NEW k \in 1 .. tree.regions[i].hi - tree.regions[i].lo
  PROVE  Linked(b)[tree.regions[i].lo + k - 1] = Resolved(Bytes(Bucket(tree.regions[i]))[k])
<1> DEFINE r == tree.regions[i]
           text == Bucket(r)
           a == r.lo + k - 1
<1>1. r.lo \in Nat /\ r.hi \in Nat /\ r.lo < r.hi /\ DOMAIN tree.regions = 1 .. Len(tree.regions)
  BY Tiled
<1>2. text \in Text /\ Len(Bytes(text)) = r.hi - r.lo
  BY DEF Filled
<1>3. <<r.lo, text>> \in Pieces(b)
  BY <1>1 DEF Pieces, Owned
<1>f. /\ a \in Int /\ r.lo <= a /\ a < r.lo + Len(Bytes(text)) /\ a - r.lo + 1 = k /\ r.lo \in Int
  BY <1>1, <1>2
<1> HIDE DEF r, text, a
<1>4. Lies(r.lo, text, a)
  BY <1>2, <1>f, RowsRight
<1>5. PICK row \in Range(Rows(r.lo, text)) : Covers(row, a)
  BY <1>4, <1>f DEF Lies
<1>6. row.bytes[a - row.addr + 1] = Resolved(Bytes(text)[k])
  BY <1>4, <1>5, <1>f DEF Lies
<1>7. row \in Range(Assembled(b))
  <2> DEFINE q == <<r.lo, text>>
  <2>1. q[1] = r.lo /\ q[2] = text /\ q \in Pieces(b)
    BY <1>3
  <2> HIDE DEF q
  <2>2. AsListed(b)
    BY Listed
  <2> QED
    BY <1>5, <2>1, <2>2 DEF AsListed
<1>8. Linked(b)[a] = row.bytes[a - row.addr + 1]
  BY <1>5, <1>7, <1>f, RowsKept
<1> QED
  BY <1>6, <1>8 DEF r, text, a

-----------------------------------------------------------------------------
(* With patches through that are clear of every edge, a bucket has the     *)
(* bytes that lie between the edges of its region.                         *)
Uncut(ps) == \A r \in Range(tree.regions) : Clear(tree.src, ps, r.lo) /\ Clear(tree.src, ps, r.hi)
BucketBytes(r) ==
  \A k \in 1 .. r.hi - r.lo : Bytes(Bucket(r))[k] = Image(lines)[r.lo + k]

LEMMA SourceFacts ==
  ASSUME BuildTypeOK
  PROVE  /\ tree.src \in Seq(Text) /\ Pristine \in Seq(Text) /\ Image(tree.src) = Image(Pristine)
         /\ Len(Image(tree.src)) = Size /\ Size \in Nat
         /\ tree.patches \in Seq(Patches) /\ Range(tree.patches) \subseteq Patches
<1>1. /\ tree.src \in Seq(Text) /\ Pristine \in Seq(Text) /\ Image(tree.src) = Image(Pristine)
      /\ tree.patches \in Seq(Patches)
  BY TextAssumption, TreeAssumption DEF BuildTypeOK, Trees
<1>2. Range(tree.patches) \subseteq Patches
  BY <1>1 DEF Range
<1> QED
  BY <1>1, <1>2, Tiled DEF Size

LEMMA Buckets ==
  ASSUME BuildTypeOK, EdgesOnLines, NEW ps, LikeForLike(tree.src, lines, ps), Uncut(ps)
  PROVE  Filled /\ \A i \in 1 .. Len(tree.regions) : BucketBytes(tree.regions[i])
<1>1. ASSUME NEW i \in 1 .. Len(tree.regions)
      PROVE  /\ Bucket(tree.regions[i]) \in Text
             /\ Len(Bytes(Bucket(tree.regions[i]))) = tree.regions[i].hi - tree.regions[i].lo
             /\ BucketBytes(tree.regions[i])
  <2> DEFINE r == tree.regions[i]
  <2>1. /\ r.lo \in Nat /\ r.hi \in Nat /\ r.lo < r.hi /\ r.hi <= Size
        /\ DOMAIN tree.regions = 1 .. Len(tree.regions)
    BY Tiled
  <2>2. r \in Range(tree.regions)
    BY <2>1 DEF Range
  <2> HIDE DEF r
  <2>3. r.lo \in Edges(tree.src) /\ r.hi \in Edges(tree.src)
    BY <2>2, TreeEdges
  <2>4. Clear(tree.src, ps, r.lo) /\ Clear(tree.src, ps, r.hi)
    BY <2>2 DEF Uncut
  <2>5. r.lo <= r.hi /\ r.hi <= Len(Image(tree.src))
    BY <2>1, SourceFacts
  <2>6. Bucket(r) = Filed(tree.src, lines, r)
    BY Zenon DEF Bucket, Filed, InRegion, LineAddress, Addr, Upto
  <2>7. /\ Filed(tree.src, lines, r) \in Text /\ Len(Bytes(Filed(tree.src, lines, r))) = r.hi - r.lo
        /\ \A k \in 1 .. r.hi - r.lo : Bytes(Filed(tree.src, lines, r))[k] = Image(lines)[r.lo + k]
    BY <2>1, <2>3, <2>4, <2>5, FiledRight
  <2> QED
    BY <2>6, <2>7 DEF BucketBytes, r
<1> QED
  BY <1>1 DEF Filled

LEMMA StockIs ==
  ASSUME NEW a \in Window
  PROVE  Stock[a] = Resolved(Image(Pristine)[a + 1])
<1>1. Stock[a] = IF Image(Pristine)[a + 1] = "REG" THEN "mirror" ELSE Image(Pristine)[a + 1]
  BY DEF Stock
<1>2. \A c : c # "REG" => Resolved(c) = c
  BY Zenon DEF Resolved
<1> QED
  BY <1>1, <1>2, Mirror

(* So what a bank that owns a region has there is the patched source.      *)
LEMMA ImageRight ==
  ASSUME BuildInv, stage \in {"checkrom", "audit", "shipped"},
         NEW ps, LikeForLike(tree.src, lines, ps), Uncut(ps),
         NEW i \in 1 .. Len(tree.regions), NEW b \in OwnersOf(tree.regions[i]),
         NEW k \in 1 .. tree.regions[i].hi - tree.regions[i].lo
  PROVE  /\ tree.regions[i].lo + k - 1 \in Window
         /\ image[b][tree.regions[i].lo + k - 1] = Resolved(Image(lines)[tree.regions[i].lo + k])
<1> DEFINE r == tree.regions[i]
<1>1. BuildTypeOK /\ Gates
  BY DEF BuildInv
<1>2. /\ EdgesOnLines /\ GuardsHold
      /\ listing = [c \in Banks |-> Assembled(c)] /\ image = [c \in Banks |-> Linked(c)]
  BY <1>1 DEF Gates
<1>3. b \in Banks /\ r.lo \in Nat /\ r.hi \in Nat /\ r.hi <= Size /\ Size \in Nat
  BY <1>1, Tiled
<1>4. listing[b] = Assembled(b) /\ image[b] = Linked(b)
  BY <1>2, <1>3
<1>5. Filled /\ BucketBytes(r)
  BY <1>1, <1>2, Buckets
<1>6. Linked(b)[r.lo + k - 1] = Resolved(Bytes(Bucket(r))[k])
  BY <1>1, <1>2, <1>3, <1>4, <1>5, RegionKept
<1>7. r.lo + k - 1 \in Window
  <2>1. \A x, y, z \in Nat : \A j \in 1 .. y - x : y <= z => x + j - 1 \in 0 .. z - 1
    OBVIOUS
  <2> QED
    BY <1>3, <2>1 DEF Window
<1> QED
  BY <1>4, <1>5, <1>6, <1>7 DEF BucketBytes

-----------------------------------------------------------------------------
(* The bytes are at home by the gates that the invariant remembers.        *)
LEMMA HomeByGates == BuildInv => EveryByteHome
<1> SUFFICES ASSUME BuildInv, stage = "checkrom", tree.patches = <<>>,
                    NEW r \in Range(tree.regions), NEW b \in OwnersOf(r), NEW a \in r.lo .. r.hi - 1
             PROVE  image[b][a] = Stock[a]
  BY DEF EveryByteHome
<1>1. BuildTypeOK /\ Gates
  BY DEF BuildInv
<1>2. done = 0 /\ lines = tree.src
  BY <1>1 DEF Gates
<1>3. LikeForLike(tree.src, lines, {})
  BY <1>1, <1>2, SourceFacts DEF LikeForLike, PutThrough
<1>4. Uncut({})
  BY DEF Uncut, Clear
<1>5. PICK i \in 1 .. Len(tree.regions) : r = tree.regions[i]
  BY <1>1, Tiled DEF Range
<1>6. r.lo \in Nat /\ r.hi \in Nat
  BY <1>1, <1>5, Tiled
<1> DEFINE k == a - r.lo + 1
<1>7. k \in 1 .. r.hi - r.lo /\ r.lo + k - 1 = a /\ r.lo + k = a + 1
  <2>1. \A x, y \in Nat : \A c \in x .. y - 1 :
          c - x + 1 \in 1 .. y - x /\ x + (c - x + 1) - 1 = c /\ x + (c - x + 1) = c + 1
    OBVIOUS
  <2> QED
    BY <1>6, <2>1
<1> HIDE DEF k
<1>8. a \in Window /\ image[b][a] = Resolved(Image(lines)[a + 1])
  BY <1>3, <1>4, <1>5, <1>7, ImageRight
<1> QED
  BY <1>1, <1>2, <1>8, SourceFacts, StockIs

(* mkbanks.py: a build with no patch puts every byte of the stock image at *)
(* its own address in every bank that owns it, whatever lines the          *)
(* disassembly makes of the bytes, wherever the regions are cut and        *)
(* whatever netcode lies in the holes.                                     *)
THEOREM BytesStayHome == BuildSpec => []EveryByteHome
BY BuildInvariance, HomeByGates, PTL

-----------------------------------------------------------------------------
(* What the author of the tables answers for, all of it on the disassembly *)
(* he looked at.  A patch keeps the number of bytes: patches.py, "the same *)
(* length as what it replaces".                                            *)
KeepsBytes(t) == \A p \in Range(t.patches) : Len(Bytes(p.new)) = Len(Bytes(p.old))

(* It stands there where it is declared to, and an edge is between lines.  *)
Declared(t) ==
  /\ \A p \in Range(t.patches) :
       Anchored(Pristine, p) /\ PristineAddress(p.line) = p.addr /\ Len(Bytes(p.old)) = p.span
  /\ \A r \in Range(t.regions) :
       {r.lo, r.hi} \subseteq {0, Size} \cup {PristineAddress(n) : n \in DOMAIN Pristine}

(* Wherever else the image has the bytes a patch replaces, it is where a   *)
(* patch of the same length belongs, as for the input sites with the same  *)
(* text, or it is away from every declared range and every edge.           *)
Stands(p, x) ==
  /\ x + p.span <= Size
  /\ \A j \in 1 .. p.span : Image(Pristine)[x + j] = Bytes(p.old)[j]
Away(t, p, x) ==
  /\ \A q \in Range(t.patches) : Span(q) \cap (x .. x + p.span - 1) = {}
  /\ \A r \in Range(t.regions) : \A e \in {r.lo, r.hi} : ~(x < e /\ e < x + p.span)
Recognised(t) ==
  \A p \in Range(t.patches), x \in 0 .. Size :
    Stands(p, x) => Away(t, p, x) \/ \E q \in Range(t.patches) : q.addr = x /\ q.span = p.span

WellDeclared(t) == SlotsApart(t) /\ KeepsBytes(t) /\ Declared(t) /\ Recognised(t)

(* Every patch is through when the last of the table is.                   *)
LEMMA AllThrough ==
  ASSUME BuildInv, done = Len(tree.patches), SlotsApart(tree), KeepsBytes(tree)
  PROVE  LikeForLike(tree.src, lines, Range(tree.patches))
<1>1. BuildTypeOK /\ Gates
  BY DEF BuildInv
<1>2. /\ tree.src \in Seq(Text) /\ tree.patches \in Seq(Patches) /\ Range(tree.patches) \subseteq Patches
      /\ lines \in Seq(Text) /\ Len(lines) = Len(tree.src)
  BY <1>1, SourceFacts DEF BuildTypeOK
<1>3. Range(tree.patches) = {tree.patches[i] : i \in 1 .. done}
  BY <1>2 DEF Range
<1>4. PutThrough(tree.src, lines, Range(tree.patches))
  BY <1>1, <1>3 DEF Gates
<1>5. \A p, q \in Range(tree.patches) : p # q => Slots(p) \cap Slots(q) = {}
  <2> TAKE p, q \in Range(tree.patches)
  <2>1. PICK i \in DOMAIN tree.patches : p = tree.patches[i]
    BY DEF Range
  <2>2. PICK j \in DOMAIN tree.patches : q = tree.patches[j]
    BY DEF Range
  <2> QED
    BY <2>1, <2>2 DEF SlotsApart
<1> QED
  BY <1>2, <1>4, <1>5 DEF LikeForLike, KeepsBytes

(* The disassembly the author looked at, with his patches in their places. *)
Authored == [n \in DOMAIN Pristine |-> Meant(tree, n)]

LEMMA AuthoredPut ==
  ASSUME BuildInv, done = Len(tree.patches), WellDeclared(tree)
  PROVE  /\ LikeForLike(Pristine, Authored, Range(tree.patches))
         /\ \A p \in Range(tree.patches) : /\ From(Pristine, p) = p.addr /\ Over(p) = p.span
                                           /\ p.addr \in Nat /\ p.span \in Nat
<1> DEFINE ps == Range(tree.patches)
           L == Authored
<1>1. /\ Pristine \in Seq(Text) /\ ps \subseteq Patches /\ LikeForLike(tree.src, lines, ps)
      /\ Declared(tree) /\ KeepsBytes(tree)
  BY SourceFacts, AllThrough DEF BuildInv, WellDeclared
<1>2. \A p, q \in ps : p # q => Slots(p) \cap Slots(q) = {}
  BY <1>1 DEF LikeForLike
<1>3. \A p \in ps : /\ Anchored(Pristine, p) /\ From(Pristine, p) = p.addr /\ Over(p) = p.span
                    /\ p.addr \in Nat /\ p.span \in Nat /\ p.new \in Text /\ Slots(p) \subseteq DOMAIN Pristine
                    /\ p.line \in Slots(p)
  <2> TAKE p \in ps
  <2>1. p \in Patches /\ Anchored(Pristine, p) /\ PristineAddress(p.line) = p.addr
        /\ Len(Bytes(p.old)) = p.span /\ Len(Bytes(p.new)) = Len(Bytes(p.old))
    BY <1>1 DEF Declared, KeepsBytes
  <2>2. From(Pristine, p) = PristineAddress(p.line)
    BY DEF From, Addr, Upto, PristineAddress
  <2>3. p.line \in Slots(p)
    BY <2>1 DEF Slots, Patches
  <2> QED
    BY <2>1, <2>2, <2>3 DEF Over, Patches, Anchored
<1> HIDE DEF ps
<1>4. ASSUME NEW p \in ps, NEW n \in Slots(p)
      PROVE  Meant(tree, n) = IF n = p.line THEN p.new ELSE <<>>
  <2> DEFINE own == {q \in Range(tree.patches) : n \in Slots(q)}
  <2>1. own = {p}
    <3>1. p \in own
      BY DEF ps
    <3>2. \A q \in own : q = p
      BY <1>2 DEF ps
    <3> HIDE DEF own
    <3> QED
      BY <3>1, <3>2
  <2>2. (CHOOSE q \in own : TRUE) = p
    <3> HIDE DEF own
    <3> QED
      BY <2>1
  <2> QED
    BY <2>1, <2>2 DEF Meant
<1>5. \A n : (\A p \in ps : n \notin Slots(p)) => Meant(tree, n) = Pristine[n]
  BY DEF Meant, ps
<1>6. \A n \in DOMAIN Pristine : L[n] = Meant(tree, n)
  BY DEF Authored
<1>7. L \in Seq(Text) /\ Len(L) = Len(Pristine)
  <2>1. ASSUME NEW n \in DOMAIN Pristine PROVE Meant(tree, n) \in Text
    <3>1. CASE \A p \in ps : n \notin Slots(p)
      BY <1>1, <1>5, <3>1
    <3>2. CASE \E p \in ps : n \in Slots(p)
      <4>1. PICK p \in ps : n \in Slots(p)
        BY <3>2
      <4>2. <<>> \in Text
        BY DEF Text
      <4> QED
        BY <1>3, <1>4, <4>1, <4>2
    <3> QED
      BY <3>1, <3>2
  <2>2. DOMAIN Pristine = 1 .. Len(Pristine) /\ Len(Pristine) \in Nat
    BY <1>1
  <2>3. L = [n \in 1 .. Len(Pristine) |-> Meant(tree, n)]
    BY <2>2 DEF Authored
  <2> HIDE DEF L
  <2> QED
    BY <2>1, <2>2, <2>3
<1>8. PutThrough(Pristine, L, ps)
  <2>1. ASSUME NEW p \in ps
        PROVE  /\ Anchored(Pristine, p) /\ L[p.line] = p.new
               /\ \A n \in Slots(p) \ {p.line} : L[n] = <<>>
    <3>1. L[p.line] = p.new
      BY <1>3, <1>4, <1>6
    <3>2. \A n \in Slots(p) \ {p.line} : L[n] = <<>>
      BY <1>3, <1>4, <1>6
    <3> QED
      BY <1>3, <3>1, <3>2
  <2>2. \A n \in DOMAIN Pristine : (\A p \in ps : n \notin Slots(p)) => L[n] = Pristine[n]
    BY <1>5, <1>6
  <2> HIDE DEF L
  <2> QED
    BY <2>1, <2>2 DEF PutThrough
<1>9. ps \in SUBSET Patches /\ \A p \in ps : Len(Bytes(p.new)) = Len(Bytes(p.old))
  BY <1>1 DEF KeepsBytes, ps
<1>10. LikeForLike(Pristine, L, ps)
  BY <1>1, <1>2, <1>7, <1>8, <1>9 DEF LikeForLike
<1> QED
  BY <1>3, <1>10 DEF ps

(* Patches on later lines are over later bytes.                            *)
LEMMA InOrder ==
  ASSUME NEW src, NEW text, NEW ps, LikeForLike(src, text, ps), NEW p \in ps, NEW q \in ps, p.line < q.line
  PROVE  From(src, p) + Over(p) <= From(src, q)
<1>1. /\ p.line \in 1 .. Len(src) /\ q.line \in 1 .. Len(src) /\ Final(p) \in 1 .. Len(src)
      /\ Final(q) \in 1 .. Len(src) /\ q.line <= Final(q) /\ Len(src) \in Nat
      /\ Slots(p) = p.line .. Final(p) /\ Slots(q) = q.line .. Final(q)
      /\ Addr(src, Final(p)) = From(src, p) + Over(p) /\ src \in Seq(Text)
      /\ \A n \in Slots(p) : n \in Slots(q) => q = p
  BY SlotFacts DEF LikeForLike
<1>2. q.line \in Slots(q)
  BY <1>1
<1>3. q.line \notin Slots(p)
  BY <1>1, <1>2
<1>4. Final(p) <= q.line - 1 /\ Final(p) \in 0 .. Len(src) /\ q.line - 1 \in 0 .. Len(src)
  BY <1>1, <1>3
<1>5. Addr(src, Final(p)) <= Addr(src, q.line - 1)
  BY <1>1, <1>4, Addresses
<1> QED
  BY <1>1, <1>5 DEF From

(* A patch that is through has landed on bytes of its old text.            *)
LEMMA Landing ==
  ASSUME BuildInv, done = Len(tree.patches), WellDeclared(tree), NEW p \in Range(tree.patches)
  PROVE  /\ From(tree.src, p) \in 0 .. Size /\ Over(p) = p.span /\ p.span \in Nat /\ p.addr \in Nat
         /\ \/ Away(tree, p, From(tree.src, p))
            \/ \E q \in Range(tree.patches) : q.addr = From(tree.src, p) /\ q.span = p.span
<1> DEFINE x == From(tree.src, p)
<1>1. Over(p) = p.span /\ p.span \in Nat /\ p.addr \in Nat
  BY AuthoredPut
<1>2. /\ tree.src \in Seq(Text) /\ p \in Patches /\ Anchored(tree.src, p)
      /\ Image(tree.src) = Image(Pristine) /\ Len(Image(tree.src)) = Size /\ Size \in Nat
      /\ Len(Bytes(p.old)) = p.span
  BY SourceFacts, AllThrough DEF BuildInv, WellDeclared, LikeForLike, PutThrough, Declared
<1>3. x \in Nat
  BY AllThrough, SlotFacts DEF WellDeclared
<1>4. /\ x + p.span <= Size
      /\ \A j \in 1 .. p.span : Image(Pristine)[x + j] = Bytes(p.old)[j]
  BY <1>2, SlotBytes
<1> HIDE DEF x
<1>5. Stands(p, x)
  BY <1>4 DEF Stands
<1>6. x \in 0 .. Size
  BY <1>1, <1>2, <1>3, <1>4
<1>7. Away(tree, p, x) \/ \E q \in Range(tree.patches) : q.addr = x /\ q.span = p.span
  BY <1>5, <1>6 DEF WellDeclared, Recognised
<1> QED
  BY <1>1, <1>6, <1>7 DEF x

(* So no edge of a region is amid what a patch is over: not where a patch  *)
(* belongs, because that is inside a region, and not anywhere else.        *)
LEMMA BetweenEdges ==
  ASSUME BuildTypeOK, PatchesInside(tree), NEW q \in Range(tree.patches), q.addr \in Nat, q.span \in Nat,
         NEW r \in Range(tree.regions), NEW e \in {r.lo, r.hi}, q.addr < e
  PROVE  q.addr + q.span <= e
<1>1. PICK s \in Range(tree.regions) : Inside(q, s)
  BY DEF PatchesInside
<1>2. PICK i \in 1 .. Len(tree.regions) : s = tree.regions[i]
  BY Tiled DEF Range
<1>3. PICK j \in 1 .. Len(tree.regions) : r = tree.regions[j]
  BY Tiled DEF Range
<1>4. /\ s.lo \in Nat /\ s.hi \in Nat /\ r.lo \in Nat /\ r.hi \in Nat /\ r.lo < r.hi
      /\ i < j => s.hi <= r.lo
      /\ j < i => r.hi <= s.lo
      /\ i = j => r = s
  BY <1>2, <1>3, Tiled
<1>5. s.lo <= q.addr /\ q.addr + q.span <= s.hi
  <2>1. s.lo <= q.addr /\ q.addr + q.span < s.hi + (IF s.hi = Size THEN 1 ELSE 0)
    BY <1>1 DEF Inside
  <2>2. \A x \in Nat : q.addr + q.span < x + 1 \/ q.addr + q.span < x + 0 => q.addr + q.span <= x
    OBVIOUS
  <2> QED
    BY <1>4, <2>1, <2>2
<1>6. i < j \/ j < i \/ i = j
  OBVIOUS
<1>7. CASE i < j
  BY <1>4, <1>5, <1>7
<1>8. CASE j < i
  BY <1>4, <1>5, <1>8
<1>9. CASE i = j
  BY <1>4, <1>5, <1>9
<1> QED
  BY <1>6, <1>7, <1>8, <1>9

LEMMA NeverCut ==
  ASSUME BuildInv, done = Len(tree.patches), WellDeclared(tree)
  PROVE  Uncut(Range(tree.patches))
<1> SUFFICES ASSUME NEW r \in Range(tree.regions), NEW e \in {r.lo, r.hi}, NEW p \in Range(tree.patches),
                    From(tree.src, p) < e
             PROVE  From(tree.src, p) + Over(p) <= e
  BY DEF Uncut, Clear
<1>1. BuildTypeOK /\ PatchesInside(tree)
  BY DEF BuildInv, Gates
<1>2. From(tree.src, p) \in Nat /\ Over(p) = p.span /\ p.span \in Nat
  BY Landing
<1>3. e \in Nat
  <2>1. PICK j \in 1 .. Len(tree.regions) : r = tree.regions[j]
    BY <1>1, Tiled DEF Range
  <2> QED
    BY <1>1, <2>1, Tiled
<1>4. CASE Away(tree, p, From(tree.src, p))
  BY <1>2, <1>3, <1>4 DEF Away
<1>5. CASE \E q \in Range(tree.patches) : q.addr = From(tree.src, p) /\ q.span = p.span
  <2>1. PICK q \in Range(tree.patches) : q.addr = From(tree.src, p) /\ q.span = p.span
    BY <1>5
  <2>2. q.addr \in Nat /\ q.span \in Nat /\ q.addr < e
    BY <1>2, <2>1
  <2>3. q.addr + q.span <= e
    BY <1>1, <2>2, BetweenEdges
  <2> QED
    BY <1>2, <2>1, <2>3
<1> QED
  BY <1>4, <1>5, Landing

-----------------------------------------------------------------------------
(* Nothing that is listed is lost: the pieces of a bank are apart, and lie *)
(* in the window.                                                          *)
LEMMA LostByGates == BuildInv => (WellDeclared(tree) => NothingLost)
<1> SUFFICES ASSUME BuildInv, WellDeclared(tree), stage = "shipped",
                    NEW b \in Banks, NEW row \in Range(listing[b]), NEW i \in DOMAIN row.bytes
             PROVE  row.addr + i - 1 \in Window /\ image[b][row.addr + i - 1] = row.bytes[i]
  BY DEF NothingLost
<1>1. BuildTypeOK /\ Gates
  BY DEF BuildInv
<1>2. /\ EdgesOnLines /\ GuardsHold /\ done = Len(tree.patches)
      /\ listing = [c \in Banks |-> Assembled(c)] /\ image = [c \in Banks |-> Linked(c)]
  BY <1>1 DEF Gates
<1>3. LikeForLike(tree.src, lines, Range(tree.patches)) /\ Uncut(Range(tree.patches))
  BY <1>2, AllThrough, NeverCut DEF WellDeclared
<1>4. Filled
  BY <1>1, <1>2, <1>3, Buckets
<1>5. listing[b] = Assembled(b) /\ image[b] = Linked(b)
  BY <1>2
<1>6. row \in Range(Assembled(b)) /\ row \in LineRow
  <2>1. Assembled(b) \in Seq(LineRow)
    BY <1>1, <1>4, Listed DEF AsListed
  <2> QED
    BY <1>5, <2>1 DEF Range
<1> DEFINE a == row.addr + i - 1
<1>7. a \in Int /\ Covers(row, a) /\ a - row.addr + 1 = i
  <2>1. row.addr \in Int /\ i \in 1 .. Len(row.bytes) /\ Len(row.bytes) \in Nat
    BY <1>6 DEF LineRow
  <2> QED
    BY <2>1 DEF Covers
<1> HIDE DEF a
<1>8. a \in Window /\ Linked(b)[a] = row.bytes[a - row.addr + 1]
  BY <1>1, <1>2, <1>4, <1>5, <1>6, <1>7, RowsKept
<1> QED
  BY <1>5, <1>7, <1>8 DEF a

(* checkbanks.py: of a build that ships with tables their author got right *)
(* every byte the assembler emitted is in the image where it was listed,   *)
(* whatever lines the disassembly has today.                               *)
THEOREM NothingIsLost == BuildSpec => [](WellDeclared(tree) => NothingLost)
BY BuildInvariance, LostByGates, PTL

-----------------------------------------------------------------------------
(* A line is the first of one patch at most.                               *)
LEMMA OwnLine ==
  ASSUME NEW src, NEW text, NEW ps, LikeForLike(src, text, ps), NEW p \in ps, NEW q \in ps, p.line = q.line
  PROVE  p = q
<1>1. \A s \in ps : s.line \in Slots(s)
  <2> TAKE s \in ps
  <2>1. /\ s.line \in 1 .. Len(src) /\ Final(s) \in 1 .. Len(src) /\ s.line <= Final(s)
        /\ Slots(s) = s.line .. Final(s)
    BY SlotFacts
  <2> QED
    BY <2>1
<1>2. p.line \in Slots(p) /\ p.line \in Slots(q)
  BY <1>1
<1> QED
  BY <1>2 DEF LikeForLike

(* Two patches are over different bytes, whichever source they are through *)
(* in.                                                                     *)
LEMMA OneOver ==
  ASSUME NEW src, NEW text, NEW ps, LikeForLike(src, text, ps), NEW p \in ps, NEW q \in ps, NEW a \in Nat,
         From(src, p) <= a, a < From(src, p) + Over(p), From(src, q) <= a, a < From(src, q) + Over(q)
  PROVE  p = q
<1>1. /\ p.line \in Nat /\ From(src, p) \in Nat /\ Over(p) \in Nat
      /\ q.line \in Nat /\ From(src, q) \in Nat /\ Over(q) \in Nat
  <2>1. \A s \in ps : s.line \in Nat /\ From(src, s) \in Nat /\ Over(s) \in Nat
    <3> TAKE s \in ps
    <3>1. s.line \in 1 .. Len(src) /\ Len(src) \in Nat /\ From(src, s) \in Nat /\ Over(s) \in Nat
      BY SlotFacts
    <3> QED
      BY <3>1
  <2> QED
    BY <2>1
<1>2. p.line = q.line => p = q
  BY OwnLine
<1>3. ~(p.line < q.line)
  <2>1. p.line < q.line => From(src, p) + Over(p) <= From(src, q)
    BY InOrder
  <2> QED
    BY <1>1, <2>1
<1>4. ~(q.line < p.line)
  <2>1. q.line < p.line => From(src, q) + Over(q) <= From(src, p)
    BY InOrder
  <2> QED
    BY <1>1, <2>1
<1> QED
  BY <1>1, <1>2, <1>3, <1>4

(* The audit asks for a change in the range of every patch: some patch has *)
(* landed there, and exactly there.                                        *)
LEMMA Answered ==
  ASSUME BuildInv, stage = "shipped", WellDeclared(tree), NEW p \in Range(tree.patches)
  PROVE  p.span > 0 /\ \E q \in Range(tree.patches) : From(tree.src, q) = p.addr
<1> DEFINE ps == Range(tree.patches)
<1>1. BuildTypeOK /\ Gates
  BY DEF BuildInv
<1>2. done = Len(tree.patches) /\ AuditPasses
  BY <1>1 DEF Gates
<1>3. /\ LikeForLike(tree.src, lines, ps) /\ Uncut(ps)
      /\ LikeForLike(Pristine, Authored, ps)
      /\ \A q \in ps : From(Pristine, q) = q.addr /\ Over(q) = q.span /\ q.addr \in Nat /\ q.span \in Nat
  BY <1>2, AllThrough, NeverCut, AuthoredPut DEF WellDeclared
<1>4. PICK a \in Span(p) : a \in Changed
  BY <1>2 DEF AuditPasses
<1>5. a \in Nat /\ p.addr <= a /\ a < p.addr + p.span /\ p.span > 0
  BY <1>3 DEF Span
<1>6. a \in Window /\ Image(lines)[a + 1] # Image(tree.src)[a + 1]
  <2>1. PICK r \in Range(tree.regions) : \E b \in Audited(r) : r.lo <= a /\ a < r.hi /\ image[b][a] # Stock[a]
    BY <1>4 DEF Changed
  <2>2. PICK b \in OwnersOf(r) : r.lo <= a /\ a < r.hi /\ image[b][a] # Stock[a]
    BY <2>1 DEF Audited
  <2>3. PICK i \in 1 .. Len(tree.regions) : r = tree.regions[i]
    BY <1>1, Tiled DEF Range
  <2> DEFINE k == a - r.lo + 1
  <2>4. k \in 1 .. r.hi - r.lo /\ r.lo + k - 1 = a /\ r.lo + k = a + 1
    <3>1. r.lo \in Nat /\ r.hi \in Nat
      BY <1>1, <2>3, Tiled
    <3> QED
      BY <1>5, <2>2, <3>1
  <2> HIDE DEF k
  <2>5. a \in Window /\ image[b][a] = Resolved(Image(lines)[a + 1])
    BY <1>3, <2>2, <2>3, <2>4, ImageRight
  <2>6. Stock[a] = Resolved(Image(tree.src)[a + 1])
    BY <1>1, <2>5, StockIs, SourceFacts
  <2> QED
    BY <2>2, <2>5, <2>6
<1>7. PICK q \in ps : Hits(tree.src, q, a + 1)
  <2>1. Len(Image(lines)) = Size /\ Size \in Nat
    BY <1>1, <1>3, SameSize, SourceFacts
  <2>2. a + 1 \in 1 .. Len(Image(lines))
    BY <1>5, <1>6, <2>1 DEF Window
  <2> QED
    BY <1>3, <1>6, <2>2, BytesPut
<1> DEFINE x == From(tree.src, q)
<1>8. x \in Nat /\ x <= a /\ a < x + q.span /\ Over(q) = q.span /\ q.span \in Nat
  <2>1. x \in Nat /\ Over(q) = q.span /\ q.span \in Nat
    BY <1>2, Landing
  <2> QED
    BY <1>5, <1>7, <2>1 DEF Hits
<1>9. PICK s \in ps : s.addr = x /\ s.span = q.span
  <2>1. a \in x .. x + q.span - 1
    BY <1>5, <1>8
  <2>2. Span(p) \cap (x .. x + q.span - 1) # {}
    BY <2>1
  <2>3. ~Away(tree, q, x)
    BY <2>2 DEF Away
  <2> QED
    BY <1>2, <2>3, Landing
<1> HIDE DEF x
<1>10. s = p
  <2>1. /\ From(Pristine, s) <= a /\ a < From(Pristine, s) + Over(s)
        /\ From(Pristine, p) <= a /\ a < From(Pristine, p) + Over(p)
    BY <1>3, <1>5, <1>8, <1>9
  <2> QED
    BY <1>3, <1>5, <2>1, OneOver
<1> QED
  BY <1>5, <1>9, <1>10 DEF x

(* So every patch has landed where it is declared.  If one had landed      *)
(* early, the one that landed in its place would be a later one, and early *)
(* as well; and so on, past the end of the table.                          *)
LEMMA Landed ==
  ASSUME BuildInv, stage = "shipped", WellDeclared(tree), NEW p0 \in Range(tree.patches)
  PROVE  From(tree.src, p0) = p0.addr
<1> DEFINE ps == Range(tree.patches)
           x(p) == From(tree.src, p)
           Early == {p \in ps : x(p) < p.addr}
           Late == {p \in ps : p.addr < x(p)}
<1>1. BuildTypeOK /\ done = Len(tree.patches)
  BY DEF BuildInv, Gates
<1>2. LikeForLike(tree.src, lines, ps) /\ LikeForLike(Pristine, Authored, ps)
  BY <1>1, AllThrough, AuthoredPut DEF WellDeclared
<1>3. \A p \in ps : /\ From(Pristine, p) = p.addr /\ Over(p) = p.span /\ p.addr \in Nat /\ p.span \in Nat
                    /\ x(p) \in Nat /\ p.span > 0 /\ p.line \in Nat
  <2> TAKE p \in ps
  <2>1. From(Pristine, p) = p.addr /\ Over(p) = p.span /\ p.addr \in Nat /\ p.span \in Nat
    BY <1>1, AuthoredPut
  <2>2. x(p) \in Nat /\ p.line \in Nat
    <3>1. From(tree.src, p) \in Nat /\ p.line \in 1 .. Len(tree.src)
      BY <1>2, SlotFacts
    <3> QED
      BY <3>1
  <2>3. p.span > 0
    BY Answered
  <2> QED
    BY <2>1, <2>2, <2>3
<1>4. \A p \in ps : p.addr <= Size /\ Size \in Nat
  <2> TAKE p \in ps
  <2>1. From(Pristine, p) + Over(p) <= Len(Image(Authored)) /\ Len(Image(Authored)) = Size
    BY <1>2, BytesPut, SameSize DEF Size
  <2>2. Size \in Nat
    BY <1>1, SourceFacts
  <2> QED
    BY <1>3, <2>1, <2>2
<1>5. \A p \in ps : \E q \in ps : x(q) = p.addr
  BY Answered
<1>6. \A p, q \in ps : /\ p.line = q.line => p = q
                       /\ p.line < q.line => x(p) < x(q) /\ p.addr < q.addr
  <2> TAKE p, q \in ps
  <2>1. p.line = q.line => p = q
    BY <1>2, OwnLine
  <2>2. ASSUME p.line < q.line PROVE x(p) < x(q) /\ p.addr < q.addr
    <3>1. x(p) + Over(p) <= x(q) /\ From(Pristine, p) + Over(p) <= From(Pristine, q)
      BY <1>2, <2>2, InOrder
    <3> QED
      BY <1>3, <3>1
  <2> QED
    BY <2>1, <2>2
<1>7. p0 \in ps
  OBVIOUS
<1> HIDE DEF ps, x
<1>8. Early = {}
  <2> SUFFICES ASSUME Early # {} PROVE FALSE
    OBVIOUS
  <2> DEFINE T == {Size - p.addr : p \in Early}
  <2>1. T \subseteq Nat /\ T # {}
    <3>1. \A p \in Early : Size - p.addr \in Nat
      BY <1>3, <1>4
    <3> QED
      BY <3>1
  <2>2. PICK n \in T : \A m \in T : n <= m
    <3> HIDE DEF T
    <3> QED
      BY <2>1, Smallest, Zenon
  <2>3. PICK p \in Early : n = Size - p.addr
    BY <2>2
  <2>4. PICK q \in ps : x(q) = p.addr
    BY <1>5
  <2>5. p \in ps /\ x(p) < x(q)
    BY <2>3, <2>4
  <2>6. p.line < q.line
    BY <1>3, <1>6, <2>5
  <2>7. x(q) < q.addr
    BY <1>6, <2>4, <2>5, <2>6
  <2>8. q \in Early
    BY <2>7
  <2>9. Size - p.addr <= Size - q.addr
    BY <2>2, <2>3, <2>8
  <2>10. p.addr < q.addr
    BY <2>4, <2>7
  <2> QED
    BY <1>3, <1>4, <2>4, <2>5, <2>9, <2>10
<1>9. Late = {}
  <2> SUFFICES ASSUME Late # {} PROVE FALSE
    OBVIOUS
  <2> DEFINE T == {p.addr : p \in Late}
  <2>1. T \subseteq Nat /\ T # {}
    BY <1>3
  <2>2. PICK n \in T : \A m \in T : n <= m
    <3> HIDE DEF T
    <3> QED
      BY <2>1, Smallest, Zenon
  <2>3. PICK p \in Late : n = p.addr
    BY <2>2
  <2>4. PICK q \in ps : x(q) = p.addr
    BY <1>5
  <2>5. p \in ps /\ x(q) < x(p)
    BY <2>3, <2>4
  <2>6. q.line < p.line
    BY <1>3, <1>6, <2>5
  <2>7. q.addr < x(q)
    BY <1>6, <2>4, <2>5, <2>6
  <2>8. q \in Late
    BY <2>7
  <2>9. p.addr <= q.addr
    BY <2>2, <2>3, <2>8
  <2>10. q.addr < p.addr
    BY <2>4, <2>7
  <2> QED
    BY <1>3, <2>5, <2>9, <2>10
<1>10. x(p0) \in Nat /\ p0.addr \in Nat /\ ~(x(p0) < p0.addr) /\ ~(p0.addr < x(p0))
  BY <1>3, <1>7, <1>8, <1>9
<1>11. x(p0) = p0.addr
  BY <1>10
<1> QED
  BY <1>11 DEF x

(* So today's disassembly and the author's are the same bytes, patched.    *)
LEMMA AsAuthored ==
  ASSUME BuildInv, stage = "shipped", WellDeclared(tree)
  PROVE  /\ LikeForLike(Pristine, Authored, Range(tree.patches))
         /\ Image(lines) = Image(Authored) /\ Len(Image(Pristine)) = Size
         /\ \A r \in Range(tree.regions) :
              Clear(Pristine, Range(tree.patches), r.lo) /\ Clear(Pristine, Range(tree.patches), r.hi)
<1> DEFINE ps == Range(tree.patches)
<1>1. BuildTypeOK /\ done = Len(tree.patches)
  BY DEF BuildInv, Gates
<1>2. /\ LikeForLike(tree.src, lines, ps) /\ LikeForLike(Pristine, Authored, ps) /\ Uncut(ps)
      /\ Image(tree.src) = Image(Pristine)
  BY <1>1, AllThrough, AuthoredPut, NeverCut, SourceFacts DEF WellDeclared
<1>3. \A p \in ps : From(tree.src, p) = From(Pristine, p)
  BY <1>1, Landed, AuthoredPut
<1> HIDE DEF ps
<1>4. Image(lines) = Image(Authored)
  BY <1>2, <1>3, SameBytes
<1>5. \A e : Clear(tree.src, ps, e) => Clear(Pristine, ps, e)
  BY <1>3 DEF Clear
<1> QED
  BY <1>2, <1>4, <1>5 DEF Uncut, Size, ps

(* The edges are between the lines he looked at.                           *)
LEMMA AuthorEdges ==
  ASSUME BuildTypeOK, Declared(tree), NEW r \in Range(tree.regions), NEW e \in {r.lo, r.hi}
  PROVE  e \in Edges(Pristine)
<1>1. Pristine \in Seq(Text) /\ Len(Pristine) \in Nat
  BY SourceFacts
<1>2. e \in {0, Size} \cup {PristineAddress(n) : n \in DOMAIN Pristine}
  BY DEF Declared
<1>3. Addr(Pristine, 0) = 0 /\ Addr(Pristine, Len(Pristine)) = Size
  BY <1>1, Addresses DEF Addr, Size
<1>4. 0 \in 0 .. Len(Pristine) /\ Len(Pristine) \in 0 .. Len(Pristine)
  BY <1>1
<1>5. ASSUME NEW n \in DOMAIN Pristine PROVE PristineAddress(n) \in Edges(Pristine)
  <2>1. n - 1 \in 0 .. Len(Pristine)
    BY <1>1
  <2> QED
    BY <2>1 DEF PristineAddress, Addr, Upto, Edges
<1> QED
  BY <1>2, <1>3, <1>4, <1>5 DEF Edges

(* What he means a region to hold is what his own source files under it.   *)
LEMMA MeantIs ==
  ASSUME BuildTypeOK, NEW r
  PROVE  MeantBytes(tree, r) = Bytes(Filed(Pristine, Authored, r))
<1> DEFINE In(n) == r.lo <= PristineAddress(n) /\ PristineAddress(n) < r.hi
           M == [n \in DOMAIN Pristine |-> IF In(n) THEN Meant(tree, n) ELSE <<>>]
           F == [n \in DOMAIN Authored |->
                   IF r.lo <= Addr(Pristine, n - 1) /\ Addr(Pristine, n - 1) < r.hi THEN Authored[n] ELSE <<>>]
<1>1. DOMAIN Authored = DOMAIN Pristine /\ \A n \in DOMAIN Pristine : Authored[n] = Meant(tree, n)
  BY DEF Authored
<1>2. \A n : Addr(Pristine, n - 1) = PristineAddress(n)
  BY DEF Addr, Upto, PristineAddress
<1>3. F = M
  BY <1>1, <1>2
<1>4. MeantBytes(tree, r) = Image(M)
  BY DEF MeantBytes
<1>5. Filed(Pristine, Authored, r) = FlattenSeq(F)
  BY DEF Filed
<1> QED
  BY <1>3, <1>4, <1>5, Zenon DEF Image

LEMMA ShipsByGates == BuildInv => (WellDeclared(tree) => ShipsThePatch)
<1> SUFFICES ASSUME BuildInv, WellDeclared(tree), stage = "shipped", NEW r \in Range(tree.regions)
             PROVE  /\ Len(MeantBytes(tree, r)) = r.hi - r.lo
                    /\ \A b \in OwnersOf(r) : \A i \in DOMAIN MeantBytes(tree, r) :
                         image[b][r.lo + i - 1] =
                           IF MeantBytes(tree, r)[i] = "REG" THEN "mirror" ELSE MeantBytes(tree, r)[i]
  BY DEF ShipsThePatch
<1> DEFINE ps == Range(tree.patches)
           meant == MeantBytes(tree, r)
<1>1. BuildTypeOK /\ done = Len(tree.patches) /\ Declared(tree)
  BY DEF BuildInv, Gates, WellDeclared
<1>2. /\ LikeForLike(Pristine, Authored, ps) /\ Image(lines) = Image(Authored)
      /\ Len(Image(Pristine)) = Size /\ Clear(Pristine, ps, r.lo) /\ Clear(Pristine, ps, r.hi)
  BY AsAuthored
<1>3. LikeForLike(tree.src, lines, ps) /\ Uncut(ps)
  BY <1>1, AllThrough, NeverCut DEF WellDeclared
<1>4. PICK j \in 1 .. Len(tree.regions) : r = tree.regions[j]
  BY <1>1, Tiled DEF Range
<1>5. r.lo \in Nat /\ r.hi \in Nat /\ r.lo < r.hi /\ r.hi <= Size
  BY <1>1, <1>4, Tiled
<1>6. r.lo \in Edges(Pristine) /\ r.hi \in Edges(Pristine)
  BY <1>1, AuthorEdges
<1>7. r.lo <= r.hi /\ r.hi <= Len(Image(Pristine))
  BY <1>2, <1>5
<1> HIDE DEF ps
<1>8. /\ Filed(Pristine, Authored, r) \in Text /\ Len(Bytes(Filed(Pristine, Authored, r))) = r.hi - r.lo
      /\ \A k \in 1 .. r.hi - r.lo : Bytes(Filed(Pristine, Authored, r))[k] = Image(Authored)[r.lo + k]
  BY <1>2, <1>5, <1>6, <1>7, FiledRight
<1>9. Len(meant) = r.hi - r.lo /\ \A k \in 1 .. r.hi - r.lo : meant[k] = Image(lines)[r.lo + k]
  BY <1>1, <1>2, <1>8, MeantIs
<1>10. DOMAIN meant = 1 .. r.hi - r.lo
  <2>1. Bytes(Filed(Pristine, Authored, r)) \in Seq(STRING)
    BY <1>8, FlattenType DEF Text, Bytes
  <2>2. meant \in Seq(STRING)
    BY <1>1, <2>1, MeantIs
  <2> HIDE DEF meant
  <2> QED
    BY <1>9, <2>2
<1> HIDE DEF meant
<1>11. ASSUME NEW b \in OwnersOf(r), NEW i \in DOMAIN meant
       PROVE  image[b][r.lo + i - 1] = IF meant[i] = "REG" THEN "mirror" ELSE meant[i]
  <2>1. image[b][r.lo + i - 1] = Resolved(Image(lines)[r.lo + i])
    BY <1>3, <1>4, <1>10, ImageRight DEF ps
  <2>2. meant[i] = Image(lines)[r.lo + i]
    BY <1>9, <1>10
  <2>3. \A c : c # "REG" => Resolved(c) = c
    BY Zenon DEF Resolved
  <2> QED
    BY <2>1, <2>2, <2>3, Mirror
<1> QED
  BY <1>9, <1>11 DEF meant

(* patches.py, "a shifted line is a loud build error rather than a silent  *)
(* mis-patch": with tables their author got right, an image that ships has *)
(* every patch whole and in its place in every bank that runs it, and the  *)
(* stock text around it, whatever lines the disassembly has today.         *)
THEOREM PatchesShipWhole == BuildSpec => [](WellDeclared(tree) => ShipsThePatch)
BY BuildInvariance, ShipsByGates, PTL
==============================================================================
