----------------------------- MODULE HooksProofs ------------------------------
(* What git-op's rewriting does to the lines of a hook, for every hook; and   *)
(* that no step of Hooks breaks its types or loses a user's line (HooksInv).  *)
(* GlobalInstallProofs and CommandProofs rest on these lemmas.                *)
EXTENDS Hooks, FilterTheorems, FiniteSetTheorems, TLAPS

NotOwned == {line \in Lines : ~OwnsLine(line)}
Mine == UserLines \cup {"binary"}

\* The entries of a sequence.
LEMMA EntriesOfSeq ==
    ASSUME NEW S, NEW s \in Seq(S)
    PROVE  ToSet(s) = {s[i] : i \in 1 .. Len(s)} /\ ToSet(s) \subseteq S /\ Len(s) \in Nat
BY LenProperties, ElementOfSeq DEF ToSet

LEMMA OwnedFacts ==
    ASSUME NEW lines \in Seq(Lines)
    PROVE  /\ Owned(lines) \subseteq 1 .. Len(lines)
           /\ Owned(lines) = {} <=> \A i \in 1 .. Len(lines) : lines[i] \in NotOwned
           /\ \A i \in 1 .. Len(lines) : i \in Owned(lines) <=> lines[i] \in OwnedLines
BY ElementOfSeq DEF Owned, OwnsLine, NotOwned

LEMMA FirstOwned ==
    ASSUME NEW lines \in Seq(Lines), Owned(lines) # {}
    PROVE  /\ Min(Owned(lines)) \in Owned(lines) /\ Min(Owned(lines)) \in 1 .. Len(lines)
           /\ \A i \in 1 .. Min(Owned(lines)) - 1 : lines[i] \in NotOwned
<1>1. Owned(lines) \subseteq 1 .. Len(lines) /\ Len(lines) \in Nat  BY OwnedFacts, LenProperties
<1>2. PICK first \in Owned(lines) : \A i \in Owned(lines) : first <= i  BY <1>1, LeastNumber
<1>3. Min(Owned(lines)) \in Owned(lines) /\ \A i \in Owned(lines) : Min(Owned(lines)) <= i
  BY <1>2 DEF Min
<1>4. ASSUME NEW i \in 1 .. Min(Owned(lines)) - 1 PROVE lines[i] \in NotOwned
  <2>1. i \in 1 .. Len(lines) /\ i \notin Owned(lines)  BY <1>1, <1>3, <1>4
  <2> QED  BY <2>1, ElementOfSeq DEF Owned, NotOwned
<1> QED  BY <1>1, <1>3, <1>4

-----------------------------------------------------------------------------
(* A user's commands, and git-op's.                                           *)

LEMMA MineIsNotOwned == Mine \subseteq NotOwned /\ "#!" \notin Mine /\ "legacy" \notin Mine
                        /\ Mine \cap OwnedLines = {}
BY LinesAssumption DEF Mine, NotOwned, OwnsLine, OwnedLines, Lines

LEMMA OwnedLinesFacts ==
    /\ OwnedLines \subseteq Lines /\ {"current", "older"} \cup MixedLines = OwnedLines
    /\ OwnedLines \cap {"#!", "legacy", "binary"} = {}
BY LinesAssumption DEF OwnedLines, Lines

LEMMA YoursFacts ==
    ASSUME NEW lines \in Seq(Lines)
    PROVE  /\ Yours(lines) \in Seq(Lines)
           /\ Yours(lines) = <<>> <=> \A i \in 1 .. Len(lines) : lines[i] \notin Mine
<1>1. Yours(lines) \in Seq(Lines \cap Mine)  BY KeptSeq DEF Yours, Mine
<1>2. Yours(lines) \in Seq(Lines)
  <2>1. Lines \cap Mine \subseteq Lines  OBVIOUS
  <2> QED  BY <1>1, <2>1, SeqMonotonic, Zenon
<1> QED  BY <1>2, KeptNothing DEF Yours, Mine

\* Leaving out git-op's lines leaves every other line.
LEMMA StrippedFacts ==
    ASSUME NEW lines \in Seq(Lines)
    PROVE  /\ Stripped(lines) \in Seq(Lines) /\ Owned(Stripped(lines)) = {}
           /\ Stripped(lines) = lines <=> Owned(lines) = {}
           /\ Yours(Stripped(lines)) = Yours(lines)
           /\ ToSet(Stripped(lines)) \subseteq ToSet(lines)
           /\ OnlyShebang(Stripped(lines)) => Yours(lines) = <<>>
<1> DEFINE s == Stripped(lines)
<1>1. s = Kept(lines, NotOwned)  BY DEF Stripped, Others, NotOwned
<1>2. s \in Seq(Lines) /\ Owned(s) = {}
  <2>1. s \in Seq(Lines \cap NotOwned)  BY <1>1, KeptSeq
  <2>2. s \in Seq(Lines)
    <3>1. Lines \cap NotOwned \subseteq Lines  OBVIOUS
    <3> HIDE DEF s
    <3> QED  BY <2>1, <3>1, SeqMonotonic, Zenon
  <2>3. \A i \in 1 .. Len(s) : s[i] \in NotOwned  BY <2>1, ElementOfSeq
  <2> QED  BY <2>2, <2>3, OwnedFacts
<1>3. s = lines <=> Owned(lines) = {}  BY <1>1, KeptAll, OwnedFacts
<1>4. Yours(s) = Yours(lines)
  <2>1. NotOwned \cap Mine = Mine  BY MineIsNotOwned
  <2>2. Kept(Kept(lines, NotOwned), Mine) = Kept(lines, Mine)  BY <2>1, KeptKept
  <2> QED  BY <1>1, <2>2 DEF Yours, Mine
<1>5. ToSet(s) \subseteq ToSet(lines)
  <2>1. ToSet(s) = {s[i] : i \in 1 .. Len(s)} /\ ToSet(lines) = {lines[i] : i \in 1 .. Len(lines)}
    BY <1>2, EntriesOfSeq
  <2>2. \A i \in 1 .. Len(s) : \E j \in 1 .. Len(lines) : lines[j] = s[i]
    BY <1>1, KeptEntries
  <2> HIDE DEF s
  <2> QED  BY <2>1, <2>2
<1>6. OnlyShebang(s) => Yours(lines) = <<>>
  <2>1. OnlyShebang(s) => \A i \in 1 .. Len(s) : s[i] \notin Mine  BY MineIsNotOwned DEF OnlyShebang
  <2> QED  BY <1>2, <1>4, <2>1, YoursFacts
<1> QED  BY <1>2, <1>3, <1>4, <1>5, <1>6

\* git-op's command, once and in the current spelling.
OwnedOnce(lines) ==
    {lines[i] : i \in Owned(lines)} = {"current"} /\ Cardinality(Owned(lines)) = 1

\* Rewriting a hook puts git-op's command where its first line was, once, and
\* leaves every other line.
LEMMA RewrittenFacts ==
    ASSUME NEW lines \in Seq(Lines), Owned(lines) # {}
    PROVE  /\ Rewritten(lines) \in Seq(Lines) /\ Rewritten(lines) # <<>>
           /\ OwnedOnce(Rewritten(lines))
           /\ Yours(Rewritten(lines)) = Yours(lines)
           /\ ToSet(Rewritten(lines)) \subseteq ToSet(lines) \cup {"current"}
<1> DEFINE first == Min(Owned(lines))
           before == SubSeq(lines, 1, first - 1)
           rest == SubSeq(lines, first + 1, Len(lines))
           after == Kept(rest, NotOwned)
           r == before \o <<"current">> \o after
<1>1. /\ first \in 1 .. Len(lines) /\ Len(lines) \in Nat
      /\ lines[first] \in OwnedLines /\ \A i \in 1 .. first - 1 : lines[i] \in NotOwned
  BY FirstOwned, OwnedFacts, LenProperties
<1>2. Rewritten(lines) = r  BY DEF Rewritten, Others, NotOwned
<1> HIDE DEF first
<1>3. before \in Seq(Lines) /\ Len(before) = first - 1 /\ \A i \in 1 .. first - 1 : before[i] = lines[i]
  <2>1. \A i \in 1 .. first - 1 : lines[i] \in Lines  BY <1>1, ElementOfSeq
  <2>2. 1 \in Int /\ first - 1 \in Int  BY <1>1
  <2>3. /\ before \in Seq(Lines)
        /\ Len(before) = IF 1 <= first - 1 THEN first - 1 - 1 + 1 ELSE 0
        /\ \A i \in 1 .. first - 1 - 1 + 1 : before[i] = lines[1 + i - 1]
    BY <2>1, <2>2, SubSeqProperties
  <2> HIDE DEF before
  <2> QED  BY <1>1, <2>3
<1>4. rest \in Seq(Lines) /\ Len(rest) = Len(lines) - first
      /\ \A i \in 1 .. Len(lines) - first : rest[i] = lines[first + i]
  <2>1. \A i \in first + 1 .. Len(lines) : lines[i] \in Lines  BY <1>1, ElementOfSeq
  <2>2. first + 1 \in Int /\ Len(lines) \in Int  BY <1>1
  <2>3. /\ rest \in Seq(Lines)
        /\ Len(rest) = IF first + 1 <= Len(lines) THEN Len(lines) - (first + 1) + 1 ELSE 0
        /\ \A i \in 1 .. Len(lines) - (first + 1) + 1 : rest[i] = lines[first + 1 + i - 1]
    BY <2>1, <2>2, SubSeqProperties
  <2> HIDE DEF rest
  <2> QED  BY <1>1, <2>3
<1> HIDE DEF before, rest
<1>5. after \in Seq(NotOwned) /\ after \in Seq(Lines)
  <2>1. after \in Seq(Lines \cap NotOwned)  BY <1>4, KeptSeq
  <2>2. Lines \cap NotOwned \subseteq NotOwned /\ Lines \cap NotOwned \subseteq Lines  OBVIOUS
  <2> HIDE DEF after
  <2> QED  BY <2>1, <2>2, SeqMonotonic, Zenon
<1>6. <<"current">> \in Seq(Lines) /\ Len(<<"current">>) = 1 /\ <<"current">>[1] = "current"
  BY DEF Lines
<1>7. \A i \in 1 .. Len(after) : after[i] \in NotOwned /\ \E j \in 1 .. Len(lines) : lines[j] = after[i]
  <2>1. ASSUME NEW i \in 1 .. Len(after) PROVE \E j \in 1 .. Len(lines) : lines[j] = after[i]
    <3>1. PICK j \in 1 .. Len(rest) : rest[j] = after[i]  BY <1>4, KeptEntries
    <3>2. first + j \in 1 .. Len(lines) /\ lines[first + j] = after[i]  BY <1>1, <1>4, <3>1
    <3> QED  BY <3>2
  <2> QED  BY <1>5, <2>1, ElementOfSeq
<1>8. lines = before \o <<lines[first]>> \o rest
  <2>1. <<lines[first]>> \in Seq(Lines) /\ Len(<<lines[first]>>) = 1 /\ <<lines[first]>>[1] = lines[first]
    BY <1>1, ElementOfSeq
  <2> DEFINE one == <<lines[first]>>
             both == before \o one
  <2>2. /\ both \in Seq(Lines) /\ Len(both) = first
        /\ \A i \in 1 .. first : both[i] = lines[i]
    <3> HIDE DEF one
    <3>1. /\ both \in Seq(Lines) /\ Len(both) = Len(before) + Len(one)
          /\ \A i \in 1 .. Len(before) + Len(one) :
               both[i] = IF i <= Len(before) THEN before[i] ELSE one[i - Len(before)]
      BY <1>3, <2>1, ConcatProperties DEF one
    <3>2. Len(one) = 1 /\ one[1] = lines[first]  BY <2>1 DEF one
    <3> HIDE DEF both
    <3> QED  BY <1>1, <1>3, <3>1, <3>2
  <2> HIDE DEF both
  <2>3. /\ both \o rest \in Seq(Lines) /\ Len(both \o rest) = Len(both) + Len(rest)
        /\ \A i \in 1 .. Len(both) + Len(rest) :
             (both \o rest)[i] = IF i <= Len(both) THEN both[i] ELSE rest[i - Len(both)]
    BY <1>4, <2>2, ConcatProperties
  <2> DEFINE all == both \o rest
  <2>4. all \in Seq(Lines) /\ Len(all) = Len(lines) /\ \A i \in 1 .. Len(lines) : all[i] = lines[i]
    <3> HIDE DEF all
    <3>1. /\ all \in Seq(Lines) /\ Len(all) = Len(both) + Len(rest)
          /\ \A i \in 1 .. Len(both) + Len(rest) :
               all[i] = IF i <= Len(both) THEN both[i] ELSE rest[i - Len(both)]
      BY <2>3 DEF all
    <3> QED  BY <1>1, <1>4, <2>2, <3>1
  <2> HIDE DEF all
  <2>5. all = lines  BY <2>4, SeqEqual
  <2> QED  BY <2>5 DEF all, both
<1>9. Yours(r) = Yours(lines)
  <2> DEFINE K(s) == Kept(s, Mine)
  <2>1. \A s, t \in Seq(Lines) : K(s \o t) = K(s) \o K(t)  BY KeptConcat
  <2>2. K(after) = K(rest)
    <3>1. NotOwned \cap Mine = Mine  BY MineIsNotOwned
    <3> QED  BY <1>4, <3>1, KeptKept
  <2>3. K(<<"current">>) = <<>> /\ K(<<lines[first]>>) = <<>>
    <3>1. \A x \in OwnedLines : <<x>> \in Seq(Lines) /\ Len(<<x>>) = 1 /\ <<x>>[1] = x
      BY OwnedLinesFacts
    <3>2. \A x \in OwnedLines : \A i \in 1 .. Len(<<x>>) : <<x>>[i] \notin Mine
      BY <3>1, MineIsNotOwned
    <3>3. "current" \in OwnedLines  BY OwnedLinesFacts
    <3> QED  BY <1>1, <3>1, <3>2, <3>3, KeptNothing
  <2>4. /\ before \o <<"current">> \in Seq(Lines) /\ before \o <<lines[first]>> \in Seq(Lines)
        /\ <<lines[first]>> \in Seq(Lines)
    BY <1>1, <1>3, <1>6, ElementOfSeq, ConcatProperties
  <2> HIDE DEF K, after
  <2>5. ASSUME NEW a \in Seq(Lines), NEW b \in Seq(Lines), NEW c \in Seq(Lines), K(b) = <<>>
        PROVE  K(a \o b \o c) = K(a) \o K(c)
    <3>1. K(a) \in Seq(Lines \cap Mine)  BY KeptSeq DEF K
    <3>2. a \o b \in Seq(Lines)  BY ConcatProperties
    <3>3. K(a) \o <<>> = K(a)
      <4> DEFINE M == Lines \cap Mine
                 k == K(a)
      <4> HIDE DEF M, k
      <4>1. k \in Seq(M)  BY <3>1 DEF M, k
      <4>2. k \o <<>> = k  BY <4>1, ConcatEmptySeq
      <4> QED  BY <4>2 DEF k
    <3>4. K(a \o b) = K(a)  BY <2>1, <2>5, <3>3, Zenon
    <3>5. K(a \o b \o c) = K(a \o b) \o K(c)  BY <2>1, <3>2, Zenon
    <3> QED  BY <3>4, <3>5, Zenon
  <2>6. K(before \o <<"current">> \o after) = K(before \o <<lines[first]>> \o rest)
    <3>1. K(before \o <<"current">> \o after) = K(before) \o K(after)
      BY <1>3, <1>5, <1>6, <2>3, <2>5, Zenon
    <3>2. K(before \o <<lines[first]>> \o rest) = K(before) \o K(rest)
      BY <1>3, <1>4, <2>3, <2>4, <2>5, Zenon
    <3> QED  BY <2>2, <3>1, <3>2, Zenon
  <2>7. K(r) = K(lines)  BY <1>8, <2>6, Zenon
  <2> QED  BY <2>7 DEF Yours, Mine, K
<1> HIDE DEF after
<1> DEFINE head == before \o <<"current">>
<1>10. /\ head \in Seq(Lines) /\ Len(head) = first /\ head[first] = "current"
       /\ \A i \in 1 .. first - 1 : head[i] = lines[i]
  <2> DEFINE one == <<"current">>
  <2> HIDE DEF one
  <2>1. one \in Seq(Lines) /\ Len(one) = 1 /\ one[1] = "current"  BY <1>6 DEF one
  <2>2. /\ before \o one \in Seq(Lines) /\ Len(before \o one) = Len(before) + Len(one)
        /\ \A i \in 1 .. Len(before) + Len(one) :
             (before \o one)[i] = IF i <= Len(before) THEN before[i] ELSE one[i - Len(before)]
    BY <1>3, <2>1, ConcatProperties
  <2> DEFINE both == before \o one
  <2>3. both = head  BY DEF one
  <2> HIDE DEF both
  <2>4. /\ both \in Seq(Lines) /\ Len(both) = Len(before) + Len(one)
        /\ \A i \in 1 .. Len(before) + Len(one) :
             both[i] = IF i <= Len(before) THEN before[i] ELSE one[i - Len(before)]
    BY <2>2 DEF both
  <2>5. /\ both \in Seq(Lines) /\ Len(both) = first /\ both[first] = "current"
        /\ \A i \in 1 .. first - 1 : both[i] = lines[i]
    BY <1>1, <1>3, <2>1, <2>4
  <2> QED  BY <2>3, <2>5
<1> HIDE DEF head
<1>11. /\ r \in Seq(Lines) /\ Len(r) = first + Len(after) /\ Len(after) \in Nat
       /\ \A i \in 1 .. first : r[i] = head[i]
       /\ \A i \in first + 1 .. Len(r) : r[i] = after[i - first] /\ i - first \in 1 .. Len(after)
  <2> DEFINE whole == head \o after
  <2>1. whole = r  BY DEF head
  <2>2. /\ whole \in Seq(Lines) /\ Len(whole) = Len(head) + Len(after)
        /\ \A i \in 1 .. Len(head) + Len(after) :
             whole[i] = IF i <= Len(head) THEN head[i] ELSE after[i - Len(head)]
    BY <1>5, <1>10, ConcatProperties
  <2>3. Len(after) \in Nat  BY <1>5, LenProperties
  <2> HIDE DEF whole, r
  <2>4. /\ whole \in Seq(Lines) /\ Len(whole) = first + Len(after)
        /\ \A i \in 1 .. first : whole[i] = head[i]
        /\ \A i \in first + 1 .. Len(whole) : whole[i] = after[i - first] /\ i - first \in 1 .. Len(after)
    BY <1>1, <1>10, <2>2, <2>3
  <2> QED  BY <2>1, <2>3, <2>4
<1> HIDE DEF r
<1>12. Owned(r) = {first} /\ r[first] = "current"
  <2>1. ASSUME NEW i \in 1 .. Len(r) PROVE r[i] \in OwnedLines <=> i = first
    <3>1. CASE i < first
      BY <1>1, <1>10, <1>11, <3>1 DEF NotOwned, OwnsLine
    <3>2. CASE i = first  BY <1>1, <1>10, <1>11, <3>2, OwnedLinesFacts
    <3>3. CASE i > first
      <4>1. r[i] \in NotOwned  BY <1>1, <1>7, <1>11, <3>3
      <4> QED  BY <1>1, <3>3, <4>1 DEF NotOwned, OwnsLine
    <3> QED  BY <1>1, <3>1, <3>2, <3>3
  <2>2. first \in 1 .. Len(r)  BY <1>1, <1>11
  <2> QED  BY <1>1, <1>10, <1>11, <2>1, <2>2 DEF Owned, OwnsLine
<1>13. OwnedOnce(r)
  <2>1. {r[i] : i \in Owned(r)} = {"current"}  BY <1>12
  <2>2. Cardinality(Owned(r)) = 1  BY <1>12, FS_Singleton
  <2> QED  BY <2>1, <2>2 DEF OwnedOnce
<1>14. ToSet(r) \subseteq ToSet(lines) \cup {"current"}
  <2>1. ToSet(r) = {r[i] : i \in 1 .. Len(r)} /\ ToSet(lines) = {lines[i] : i \in 1 .. Len(lines)}
    BY <1>11, EntriesOfSeq
  <2>2. ASSUME NEW i \in 1 .. Len(r) PROVE r[i] \in ToSet(lines) \cup {"current"}
    <3>1. CASE i < first
      <4>1. r[i] = lines[i] /\ i \in 1 .. Len(lines)  BY <1>1, <1>10, <1>11, <3>1
      <4> QED  BY <2>1, <4>1
    <3>2. CASE i = first  BY <1>12, <3>2
    <3>3. CASE i > first
      <4>1. r[i] = after[i - first] /\ i - first \in 1 .. Len(after)  BY <1>1, <1>11, <3>3
      <4>2. PICK j \in 1 .. Len(lines) : lines[j] = r[i]  BY <1>7, <4>1
      <4> QED  BY <2>1, <4>2
    <3> QED  BY <1>1, <3>1, <3>2, <3>3
  <2> QED  BY <2>1, <2>2
<1>15. r # <<>>  BY <1>1, <1>11, EmptySeq
<1> QED  BY <1>2, <1>9, <1>11, <1>13, <1>14, <1>15

-----------------------------------------------------------------------------
(* The hooks there are, and what is written over them.                        *)

Files == [lines : Seq(Lines), executable : BOOLEAN]

\* Text that is none is all a hook has, and so is the body of an earlier version;
\* no hook does nothing at all.
Shape(name, lines) ==
    /\ ~ IsText(lines) => lines = <<"binary">>
    /\ "legacy" \in ToSet(lines) => IsLegacy(name, lines)
    /\ Owned(lines) = {} /\ lines # <<>> /\ ~ IsLegacy(name, lines) => Yours(lines) # <<>>

LEMMA FileOf ==
    ASSUME NEW lines \in Seq(Lines), NEW executable \in BOOLEAN
    PROVE  [lines |-> lines, executable |-> executable] \in Files
BY DEF Files

\* What an uninstall leaves.
Clean(name, lines) ==
    /\ Owned(lines) = {} /\ ~ IsLegacy(name, lines)
    /\ lines # <<>> => Yours(lines) # <<>>

\* The lines of short hooks.
LEMMA ShortHooks ==
    /\ <<>> \in Seq(Lines) /\ ToSet(<<>>) = {} /\ Len(<<>>) = 0
    /\ \A x \in Lines : <<x>> \in Seq(Lines) /\ ToSet(<<x>>) = {x} /\ <<x>> # <<>>
                        /\ Len(<<x>>) = 1 /\ <<x>>[1] = x
    /\ \A x, y \in Lines : /\ <<x, y>> \in Seq(Lines) /\ ToSet(<<x, y>>) = {x, y} /\ Len(<<x, y>>) = 2
                           /\ <<x, y>>[1] = x /\ <<x, y>>[2] = y /\ <<x, y>> # <<>>
    /\ \A x, y, z \in Lines :
         /\ <<x, y, z>> \in Seq(Lines) /\ ToSet(<<x, y, z>>) = {x, y, z} /\ Len(<<x, y, z>>) = 3
         /\ <<x, y, z>>[1] = x /\ <<x, y, z>>[2] = y /\ <<x, y, z>>[3] = z /\ <<x, y, z>> # <<>>
    /\ \A x, y, z, u \in Lines :
         /\ <<x, y, z, u>> \in Seq(Lines) /\ ToSet(<<x, y, z, u>>) = {x, y, z, u}
         /\ Len(<<x, y, z, u>>) = 4 /\ <<x, y, z, u>>[1] = x /\ <<x, y, z, u>>[2] = y
         /\ <<x, y, z, u>>[3] = z /\ <<x, y, z, u>>[4] = u /\ <<x, y, z, u>> # <<>>
<1> HIDE DEF Lines
<1>1. \A x, y, z, u \in Lines :
        /\ <<x>> \in Seq(Lines) /\ Len(<<x>>) = 1 /\ <<x>>[1] = x
        /\ <<x, y>> \in Seq(Lines) /\ Len(<<x, y>>) = 2 /\ <<x, y>>[1] = x /\ <<x, y>>[2] = y
        /\ <<x, y, z>> \in Seq(Lines) /\ Len(<<x, y, z>>) = 3
        /\ <<x, y, z>>[1] = x /\ <<x, y, z>>[2] = y /\ <<x, y, z>>[3] = z
        /\ <<x, y, z, u>> \in Seq(Lines) /\ Len(<<x, y, z, u>>) = 4
        /\ <<x, y, z, u>>[1] = x /\ <<x, y, z, u>>[2] = y /\ <<x, y, z, u>>[3] = z /\ <<x, y, z, u>>[4] = u
  OBVIOUS
<1>2. \A x, y, z, u : <<x>> # <<>> /\ <<x, y>> # <<>> /\ <<x, y, z>> # <<>> /\ <<x, y, z, u>> # <<>>
  OBVIOUS
<1>3. \A x, y, z, u : ToSet(<<x>>) = {x} /\ ToSet(<<x, y>>) = {x, y} /\ ToSet(<<x, y, z>>) = {x, y, z}
                       /\ ToSet(<<x, y, z, u>>) = {x, y, z, u}
  BY DEF ToSet
<1>4. <<>> \in Seq(Lines) /\ ToSet(<<>>) = {} /\ Len(<<>>) = 0  BY EmptySeq DEF ToSet
<1> QED  BY <1>1, <1>2, <1>3, <1>4

LEMMA OwnedIn ==
    ASSUME NEW lines \in Seq(Lines)
    PROVE  /\ Owned(lines) = {} <=> ToSet(lines) \cap OwnedLines = {}
           /\ Yours(lines) = <<>> <=> ToSet(lines) \cap Mine = {}
<1>1. ToSet(lines) = {lines[i] : i \in 1 .. Len(lines)}  BY EntriesOfSeq
<1> QED  BY <1>1, OwnedFacts, YoursFacts

LEMMA BodyFacts ==
    /\ Body \in Seq(Lines) /\ Body # <<>> /\ ToSet(Body) = {"#!", "current"}
    /\ OwnedOnce(Body) /\ Yours(Body) = <<>>
<1>1. /\ Body \in Seq(Lines) /\ Body # <<>> /\ ToSet(Body) = {"#!", "current"}
      /\ Len(Body) = 2 /\ Body[1] = "#!" /\ Body[2] = "current"
  <2>1. "#!" \in Lines /\ "current" \in Lines  BY DEF Lines
  <2> QED  BY <2>1, ShortHooks DEF Body
<1>2. Yours(Body) = <<>>  BY <1>1, OwnedIn, MineIsNotOwned, OwnedLinesFacts
<1>3. Owned(Body) = {2}  BY <1>1, OwnedLinesFacts DEF Owned, OwnsLine
<1>4. {Body[i] : i \in Owned(Body)} = {"current"} /\ Cardinality(Owned(Body)) = 1
  <2>1. {Body[i] : i \in Owned(Body)} = {"current"}  BY <1>1, <1>3
  <2>2. Cardinality(Owned(Body)) = 1  BY <1>3, FS_Singleton
  <2> QED  BY <2>1, <2>2
<1> QED  BY <1>1, <1>2, <1>4 DEF OwnedOnce

LEMMA OwnedOnceFacts ==
    ASSUME NEW lines, OwnedOnce(lines)
    PROVE  Owned(lines) # {}
BY DEF OwnedOnce

\* What an install writes in place of a hook.
LEMMA ReplacementFacts ==
    ASSUME NEW name, NEW lines \in Seq(Lines), Shape(name, lines), ~ Refused(name, lines)
    PROVE  LET r == Replacement(name, lines)
           IN  /\ r \in Seq(Lines) /\ r # <<>> /\ OwnedOnce(r)
               /\ IsText(r) /\ "legacy" \notin ToSet(r)
               /\ Yours(r) = Yours(lines)
<1>1. CASE IsLegacy(name, lines)
  <2>1. Replacement(name, lines) = Body  BY <1>1 DEF Replacement
  <2>2. ToSet(lines) = {"legacy"}
    <3>1. "legacy" \in Lines /\ lines = <<"legacy">>  BY <1>1 DEF Lines, IsLegacy
    <3> QED  BY <3>1, ShortHooks
  <2>3. Yours(lines) = <<>>  BY <2>2, OwnedIn, MineIsNotOwned
  <2> QED  BY <2>1, <2>3, BodyFacts DEF IsText
<1>2. CASE ~ IsLegacy(name, lines)
  <2>1. Owned(lines) # {} /\ IsText(lines) /\ "legacy" \notin ToSet(lines)
    BY <1>2 DEF Refused, Shape
  <2>2. Replacement(name, lines) = Rewritten(lines)  BY <1>2 DEF Replacement
  <2> QED  BY <2>1, <2>2, RewrittenFacts DEF IsText
<1> QED  BY <1>1, <1>2

\* What an uninstall writes in place of a hook, and what it removes.
LEMMA StrippedIsClean ==
    ASSUME NEW name, NEW lines \in Seq(Lines), Shape(name, lines), IsText(lines),
           ~ IsLegacy(name, lines), ~ OnlyShebang(Stripped(lines))
    PROVE  LET s == Stripped(lines)
           IN  /\ s \in Seq(Lines) /\ s # <<>> /\ Clean(name, s)
               /\ IsText(s) /\ "legacy" \notin ToSet(s)
               /\ Yours(s) = Yours(lines)
<1> DEFINE s == Stripped(lines)
<1>1. /\ s \in Seq(Lines) /\ Owned(s) = {} /\ Yours(s) = Yours(lines)
      /\ ToSet(s) \subseteq ToSet(lines)
  BY StrippedFacts
<1>2. IsText(s) /\ "legacy" \notin ToSet(s)  BY <1>1 DEF IsText, Shape
<1> HIDE DEF s
<1>3. PICK i \in 1 .. Len(s) : s[i] # "#!"  BY DEF OnlyShebang, s
<1>4. s # <<>>  BY <1>3, EmptySeq
<1>5. s[i] \in ToSet(s) /\ s[i] \in Lines  BY <1>1, <1>3, EntriesOfSeq
<1>6. s[i] \notin OwnedLines  BY <1>1, OwnedFacts
<1>7. s[i] \in Mine  BY <1>2, <1>3, <1>5, <1>6, OwnedLinesFacts DEF Lines, Mine, IsText
<1>8. Yours(s) # <<>>  BY <1>1, <1>7, YoursFacts
<1>9. ~ IsLegacy(name, s)
  <2>1. IsLegacy(name, s) => ToSet(s) = {"legacy"}  BY ShortHooks DEF IsLegacy, Lines
  <2> QED  BY <1>2, <2>1
<1> QED  BY <1>1, <1>2, <1>4, <1>8, <1>9 DEF Clean, s

LEMMA RemovedIsNobodys ==
    ASSUME NEW name, NEW lines \in Seq(Lines),
           IsLegacy(name, lines) \/ OnlyShebang(Stripped(lines))
    PROVE  Yours(lines) = <<>>
<1>1. CASE IsLegacy(name, lines)
  <2>1. ToSet(lines) = {"legacy"}  BY <1>1, ShortHooks DEF IsLegacy, Lines
  <2> QED  BY <2>1, OwnedIn, MineIsNotOwned
<1> QED  BY <1>1, StrippedFacts

LEMMA AbsentFacts ==
    /\ Absent \in Files /\ Absent.lines = <<>> /\ Yours(<<>>) = <<>> /\ Owned(<<>>) = {}
    /\ \A name : Shape(name, <<>>) /\ Clean(name, <<>>)
<1>1. <<>> \in Seq(Lines) /\ ToSet(<<>>) = {}  BY ShortHooks
<1>2. Yours(<<>>) = <<>> /\ Owned(<<>>) = {}  BY <1>1, OwnedIn
<1>3. ASSUME NEW name PROVE Shape(name, <<>>) /\ Clean(name, <<>>)
  BY <1>1, <1>2 DEF Shape, Clean, IsText, IsLegacy
<1> QED  BY <1>1, <1>2, <1>3 DEF Absent, Files

\* Hooks as git-op writes them have a shape.
LEMMA WrittenShape ==
    ASSUME NEW name, NEW lines \in Seq(Lines), IsText(lines), "legacy" \notin ToSet(lines),
           OwnedOnce(lines) \/ Clean(name, lines)
    PROVE  Shape(name, lines)
BY OwnedOnceFacts DEF Shape, Clean

\* What users put in hooks.
LEMMA UserHooks ==
    ASSUME NEW name \in Names, NEW file \in Written(name)
    PROVE  /\ file \in Files /\ Shape(name, file.lines)
           /\ file.lines = <<>> => file = Absent
<1>0. (UserLines \cup MixedLines) \cap {"#!", "current", "older", "legacy", "binary"} = {}
  BY LinesAssumption
<1>1. /\ {"#!", "current", "older", "legacy", "binary"} \subseteq Lines
      /\ UserLines \subseteq Lines /\ MixedLines \subseteq Lines
  BY DEF Lines
<1>2. CASE file = Absent  BY <1>2, AbsentFacts
<1>3. CASE file = Executable(<<"#!", "older">>)
  <2>1. file.lines = <<"#!", "older">> /\ file.executable = TRUE
        /\ file = [lines |-> file.lines, executable |-> TRUE]
    BY <1>3 DEF Executable
  <2>2. file.lines \in Seq(Lines) /\ ToSet(file.lines) = {"#!", "older"} /\ file.lines # <<>>
    BY <1>1, <2>1, ShortHooks
  <2> QED  BY <2>1, <2>2, OwnedIn, OwnedLinesFacts DEF Files, Shape, IsText
<1>4. CASE file = Executable(<<"binary">>)
  <2>1. file.lines = <<"binary">> /\ file.executable = TRUE
        /\ file = [lines |-> file.lines, executable |-> TRUE]
    BY <1>4 DEF Executable
  <2>2. file.lines \in Seq(Lines) /\ ToSet(file.lines) = {"binary"} /\ file.lines # <<>>
    BY <1>1, <2>1, ShortHooks
  <2>3. "binary" \in Mine  BY DEF Mine
  <2> QED  BY <2>1, <2>2, <2>3, OwnedIn DEF Files, Shape, IsText
<1>5. CASE file = Executable(<<"legacy">>) /\ IsLegacy(name, <<"legacy">>)
  <2>1. file.lines = <<"legacy">> /\ file.executable = TRUE
        /\ file = [lines |-> file.lines, executable |-> TRUE]
    BY <1>5 DEF Executable
  <2>2. file.lines \in Seq(Lines) /\ ToSet(file.lines) = {"legacy"} /\ file.lines # <<>>
    BY <1>1, <2>1, ShortHooks
  <2> QED  BY <1>5, <2>1, <2>2 DEF Files, Shape, IsText
<1>6. ASSUME NEW line \in UserLines, file = Executable(<<"#!", line>>)
      PROVE  file \in Files /\ Shape(name, file.lines) /\ file.lines # <<>>
  <2>1. file.lines = <<"#!", line>> /\ file.executable = TRUE
        /\ file = [lines |-> file.lines, executable |-> TRUE]
    BY <1>6 DEF Executable
  <2>2. file.lines \in Seq(Lines) /\ ToSet(file.lines) = {"#!", line} /\ file.lines # <<>>
    BY <1>1, <2>1, ShortHooks
  <2>3. line \in Mine /\ line # "binary" /\ line # "legacy"  BY <1>0 DEF Mine
  <2> QED  BY <2>1, <2>2, <2>3, OwnedIn DEF Files, Shape, IsText
<1>7. ASSUME NEW line \in UserLines, file = Executable(<<"#!", line, "older", "current">>)
      PROVE  file \in Files /\ Shape(name, file.lines) /\ file.lines # <<>>
  <2>1. file.lines = <<"#!", line, "older", "current">> /\ file.executable = TRUE
        /\ file = [lines |-> file.lines, executable |-> TRUE]
    BY <1>7 DEF Executable
  <2>2. /\ file.lines \in Seq(Lines) /\ ToSet(file.lines) = {"#!", line, "older", "current"}
        /\ file.lines # <<>>
    BY <1>1, <2>1, ShortHooks
  <2>3. line # "binary" /\ line # "legacy"  BY <1>0
  <2>4. Owned(file.lines) # {}  BY <2>2, OwnedIn, OwnedLinesFacts
  <2>5. Shape(name, file.lines)  BY <2>2, <2>3, <2>4 DEF Shape, IsText
  <2>6. file \in Files  BY <1>7, <2>1, <2>2, FileOf, Zenon DEF Executable
  <2> QED  BY <2>2, <2>5, <2>6
<1>8. ASSUME NEW line \in UserLines, file = [lines |-> <<"#!", line, "current">>, executable |-> FALSE]
      PROVE  file \in Files /\ Shape(name, file.lines) /\ file.lines # <<>>
  <2>1. file.lines = <<"#!", line, "current">> /\ file = [lines |-> file.lines, executable |-> FALSE]
    BY <1>8
  <2>2. file.lines \in Seq(Lines) /\ ToSet(file.lines) = {"#!", line, "current"} /\ file.lines # <<>>
    BY <1>1, <2>1, ShortHooks
  <2>3. line # "binary" /\ line # "legacy"  BY <1>0
  <2>4. Owned(file.lines) # {}  BY <2>2, OwnedIn, OwnedLinesFacts
  <2>5. Shape(name, file.lines)  BY <2>2, <2>3, <2>4 DEF Shape, IsText
  <2>6. file \in Files  BY <1>8, <2>1, <2>2, FileOf, Zenon
  <2> QED  BY <2>2, <2>5, <2>6
<1>9. ASSUME NEW line \in MixedLines, file = Executable(<<"#!", line>>)
      PROVE  file \in Files /\ Shape(name, file.lines) /\ file.lines # <<>>
  <2>1. file.lines = <<"#!", line>> /\ file.executable = TRUE
        /\ file = [lines |-> file.lines, executable |-> TRUE]
    BY <1>9 DEF Executable
  <2>2. file.lines \in Seq(Lines) /\ ToSet(file.lines) = {"#!", line} /\ file.lines # <<>>
    BY <1>1, <2>1, ShortHooks
  <2>3. line # "binary" /\ line # "legacy"  BY <1>0
  <2>4. Owned(file.lines) # {}  BY <2>2, OwnedIn, OwnedLinesFacts
  <2>5. Shape(name, file.lines)  BY <2>2, <2>3, <2>4 DEF Shape, IsText
  <2>6. file \in Files  BY <1>9, <2>1, <2>2, FileOf, Zenon DEF Executable
  <2> QED  BY <2>2, <2>5, <2>6
<1>10. ASSUME NEW mixed \in MixedLines, NEW line \in UserLines,
              file = Executable(<<"#!", mixed, line, "current">>)
       PROVE  file \in Files /\ Shape(name, file.lines) /\ file.lines # <<>>
  <2>1. file.lines = <<"#!", mixed, line, "current">> /\ file.executable = TRUE
        /\ file = [lines |-> file.lines, executable |-> TRUE]
    BY <1>10 DEF Executable
  <2>2. /\ file.lines \in Seq(Lines) /\ ToSet(file.lines) = {"#!", mixed, line, "current"}
        /\ file.lines # <<>>
    BY <1>1, <2>1, ShortHooks
  <2>3. {line, mixed} \cap {"binary", "legacy"} = {}  BY <1>0
  <2>4. Owned(file.lines) # {}  BY <2>2, OwnedIn, OwnedLinesFacts
  <2>5. Shape(name, file.lines)  BY <2>2, <2>3, <2>4 DEF Shape, IsText
  <2>6. file \in Files  BY <1>10, <2>1, <2>2, FileOf, Zenon DEF Executable
  <2> QED  BY <2>2, <2>5, <2>6
<1>11. \/ file \in {Absent, Executable(<<"#!", "older">>), Executable(<<"binary">>)}
       \/ file = Executable(<<"legacy">>) /\ IsLegacy(name, <<"legacy">>)
       \/ \E line \in UserLines :
            \/ file = Executable(<<"#!", line>>)
            \/ file = Executable(<<"#!", line, "older", "current">>)
            \/ file = [lines |-> <<"#!", line, "current">>, executable |-> FALSE]
       \/ \E line \in MixedLines : file = Executable(<<"#!", line>>)
       \/ \E mixed \in MixedLines : \E line \in UserLines :
            file = Executable(<<"#!", mixed, line, "current">>)
  <2> DEFINE Both(mixed) == {Executable(<<"#!", mixed, line, "current">>) : line \in UserLines}
             both == UNION {Both(mixed) : mixed \in MixedLines}
  <2>1. file \in both => \E mixed \in MixedLines : \E line \in UserLines :
                            file = Executable(<<"#!", mixed, line, "current">>)
    <3>1. file \in both => \E mixed \in MixedLines : file \in Both(mixed)  OBVIOUS
    <3>2. \A mixed : file \in Both(mixed) => \E line \in UserLines :
                         file = Executable(<<"#!", mixed, line, "current">>)
      OBVIOUS
    <3> HIDE DEF Both
    <3> QED  BY <3>1, <3>2
  <2> HIDE DEF both
  <2>2. \/ file \in {Absent, Executable(<<"#!", "older">>), Executable(<<"binary">>)}
        \/ file \in {Executable(lines) : lines \in {l \in {<<"legacy">>} : IsLegacy(name, l)}}
        \/ file \in {Executable(<<"#!", line>>) : line \in UserLines}
        \/ file \in {Executable(<<"#!", line, "older", "current">>) : line \in UserLines}
        \/ file \in {[lines |-> <<"#!", line, "current">>, executable |-> FALSE] : line \in UserLines}
        \/ file \in {Executable(<<"#!", line>>) : line \in MixedLines}
        \/ file \in both
    BY DEF Written, both
  <2> QED  BY <2>1, <2>2
<1> QED  BY <1>2, <1>3, <1>4, <1>5, <1>6, <1>7, <1>8, <1>9, <1>10, <1>11

-----------------------------------------------------------------------------
(* The steps of a process at the hooks.                                       *)

HookSteps == {"plan", "link", "adopt", "executable", "compare", "rename", "strip", "remove"}

\* Which of them belong to which command.
StepsInv ==
    \A p \in Procs :
        /\ pc[p] \in {"plan", "link", "adopt", "executable"} => op[p] = "install"
        /\ pc[p] \in {"strip", "remove"} => op[p] = "uninstall"
        /\ then[p] \in {"idle", "claimed", "check"}

\* What a process that is about to write over a hook writes.
ShapeInv ==
    /\ \A d \in Dirs, name \in Names :
         /\ Shape(name, hooks[d][name].lines)
         /\ hooks[d][name].lines = <<>> => hooks[d][name] = Absent
    /\ \A p \in Procs : pc[p] \in {"compare", "rename"} =>
         /\ expected[p] # <<>> /\ contents[p] # <<>>
         /\ IsText(contents[p]) /\ "legacy" \notin ToSet(contents[p])
         /\ op[p] = "install" => OwnedOnce(contents[p])
         /\ op[p] = "uninstall" => Clean(Name(p), contents[p])

\* Where a user's commands are between git-op's reading a hook and its writing
\* or removing it.
YoursInv ==
    \A p \in Procs :
        /\ pc[p] \in {"compare", "rename"} => Yours(contents[p]) = Yours(expected[p])
        /\ pc[p] = "rename" => Yours(contents[p]) = yours[dir[p]][Name(p)]
        /\ pc[p] = "remove" => yours[dir[p]][Name(p)] = <<>>

HooksInv == TypeOK /\ StepsInv /\ ShapeInv /\ YoursKept /\ YoursInv

LEMMA AllFacts ==
    /\ Len(All) = 2 /\ All[1] \in Names /\ All[2] \in Names
    /\ \A name \in Names : name = All[1] \/ name = All[2]
    /\ All[1] = "reference-transaction" /\ All[2] = "pre-push"
<1>1. Len(All) = 2 /\ All[1] = "reference-transaction" /\ All[2] = "pre-push"  BY DEF All
<1>2. 1 .. Len(All) = {1, 2}  BY <1>1
<1> QED  BY <1>1, <1>2 DEF Names

\* The hook a process is at.
LEMMA HookAt ==
    ASSUME TypeOK, NEW p \in Procs
    PROVE  /\ dir[p] \in Dirs /\ Name(p) \in Names /\ File(p) = hooks[dir[p]][Name(p)]
           /\ File(p) \in Files /\ File(p).lines \in Seq(Lines) /\ File(p).executable \in BOOLEAN
           /\ expected[p] \in Seq(Lines) /\ contents[p] \in Seq(Lines)
           /\ at[p] \in 1 .. 2 /\ failed[p] \in BOOLEAN /\ quiet[p] \in BOOLEAN
           /\ yours[dir[p]][Name(p)] \in Seq(Lines)
<1>1. dir[p] \in Dirs /\ at[p] \in 1 .. 2 /\ failed[p] \in BOOLEAN /\ quiet[p] \in BOOLEAN
      /\ expected[p] \in Seq(Lines) /\ contents[p] \in Seq(Lines)
  BY AllFacts DEF TypeOK
<1>2. Name(p) \in Names
  <2>1. at[p] = 1 \/ at[p] = 2  BY <1>1
  <2> QED  BY <2>1, AllFacts DEF Name
<1>3. hooks \in [Dirs -> [Names -> Files]] /\ yours \in [Dirs -> [Names -> Seq(Lines)]]
  BY DEF TypeOK, Files
<1>4. File(p) = hooks[dir[p]][Name(p)] /\ File(p) \in Files  BY <1>1, <1>2, <1>3 DEF File
<1>5. File(p).lines \in Seq(Lines) /\ File(p).executable \in BOOLEAN  BY <1>4 DEF Files
<1> QED  BY <1>1, <1>2, <1>3, <1>4, <1>5

\* One hook is written.
LEMMA WriteHook ==
    ASSUME hooks \in [Dirs -> [Names -> Files]], NEW d \in Dirs, NEW name \in Names, NEW file \in Files,
           hooks' = [hooks EXCEPT ![d][name] = file]
    PROVE  /\ hooks' \in [Dirs -> [Names -> Files]]
           /\ hooks'[d][name] = file
           /\ \A e \in Dirs, other \in Names :
                 e # d \/ other # name => hooks'[e][other] = hooks[e][other]
<1> HIDE DEF Files, Names
<1> QED  OBVIOUS

\* The other processes stay where they are.
OthersStay(p) ==
    \A q \in Procs \ {p} :
        /\ pc'[q] = pc[q] /\ at'[q] = at[q] /\ failed'[q] = failed[q] /\ outcome'[q] = outcome[q]
        /\ expected'[q] = expected[q] /\ contents'[q] = contents[q]
LocalsTyped ==
    /\ pc \in [Procs -> PCs] /\ at \in [Procs -> 1 .. 2] /\ failed \in [Procs -> BOOLEAN]
    /\ expected \in [Procs -> Seq(Lines)] /\ contents \in [Procs -> Seq(Lines)]
    /\ outcome \in [Procs -> {"none", "ok", "failed", "stopped", "killed"}]

\* Where a process goes when it is done with a hook.
NextOne(p, ok) ==
    /\ at[p] = 1 /\ at'[p] = 2 /\ failed'[p] = (failed[p] \/ ~ ok)
    /\ pc'[p] = First(op[p]) /\ outcome'[p] = outcome[p]
AfterLast(p, ok) ==
    /\ at[p] = 2 /\ at'[p] = 1 /\ failed'[p] = FALSE
    /\ \/ ok /\ ~ failed[p] /\ then[p] # "idle" /\ pc'[p] = then[p] /\ outcome'[p] = outcome[p]
       \/ /\ pc'[p] = "idle"
          /\ ok /\ ~ failed[p] => then[p] = "idle"
          /\ outcome'[p] = IF ~ quiet[p] THEN "none" ELSE IF ok /\ ~ failed[p] THEN "ok" ELSE "failed"

LEMMA DoneFrame ==
    ASSUME TypeOK, NEW p \in Procs, NEW ok \in BOOLEAN, Done(p, ok)
    PROVE  /\ OthersStay(p) /\ LocalsTyped'
           /\ expected'[p] = <<>> /\ contents'[p] = <<>>
           /\ NextOne(p, ok) \/ AfterLast(p, ok)
<1>0. /\ at[p] \in 1 .. 2 /\ failed[p] \in BOOLEAN /\ quiet[p] \in BOOLEAN
      /\ Len(All) = 2 /\ LocalsTyped /\ then[p] \in PCs /\ <<>> \in Seq(Lines)
  BY HookAt, AllFacts, ShortHooks DEF TypeOK, LocalsTyped
<1>1. CASE at[p] = 1
  <2>1. NextHook(p, ok)  BY <1>0, <1>1 DEF Done
  <2>2. First(op[p]) \in PCs  BY DEF First, PCs
  <2>3. /\ failed' = [failed EXCEPT ![p] = @ \/ ~ok] /\ pc' = [pc EXCEPT ![p] = First(op[p])]
        /\ at' = [at EXCEPT ![p] = 2] /\ outcome' = outcome
        /\ expected' = [expected EXCEPT ![p] = <<>>] /\ contents' = [contents EXCEPT ![p] = <<>>]
    BY <1>1, <2>1 DEF NextHook, Hook
  <2>4. failed'[p] = (failed[p] \/ ~ ok) /\ failed' \in [Procs -> BOOLEAN]
        /\ \A q \in Procs \ {p} : failed'[q] = failed[q]
    BY <1>0, <2>3 DEF LocalsTyped
  <2>5. at' \in [Procs -> 1 .. 2] /\ at'[p] = 2 /\ \A q \in Procs \ {p} : at'[q] = at[q]
    BY <1>0, <2>3 DEF LocalsTyped
  <2>6. OthersStay(p)  BY <1>0, <2>3, <2>4, <2>5 DEF LocalsTyped, OthersStay
  <2>7. LocalsTyped'  BY <1>0, <2>2, <2>3, <2>4, <2>5 DEF LocalsTyped
  <2>8. expected'[p] = <<>> /\ contents'[p] = <<>> /\ NextOne(p, ok)
    BY <1>0, <1>1, <2>3, <2>4, <2>5 DEF LocalsTyped, NextOne
  <2> QED  BY <2>6, <2>7, <2>8
<1>2. CASE at[p] = 2
  <2> DEFINE fine == ok /\ ~ failed[p]
  <2>1. AfterHooks(p, fine)  BY <1>0, <1>2 DEF Done
  <2>2. /\ failed' = [failed EXCEPT ![p] = FALSE] /\ at' = [at EXCEPT ![p] = 1]
        /\ expected' = [expected EXCEPT ![p] = <<>>] /\ contents' = [contents EXCEPT ![p] = <<>>]
    BY <2>1 DEF AfterHooks, Hook
  <2>3. \/ fine /\ then[p] # "idle" /\ pc' = [pc EXCEPT ![p] = then[p]] /\ outcome' = outcome
        \/ /\ pc' = [pc EXCEPT ![p] = "idle"] /\ (fine => then[p] = "idle")
           /\ outcome' = [outcome EXCEPT ![p] =
                            IF quiet[p] THEN IF fine THEN "ok" ELSE "failed" ELSE "none"]
    BY <2>1 DEF AfterHooks, End
  <2> HIDE DEF fine
  <2>4. OthersStay(p)  BY <1>0, <2>2, <2>3 DEF LocalsTyped, OthersStay
  <2>5. LocalsTyped'
    <3>1. "idle" \in PCs  BY DEF PCs
    <3>2. pc' \in [Procs -> PCs]  BY <1>0, <2>3, <3>1 DEF LocalsTyped
    <3>3. outcome' \in [Procs -> {"none", "ok", "failed", "stopped", "killed"}]
      BY <1>0, <2>3 DEF LocalsTyped
    <3>4. /\ at' \in [Procs -> 1 .. 2] /\ failed' \in [Procs -> BOOLEAN]
          /\ expected' \in [Procs -> Seq(Lines)] /\ contents' \in [Procs -> Seq(Lines)]
      BY <1>0, <2>2 DEF LocalsTyped
    <3> QED  BY <3>2, <3>3, <3>4 DEF LocalsTyped
  <2>6. expected'[p] = <<>> /\ contents'[p] = <<>> /\ at'[p] = 1 /\ failed'[p] = FALSE
    BY <1>0, <2>2 DEF LocalsTyped
  <2>7. AfterLast(p, ok)  BY <1>0, <1>2, <2>3, <2>6 DEF LocalsTyped, AfterLast, fine
  <2> QED  BY <2>4, <2>5, <2>6, <2>7
<1> QED  BY <1>0, <1>1, <1>2

\* A step within the work on one hook.
Stay(p, step) ==
    pc'[p] = step /\ at'[p] = at[p] /\ failed'[p] = failed[p] /\ outcome'[p] = outcome[p]
Read(p, lines) == expected'[p] = File(p).lines /\ contents'[p] = lines

LEMMA GotoFrame ==
    ASSUME TypeOK, NEW p \in Procs, NEW step \in PCs, Goto(p, step),
           \/ UNCHANGED <<expected, contents>>
           \/ \E e, c \in Seq(Lines) :
                /\ expected' = [expected EXCEPT ![p] = e] /\ contents' = [contents EXCEPT ![p] = c]
    PROVE  OthersStay(p) /\ LocalsTyped' /\ Stay(p, step)
<1>0. LocalsTyped /\ Len(All) = 2  BY AllFacts DEF TypeOK, LocalsTyped
<1>1. pc' = [pc EXCEPT ![p] = step] /\ UNCHANGED <<at, failed, outcome>>  BY DEF Goto
<1>2. /\ expected' \in [Procs -> Seq(Lines)] /\ contents' \in [Procs -> Seq(Lines)]
      /\ \A q \in Procs \ {p} : expected'[q] = expected[q] /\ contents'[q] = contents[q]
  BY <1>0 DEF LocalsTyped
<1>3. pc' \in [Procs -> PCs] /\ pc'[p] = step /\ \A q \in Procs \ {p} : pc'[q] = pc[q]
  BY <1>0, <1>1 DEF LocalsTyped
<1> QED  BY <1>0, <1>1, <1>2, <1>3 DEF OthersStay, LocalsTyped, Stay

\* What a process finds and does when it is done with a hook, and before.
Wrote(p, file) == hooks' = [hooks EXCEPT ![dir[p]][Name(p)] = file]
WroteIf(p, ok, file) == IF ok THEN Wrote(p, file) ELSE hooks' = hooks

Judged(p, ok) ==
    \/ /\ pc[p] \in {"plan", "adopt"} /\ File(p).lines # <<>> /\ Refused(Name(p), File(p).lines)
       /\ ~ ok /\ hooks' = hooks
    \/ pc[p] = "adopt" /\ File(p).lines = <<>> /\ hooks' = hooks
    \/ pc[p] = "link" /\ File(p).lines = <<>> /\ ok = CanWrite(p) /\ WroteIf(p, ok, Executable(Body))
    \/ /\ pc[p] = "executable" /\ ok = (File(p).lines # <<>>)
       /\ WroteIf(p, ok, Executable(File(p).lines))
    \/ /\ pc[p] = "compare" /\ ~ ok /\ (File(p).lines = <<>> \/ File(p).lines # expected[p])
       /\ hooks' = hooks
    \/ pc[p] = "rename" /\ ok = CanWrite(p) /\ WroteIf(p, ok, Executable(contents[p]))
    \/ /\ pc[p] = "strip" /\ ok /\ hooks' = hooks
       /\ ~ IsText(File(p).lines) \/ (Owned(File(p).lines) = {} /\ ~ IsLegacy(Name(p), File(p).lines))
    \/ pc[p] = "remove" /\ ok = (File(p).lines # <<>>) /\ Wrote(p, Absent)

Moved(p, step) ==
    /\ hooks' = hooks
    /\ \/ pc[p] = "plan" /\ step = "link" /\ File(p).lines = <<>> /\ contents'[p] = contents[p]
       \/ /\ pc[p] \in {"plan", "adopt"} /\ File(p).lines # <<>>
          /\ ~ Refused(Name(p), File(p).lines)
          /\ Read(p, Replacement(Name(p), File(p).lines))
          /\ step = IF Replacement(Name(p), File(p).lines) = File(p).lines
                    THEN "executable" ELSE "compare"
       \/ pc[p] = "link" /\ step = "adopt" /\ File(p).lines # <<>> /\ contents'[p] = contents[p]
       \/ /\ pc[p] = "compare" /\ step = "rename"
          /\ File(p).lines # <<>> /\ File(p).lines = expected[p] /\ Read(p, contents[p])
       \/ /\ pc[p] = "strip" /\ IsText(File(p).lines)
          /\ Owned(File(p).lines) # {} \/ IsLegacy(Name(p), File(p).lines)
          /\ Read(p, Stripped(File(p).lines))
          /\ step = IF IsLegacy(Name(p), File(p).lines) \/ OnlyShebang(Stripped(File(p).lines))
                    THEN "remove" ELSE "compare"

Stepped(p) ==
    /\ OthersStay(p) /\ LocalsTyped'
    /\ \/ \E ok \in BOOLEAN : (NextOne(p, ok) \/ AfterLast(p, ok)) /\ Judged(p, ok)
                              /\ expected'[p] = <<>> /\ contents'[p] = <<>>
       \/ \E step \in HookSteps : Stay(p, step) /\ Moved(p, step)

LEMMA DoneSteps ==
    ASSUME TypeOK, NEW p \in Procs, NEW ok \in BOOLEAN, Done(p, ok), Judged(p, ok)
    PROVE  Stepped(p)
<1>1. /\ OthersStay(p) /\ LocalsTyped' /\ expected'[p] = <<>> /\ contents'[p] = <<>>
      /\ NextOne(p, ok) \/ AfterLast(p, ok)
  BY DoneFrame
<1> QED  BY <1>1, Zenon DEF Stepped

LEMMA GotoSteps ==
    ASSUME TypeOK, NEW p \in Procs, NEW step \in HookSteps, Goto(p, step), Moved(p, step),
           \/ UNCHANGED <<expected, contents>>
           \/ \E e, c \in Seq(Lines) :
                /\ expected' = [expected EXCEPT ![p] = e] /\ contents' = [contents EXCEPT ![p] = c]
    PROVE  Stepped(p)
<1>1. step \in PCs  BY DEF HookSteps, PCs
<1>2. OthersStay(p) /\ LocalsTyped' /\ Stay(p, step)  BY <1>1, GotoFrame, Zenon
<1> QED  BY <1>2, Zenon DEF Stepped

LEMMA AdoptSteps ==
    ASSUME TypeOK, NEW p \in Procs, Adopt(p), pc[p] \in {"plan", "adopt"}, File(p).lines # <<>>,
           hooks' = hooks
    PROVE  Stepped(p)
<1> DEFINE lines == File(p).lines
           r == Replacement(Name(p), lines)
<1>0. lines \in Seq(Lines) /\ TypeOK /\ File(p) = hooks[dir[p]][Name(p)]  BY HookAt
<1>1. CASE Refused(Name(p), lines)
  <2>1. Done(p, FALSE)  BY <1>1 DEF Adopt
  <2>2. Judged(p, FALSE)  BY <1>1 DEF Judged
  <2> QED  BY <2>1, <2>2, DoneSteps
<1>2. CASE ~ Refused(Name(p), lines)
  <2>1. /\ Goto(p, IF r = lines THEN "executable" ELSE "compare")
        /\ expected' = [expected EXCEPT ![p] = lines] /\ contents' = [contents EXCEPT ![p] = r]
    BY <1>2 DEF Adopt
  <2>2. r \in Seq(Lines)
    <3>1. CASE IsLegacy(Name(p), lines)  BY <3>1, BodyFacts DEF Replacement
    <3>2. CASE ~ IsLegacy(Name(p), lines)
      BY <1>0, <1>2, <3>2, RewrittenFacts DEF Replacement, Refused
    <3> QED  BY <3>1, <3>2
  <2>3. expected'[p] = lines /\ contents'[p] = r  BY <2>1 DEF TypeOK
  <2> HIDE DEF r
  <2>4. PICK step \in HookSteps : step = IF r = lines THEN "executable" ELSE "compare"
    BY DEF HookSteps
  <2>5. Moved(p, step)  BY <1>2, <2>3, <2>4 DEF Moved, Read, r
  <2> HIDE DEF lines
  <2> QED  BY <1>0, <2>1, <2>2, <2>4, <2>5, GotoSteps, Zenon
<1> QED  BY <1>1, <1>2

\* Every step at a hook, in these terms.
LEMMA StepSteps ==
    ASSUME TypeOK, NEW p \in Procs, Step(p)
    PROVE  /\ Stepped(p) /\ pc[p] \in HookSteps
           /\ UNCHANGED <<command, yours, boundVars>>
           /\ made' = IF pc[p] = "plan" THEN made \cup {dir[p]} ELSE made
<1> USE DEF HookSteps
<1>0. File(p).lines \in Seq(Lines) /\ File(p) = hooks[dir[p]][Name(p)] /\ contents[p] \in Seq(Lines)
  BY HookAt
<1>1. CASE Plan(p)
  <2>1. pc[p] = "plan" /\ UNCHANGED <<command, yours, boundVars>> /\ hooks' = hooks
        /\ made' = made \cup {dir[p]}
    BY <1>1 DEF Plan, At
  <2>2. CASE File(p).lines = <<>>
    <3>1. Goto(p, "link") /\ UNCHANGED <<expected, contents>>  BY <1>1, <2>2 DEF Plan
    <3>2. Moved(p, "link")  BY <2>1, <2>2, <3>1 DEF Moved
    <3> QED  BY <2>1, <3>1, <3>2, GotoSteps
  <2>3. CASE File(p).lines # <<>>
    <3>1. Adopt(p)  BY <1>1, <2>3 DEF Plan
    <3> QED  BY <2>1, <2>3, <3>1, AdoptSteps
  <2> QED  BY <2>2, <2>3
<1>2. CASE WriteNewHook(p)
  <2>1. pc[p] = "link" /\ UNCHANGED <<command, yours, boundVars>> /\ made' = made
    BY <1>2 DEF WriteNewHook, At
  <2>2. CASE File(p).lines = <<>>
    <3>1. PICK ok \in BOOLEAN : Done(p, ok) /\ ok = CanWrite(p) /\ WroteIf(p, ok, Executable(Body))
      <4>1. CASE CanWrite(p)
        <5>1. Done(p, TRUE) /\ hooks' = [hooks EXCEPT ![dir[p]][Name(p)] = Executable(Body)]
          BY <1>2, <2>2, <4>1 DEF WriteNewHook
        <5>2. TRUE = CanWrite(p)  BY <4>1 DEF CanWrite
        <5>3. WroteIf(p, TRUE, Executable(Body))  BY <5>1 DEF WroteIf, Wrote
        <5> QED  BY <5>1, <5>2, <5>3
      <4>2. CASE ~ CanWrite(p)
        <5>1. Done(p, FALSE) /\ hooks' = hooks  BY <1>2, <2>2, <4>2 DEF WriteNewHook
        <5>2. FALSE = CanWrite(p)  BY <4>2 DEF CanWrite
        <5>3. WroteIf(p, FALSE, Executable(Body))  BY <5>1 DEF WroteIf
        <5> QED  BY <5>1, <5>2, <5>3
      <4> QED  BY <4>1, <4>2
    <3>2. Judged(p, ok)  BY <2>1, <2>2, <3>1 DEF Judged
    <3> QED  BY <2>1, <3>1, <3>2, DoneSteps
  <2>3. CASE File(p).lines # <<>>
    <3>1. Goto(p, "adopt") /\ UNCHANGED <<hooks, expected, contents>>
      BY <1>2, <2>3 DEF WriteNewHook
    <3>2. Moved(p, "adopt")  BY <2>1, <2>3, <3>1 DEF Moved
    <3> QED  BY <2>1, <3>1, <3>2, GotoSteps
  <2> QED  BY <2>2, <2>3
<1>3. CASE AdoptHook(p)
  <2>1. pc[p] = "adopt" /\ UNCHANGED <<command, yours, boundVars>> /\ hooks' = hooks /\ made' = made
    BY <1>3 DEF AdoptHook, At
  <2>2. CASE File(p).lines = <<>>
    <3>1. PICK ok \in BOOLEAN : Done(p, ok)  BY <1>3, <2>2 DEF AdoptHook
    <3>2. Judged(p, ok)  BY <2>1, <2>2 DEF Judged
    <3> QED  BY <2>1, <3>1, <3>2, DoneSteps
  <2>3. CASE File(p).lines # <<>>
    <3>1. Adopt(p)  BY <1>3, <2>3 DEF AdoptHook
    <3> QED  BY <2>1, <2>3, <3>1, AdoptSteps
  <2> QED  BY <2>2, <2>3
<1>4. CASE MakeExecutable(p)
  <2>1. pc[p] = "executable" /\ UNCHANGED <<command, yours, boundVars>> /\ made' = made
    BY <1>4 DEF MakeExecutable, At
  <2>2. PICK ok \in BOOLEAN : Done(p, ok) /\ ok = (File(p).lines # <<>>)
    BY <1>4 DEF MakeExecutable
  <2>3. WroteIf(p, ok, Executable(File(p).lines))
    <3>1. CASE ok
      <4>1. hooks' = [hooks EXCEPT ![dir[p]][Name(p)] = Executable(File(p).lines)]
        BY <1>4, <2>2, <3>1 DEF MakeExecutable
      <4> QED  BY <3>1, <4>1 DEF WroteIf, Wrote
    <3>2. CASE ~ ok  BY <1>4, <2>2, <3>2 DEF MakeExecutable, WroteIf
    <3> QED  BY <3>1, <3>2
  <2>4. Judged(p, ok)  BY <2>1, <2>2, <2>3 DEF Judged
  <2> QED  BY <2>1, <2>2, <2>4, DoneSteps
<1>5. CASE Compare(p)
  <2>1. pc[p] = "compare" /\ UNCHANGED <<command, yours, boundVars>> /\ hooks' = hooks /\ made' = made
    BY <1>5 DEF Compare, At
  <2>2. CASE File(p).lines # <<>> /\ File(p).lines = expected[p]
    <3>1. Goto(p, "rename") /\ UNCHANGED <<expected, contents>>  BY <1>5, <2>2 DEF Compare
    <3>2. Moved(p, "rename")  BY <2>1, <2>2, <3>1 DEF Moved, Read
    <3> QED  BY <2>1, <3>1, <3>2, GotoSteps
  <2>3. CASE ~ (File(p).lines # <<>> /\ File(p).lines = expected[p])
    <3>1. Done(p, FALSE)  BY <1>5, <2>3 DEF Compare
    <3>2. Judged(p, FALSE)  BY <2>1, <2>3 DEF Judged
    <3> QED  BY <2>1, <3>1, <3>2, DoneSteps
  <2> QED  BY <2>2, <2>3
<1>6. CASE RenameHook(p)
  <2>1. pc[p] = "rename" /\ UNCHANGED <<command, yours, boundVars>> /\ made' = made
    BY <1>6 DEF RenameHook, At
  <2>2. PICK ok \in BOOLEAN : Done(p, ok) /\ ok = CanWrite(p) /\ WroteIf(p, ok, Executable(contents[p]))
    <3>1. CASE CanWrite(p)
      <4>1. Done(p, CanWrite(p)) /\ hooks' = [hooks EXCEPT ![dir[p]][Name(p)] = Executable(contents[p])]
        BY <1>6, <3>1 DEF RenameHook
      <4>2. TRUE = CanWrite(p)  BY <3>1 DEF CanWrite
      <4>3. Done(p, TRUE)  BY <4>1, <4>2
      <4>4. WroteIf(p, TRUE, Executable(contents[p]))  BY <4>1 DEF WroteIf, Wrote
      <4> QED  BY <4>2, <4>3, <4>4
    <3>2. CASE ~ CanWrite(p)
      <4>1. Done(p, CanWrite(p)) /\ hooks' = hooks  BY <1>6, <3>2 DEF RenameHook
      <4>2. FALSE = CanWrite(p)  BY <3>2 DEF CanWrite
      <4>3. Done(p, FALSE)  BY <4>1, <4>2
      <4>4. WroteIf(p, FALSE, Executable(contents[p]))  BY <4>1 DEF WroteIf
      <4> QED  BY <4>2, <4>3, <4>4
    <3> QED  BY <3>1, <3>2
  <2>3. Judged(p, ok)  BY <2>1, <2>2 DEF Judged
  <2> QED  BY <2>1, <2>2, <2>3, DoneSteps
<1>7. CASE Strip(p)
  <2> DEFINE lines == File(p).lines
  <2>1. pc[p] = "strip" /\ UNCHANGED <<command, yours, boundVars>> /\ hooks' = hooks /\ made' = made
    BY <1>7 DEF Strip, At
  <2>2. Stripped(lines) \in Seq(Lines) /\ (Stripped(lines) = lines <=> Owned(lines) = {})
    BY <1>0, StrippedFacts
  <2>3. CASE ~ IsText(lines) \/ (Stripped(lines) = lines /\ ~ IsLegacy(Name(p), lines))
    <3>1. Done(p, TRUE)  BY <1>7, <2>3 DEF Strip
    <3>2. Judged(p, TRUE)  BY <2>1, <2>2, <2>3 DEF Judged
    <3> QED  BY <2>1, <3>1, <3>2, DoneSteps
  <2>4. CASE ~ (~ IsText(lines) \/ (Stripped(lines) = lines /\ ~ IsLegacy(Name(p), lines)))
    <3>1. PICK step \in HookSteps :
            /\ step = IF IsLegacy(Name(p), lines) \/ OnlyShebang(Stripped(lines))
                      THEN "remove" ELSE "compare"
            /\ Goto(p, step)
            /\ expected' = [expected EXCEPT ![p] = lines]
            /\ contents' = [contents EXCEPT ![p] = Stripped(lines)]
      BY <1>7, <2>4 DEF Strip
    <3>2. expected'[p] = lines /\ contents'[p] = Stripped(lines)  BY <3>1 DEF TypeOK
    <3>3. Moved(p, step)  BY <2>1, <2>2, <2>4, <3>1, <3>2 DEF Moved, Read
    <3> HIDE DEF HookSteps
    <3>4. Stepped(p)  BY <1>0, <2>2, <3>1, <3>3, GotoSteps, Zenon
    <3> QED  BY <2>1, <3>4 DEF HookSteps
  <2> QED  BY <2>3, <2>4
<1>8. CASE RemoveHook(p)
  <2>1. pc[p] = "remove" /\ UNCHANGED <<command, yours, boundVars>> /\ made' = made
    BY <1>8 DEF RemoveHook, At
  <2>2. PICK ok \in BOOLEAN : Done(p, ok) /\ ok = (File(p).lines # <<>>) /\ Wrote(p, Absent)
    BY <1>8 DEF RemoveHook, Wrote
  <2>3. Judged(p, ok)  BY <2>1, <2>2 DEF Judged
  <2> QED  BY <2>1, <2>2, <2>3, DoneSteps
<1> QED  BY <1>1, <1>2, <1>3, <1>4, <1>5, <1>6, <1>7, <1>8 DEF Step

-----------------------------------------------------------------------------
(* What a step leaves of the hooks.                                           *)

\* What may take the place of a hook.
Fits(p, file) ==
    /\ Shape(Name(p), file.lines) /\ (file.lines = <<>> => file = Absent)
    /\ file # Absent => dir[p] \in made
    /\ Yours(file.lines) = yours[dir[p]][Name(p)]
    /\ op[p] = "install" => \/ Installed(file)
                            \/ File(p).lines # <<>> /\ file = Executable(File(p).lines)
    /\ op[p] = "uninstall" => Clean(Name(p), file.lines)

LEMMA InstalledOf ==
    ASSUME NEW lines
    PROVE  /\ Executable(lines).lines = lines /\ Executable(lines).executable = TRUE
           /\ OwnedOnce(lines) => Installed(Executable(lines))
           /\ lines # <<>> => Executable(lines) # Absent
BY DEF OwnedOnce, Installed, Executable, Absent

LEMMA ExecutableFile ==
    ASSUME NEW lines \in Seq(Lines)
    PROVE  Executable(lines) \in Files
<1>1. TRUE \in BOOLEAN  OBVIOUS
<1> QED  BY <1>1, FileOf, Zenon DEF Executable

LEMMA StepWrites ==
    ASSUME HooksInv, NEW p \in Procs, Step(p)
    PROVE  hooks' = hooks \/ \E file \in Files : Wrote(p, file) /\ Fits(p, file)
<1> DEFINE here == File(p)
           name == Name(p)
           mine == yours[dir[p]][Name(p)]
<1>0. /\ TypeOK /\ dir[p] \in Dirs /\ name \in Names /\ here = hooks[dir[p]][name]
      /\ here \in Files /\ here.lines \in Seq(Lines) /\ contents[p] \in Seq(Lines)
  BY HookAt DEF HooksInv
<1>1. Yours(here.lines) = mine  BY <1>0 DEF HooksInv, YoursKept
<1>2. Shape(name, here.lines) /\ (here.lines = <<>> => here = Absent)
      /\ (here # Absent => dir[p] \in made)
  BY <1>0 DEF HooksInv, ShapeInv, TypeOK
<1>3. Stepped(p)  BY <1>0, StepSteps
<1>4. CASE \E step \in HookSteps : Stay(p, step) /\ Moved(p, step)  BY <1>4 DEF Moved
<1>5. ASSUME NEW ok \in BOOLEAN, Judged(p, ok), hooks' # hooks
      PROVE  \E file \in Files : Wrote(p, file) /\ Fits(p, file)
  <2>1. CASE pc[p] = "link" /\ here.lines = <<>> /\ ok = CanWrite(p) /\ WroteIf(p, ok, Executable(Body))
    <3> DEFINE file == Executable(Body)
    <3>1. Wrote(p, file) /\ dir[p] \in made  BY <1>5, <2>1 DEF WroteIf, CanWrite
    <3>2. /\ file.lines = Body /\ Body # <<>> /\ OwnedOnce(Body) /\ Body \in Seq(Lines)
          /\ Installed(file) /\ file \in Files
          /\ IsText(Body) /\ "legacy" \notin ToSet(Body) /\ Yours(Body) = <<>>
      BY BodyFacts, InstalledOf, ExecutableFile DEF IsText
    <3>3. Shape(name, Body)  BY <3>2, WrittenShape
    <3>4. Yours(Body) = mine  BY <1>1, <2>1, <3>2, AbsentFacts
    <3>5. op[p] = "install"  BY <2>1 DEF HooksInv, StepsInv
    <3> HIDE DEF file
    <3>6. Fits(p, file)  BY <3>1, <3>2, <3>3, <3>4, <3>5 DEF Fits
    <3> QED  BY <3>1, <3>2, <3>6
  <2>2. CASE /\ pc[p] = "executable" /\ ok = (here.lines # <<>>)
             /\ WroteIf(p, ok, Executable(here.lines))
    <3> DEFINE file == Executable(here.lines)
    <3>1. Wrote(p, file) /\ here.lines # <<>>  BY <1>5, <2>2 DEF WroteIf
    <3>2. file.lines = here.lines /\ file \in Files  BY <1>0, InstalledOf, ExecutableFile
    <3>3. here # Absent  BY <3>1, AbsentFacts
    <3>4. op[p] = "install"  BY <2>2 DEF HooksInv, StepsInv
    <3>5. Fits(p, file)
      <4> HIDE DEF file
      <4> QED  BY <1>1, <1>2, <3>1, <3>2, <3>3, <3>4 DEF Fits, file
    <3> HIDE DEF file
    <3> QED  BY <3>1, <3>2, <3>5
  <2>3. CASE pc[p] = "rename" /\ ok = CanWrite(p) /\ WroteIf(p, ok, Executable(contents[p]))
    <3> DEFINE file == Executable(contents[p])
    <3>1. Wrote(p, file) /\ dir[p] \in made  BY <1>5, <2>3 DEF WroteIf, CanWrite
    <3>2. file.lines = contents[p] /\ file \in Files  BY <1>0, InstalledOf, ExecutableFile
    <3>3. /\ contents[p] # <<>> /\ IsText(contents[p]) /\ "legacy" \notin ToSet(contents[p])
          /\ op[p] = "install" => OwnedOnce(contents[p])
          /\ op[p] = "uninstall" => Clean(name, contents[p])
          /\ Yours(contents[p]) = mine
      BY <2>3 DEF HooksInv, ShapeInv, YoursInv
    <3>4. op[p] \in {"install", "uninstall"}  BY <1>0 DEF TypeOK
    <3>5. Shape(name, contents[p])  BY <1>0, <3>3, <3>4, WrittenShape
    <3>6. op[p] = "install" => Installed(file)  BY <3>3, InstalledOf
    <3>7. Fits(p, file)
      <4> HIDE DEF file
      <4> QED  BY <3>1, <3>2, <3>3, <3>5, <3>6 DEF Fits
    <3> HIDE DEF file
    <3> QED  BY <3>1, <3>2, <3>7
  <2>4. CASE pc[p] = "remove" /\ ok = (here.lines # <<>>) /\ Wrote(p, Absent)
    <3>1. mine = <<>> /\ op[p] = "uninstall"  BY <2>4 DEF HooksInv, YoursInv, StepsInv
    <3>2. Fits(p, Absent)  BY <3>1, AbsentFacts DEF Fits
    <3> QED  BY <2>4, <3>2, AbsentFacts
  <2> QED  BY <1>5, <2>1, <2>2, <2>3, <2>4 DEF Judged
<1> QED  BY <1>3, <1>4, <1>5 DEF Stepped

-----------------------------------------------------------------------------
(* Every step at a hook keeps the invariant.                                  *)

\* Where the process is afterwards.
LEMMA StepGoes ==
    ASSUME HooksInv, NEW p \in Procs, Step(p)
    PROVE  \/ pc'[p] \in {"idle", "claimed", "check", First(op[p])} /\ contents'[p] = <<>>
           \/ \E step \in HookSteps : Stay(p, step) /\ Moved(p, step)
BY StepSteps DEF HooksInv, StepsInv, Stepped, NextOne, AfterLast

\* What it has read and is about to write.
LEMMA StepReads ==
    ASSUME HooksInv, NEW p \in Procs, Step(p), pc'[p] \in {"compare", "rename", "remove"}
    PROVE  /\ at'[p] = at[p] /\ hooks' = hooks
           /\ (IsText(contents'[p]) /\ "legacy" \notin ToSet(contents'[p])) \/ pc'[p] = "remove"
           /\ (expected'[p] # <<>> /\ contents'[p] # <<>>) \/ pc'[p] = "remove"
           /\ Cardinality(Owned(contents'[p])) <= 1
           /\ op[p] = "install" => OwnedOnce(contents'[p])
           /\ pc'[p] = "remove" => op[p] = "uninstall"
           /\ op[p] = "uninstall" /\ pc'[p] # "remove" => Clean(Name(p), contents'[p])
           /\ pc'[p] # "remove" => Yours(contents'[p]) = Yours(expected'[p])
           /\ pc'[p] = "rename" => Yours(contents'[p]) = yours[dir[p]][Name(p)]
           /\ pc'[p] = "remove" => yours[dir[p]][Name(p)] = <<>>
<1> DEFINE lines == File(p).lines
<1>0. /\ TypeOK /\ dir[p] \in Dirs /\ Name(p) \in Names /\ File(p) = hooks[dir[p]][Name(p)]
      /\ lines \in Seq(Lines) /\ op[p] \in {"install", "uninstall"}
  BY HookAt DEF HooksInv, TypeOK
<1>1. Yours(lines) = yours[dir[p]][Name(p)] /\ Shape(Name(p), lines)
  BY <1>0 DEF HooksInv, YoursKept, ShapeInv
<1>2. PICK step \in HookSteps : Stay(p, step) /\ Moved(p, step)
  <2>1. pc'[p] \notin {"idle", "claimed", "check", First(op[p])}  BY DEF First
  <2> QED  BY <2>1, StepGoes
<1>3. at'[p] = at[p] /\ hooks' = hooks /\ pc'[p] = step  BY <1>2 DEF Stay, Moved
<1>4. CASE /\ pc[p] \in {"plan", "adopt"} /\ lines # <<>> /\ ~ Refused(Name(p), lines)
           /\ Read(p, Replacement(Name(p), lines)) /\ step \in {"executable", "compare"}
  <2> DEFINE r == Replacement(Name(p), lines)
  <2>1. contents'[p] = r /\ expected'[p] = lines /\ step = "compare"  BY <1>3, <1>4 DEF Read
  <2>2. r # <<>> /\ OwnedOnce(r) /\ IsText(r) /\ "legacy" \notin ToSet(r) /\ Yours(r) = Yours(lines)
    BY <1>0, <1>1, <1>4, ReplacementFacts
  <2>3. op[p] = "install"  BY <1>4 DEF HooksInv, StepsInv
  <2>4. Cardinality(Owned(r)) <= 1  BY <2>2 DEF OwnedOnce
  <2> HIDE DEF r, lines
  <2> QED  BY <1>3, <1>4, <2>1, <2>2, <2>3, <2>4
<1>5. CASE pc[p] = "compare" /\ step = "rename" /\ lines # <<>> /\ lines = expected[p]
           /\ Read(p, contents[p])
  <2>1. contents'[p] = contents[p] /\ expected'[p] = lines  BY <1>5 DEF Read
  <2>2. Cardinality(Owned(contents[p])) <= 1  BY <1>0 DEF TypeOK
  <2>3. /\ contents[p] # <<>> /\ IsText(contents[p]) /\ "legacy" \notin ToSet(contents[p])
        /\ op[p] = "install" => OwnedOnce(contents[p])
        /\ op[p] = "uninstall" => Clean(Name(p), contents[p])
        /\ Yours(contents[p]) = Yours(lines)
    BY <1>5 DEF HooksInv, ShapeInv, YoursInv
  <2> HIDE DEF lines
  <2> QED  BY <1>1, <1>3, <1>5, <2>1, <2>2, <2>3
<1>6. CASE /\ pc[p] = "strip" /\ IsText(lines) /\ Read(p, Stripped(lines))
           /\ Owned(lines) # {} \/ IsLegacy(Name(p), lines)
           /\ step = IF IsLegacy(Name(p), lines) \/ OnlyShebang(Stripped(lines))
                     THEN "remove" ELSE "compare"
  <2> DEFINE s == Stripped(lines)
  <2>1. contents'[p] = s /\ expected'[p] = lines  BY <1>6 DEF Read
  <2>2. op[p] = "uninstall"  BY <1>6 DEF HooksInv, StepsInv
  <2>3. Owned(s) = {} /\ Cardinality(Owned(s)) <= 1
    <3>1. Owned(s) = {}  BY <1>0, StrippedFacts
    <3> QED  BY <3>1, FS_EmptySet
  <2>4. CASE IsLegacy(Name(p), lines) \/ OnlyShebang(s)
    <3>1. step = "remove"  BY <1>6, <2>4
    <3>2. Yours(lines) = <<>>  BY <1>0, <2>4, RemovedIsNobodys
    <3> HIDE DEF s, lines
    <3> QED  BY <1>1, <1>3, <2>1, <2>2, <2>3, <3>1, <3>2
  <2>5. CASE ~ (IsLegacy(Name(p), lines) \/ OnlyShebang(s))
    <3>1. step = "compare"  BY <1>6, <2>5
    <3>2. s # <<>> /\ Clean(Name(p), s) /\ IsText(s) /\ "legacy" \notin ToSet(s) /\ Yours(s) = Yours(lines)
      BY <1>0, <1>1, <1>6, <2>5, StrippedIsClean
    <3>3. lines # <<>>
      <4>1. lines = <<>> => Yours(lines) = <<>>  BY AbsentFacts
      <4> QED  BY <3>2, <4>1 DEF Clean
    <3> HIDE DEF s, lines
    <3> QED  BY <1>3, <2>1, <2>2, <2>3, <3>1, <3>2, <3>3
  <2> QED  BY <2>4, <2>5
<1> QED  BY <1>2, <1>3, <1>4, <1>5, <1>6 DEF Moved

\* What is said of every hook.
Fitting(d, name) ==
    /\ Shape(name, hooks[d][name].lines)
    /\ hooks[d][name].lines = <<>> => hooks[d][name] = Absent
    /\ hooks[d][name] # Absent => d \in made
    /\ Yours(hooks[d][name].lines) = yours[d][name]

LEMMA FittingHooks ==
    HooksInv => \A d \in Dirs, name \in Names : Fitting(d, name)
BY DEF HooksInv, TypeOK, ShapeInv, YoursKept, Fitting

LEMMA StepKeepsFitting ==
    ASSUME HooksInv, NEW p \in Procs, Step(p)
    PROVE  /\ hooks' \in [Dirs -> [Names -> Files]]
           /\ \A d \in Dirs, name \in Names : Fitting(d, name)'
<1>0. /\ hooks \in [Dirs -> [Names -> Files]] /\ dir[p] \in Dirs /\ Name(p) \in Names
      /\ \A d \in Dirs, name \in Names : Fitting(d, name)
      /\ yours' = yours /\ made \subseteq made' /\ TypeOK
  BY HookAt, FittingHooks, StepSteps DEF HooksInv, TypeOK, Files
<1>1. CASE hooks' = hooks  BY <1>0, <1>1 DEF Fitting
<1>2. CASE \E file \in Files : Wrote(p, file) /\ Fits(p, file)
  <2>1. PICK file \in Files : Wrote(p, file) /\ Fits(p, file)  BY <1>2
  <2>2. /\ hooks' \in [Dirs -> [Names -> Files]]
        /\ hooks'[dir[p]][Name(p)] = file
        /\ \A d \in Dirs, name \in Names :
              d # dir[p] \/ name # Name(p) => hooks'[d][name] = hooks[d][name]
    BY <1>0, <2>1, WriteHook DEF Wrote
  <2>3. ASSUME NEW d \in Dirs, NEW name \in Names PROVE Fitting(d, name)'
    <3>1. CASE d = dir[p] /\ name = Name(p)
      <4>1. /\ Shape(name, file.lines) /\ (file.lines = <<>> => file = Absent)
            /\ file # Absent => d \in made
            /\ Yours(file.lines) = yours[d][name]
        BY <2>1, <3>1 DEF Fits
      <4> QED  BY <1>0, <2>2, <3>1, <4>1 DEF Fitting
    <3>2. CASE d # dir[p] \/ name # Name(p)
      <4>1. hooks'[d][name] = hooks[d][name]  BY <2>2, <3>2
      <4> QED  BY <1>0, <4>1 DEF Fitting
    <3> QED  BY <3>1, <3>2
  <2> QED  BY <2>2, <2>3
<1> QED  BY <1>1, <1>2, StepWrites

\* What is said of every process.
Reading(p) ==
    /\ pc[p] \in {"compare", "rename"} =>
         /\ expected[p] # <<>> /\ contents[p] # <<>>
         /\ IsText(contents[p]) /\ "legacy" \notin ToSet(contents[p])
         /\ op[p] = "install" => OwnedOnce(contents[p])
         /\ op[p] = "uninstall" => Clean(Name(p), contents[p])
         /\ Yours(contents[p]) = Yours(expected[p])
    /\ pc[p] = "rename" => Yours(contents[p]) = yours[dir[p]][Name(p)]
    /\ pc[p] = "remove" => yours[dir[p]][Name(p)] = <<>>

\* Hooks and processes make up the invariant.
LEMMA HooksInvParts ==
    HooksInv <=> /\ TypeOK /\ StepsInv
                 /\ \A d \in Dirs, name \in Names : Fitting(d, name)
                 /\ \A p \in Procs : Reading(p)
<1>1. TypeOK => \A d \in Dirs, name \in Names : hooks[d][name] # Absent => d \in made
  BY DEF TypeOK
<1> QED  BY <1>1 DEF HooksInv, ShapeInv, YoursKept, YoursInv, Fitting, Reading

LEMMA HooksInvFrom ==
    ASSUME TypeOK', StepsInv', \A d \in Dirs, name \in Names : Fitting(d, name)',
           \A p \in Procs : Reading(p)'
    PROVE  HooksInv'
BY DEF HooksInv, ShapeInv, YoursKept, YoursInv, Fitting, Reading

LEMMA StepKeepsReading ==
    ASSUME HooksInv, NEW p \in Procs, Step(p)
    PROVE  \A q \in Procs : Reading(q)' /\ Cardinality(Owned(contents'[q])) <= 1
<1>1. /\ TypeOK /\ OthersStay(p) /\ op' = op /\ dir' = dir /\ yours' = yours
      /\ \A q \in Procs : Reading(q)
  BY StepSteps, HooksInvParts DEF HooksInv, Stepped, command
<1>2. ASSUME NEW q \in Procs \ {p} PROVE Reading(q)' /\ Cardinality(Owned(contents'[q])) <= 1
  <2>1. /\ pc'[q] = pc[q] /\ at'[q] = at[q] /\ expected'[q] = expected[q] /\ contents'[q] = contents[q]
        /\ Reading(q) /\ Cardinality(Owned(contents[q])) <= 1
    BY <1>1 DEF OthersStay, TypeOK
  <2>2. Name(q)' = Name(q)  BY <2>1 DEF Name
  <2> QED  BY <1>1, <2>1, <2>2 DEF Reading
<1>3. Reading(p)' /\ Cardinality(Owned(contents'[p])) <= 1
  <2>1. CASE pc'[p] \in {"compare", "rename", "remove"}
    <3>1. Name(p)' = Name(p)  BY <2>1, StepReads DEF Name
    <3> QED  BY <1>1, <2>1, <3>1, StepReads DEF Reading
  <2>2. CASE pc'[p] \notin {"compare", "rename", "remove"}
    <3>1. Reading(p)'  BY <2>2 DEF Reading
    <3>2. Cardinality(Owned(contents'[p])) <= 1
      <4>1. CASE contents'[p] = <<>>
        <5>1. Owned(contents'[p]) = {}  BY <4>1, AbsentFacts
        <5>2. Cardinality(Owned(contents'[p])) = 0  BY <5>1, FS_EmptySet
        <5> QED  BY <5>2
      <4>2. CASE \E step \in HookSteps : Stay(p, step) /\ Moved(p, step)
        <5>1. PICK step \in HookSteps : Stay(p, step) /\ Moved(p, step)  BY <4>2
        <5>2. CASE contents'[p] = contents[p]  BY <1>1, <5>2 DEF TypeOK
        <5>3. CASE ~ Refused(Name(p), File(p).lines)
                   /\ contents'[p] = Replacement(Name(p), File(p).lines)
          <6>1. /\ File(p).lines \in Seq(Lines) /\ Shape(Name(p), File(p).lines)
            BY <1>1, HookAt DEF HooksInv, ShapeInv
          <6> QED  BY <5>3, <6>1, ReplacementFacts DEF OwnedOnce
        <5> QED  BY <2>2, <5>1, <5>2, <5>3 DEF Moved, Stay, Read
      <4> QED  BY <4>1, <4>2, StepGoes
    <3> QED  BY <3>1, <3>2
  <2> QED  BY <2>1, <2>2
<1> QED  BY <1>2, <1>3

LEMMA StepKeepsHooks ==
    ASSUME HooksInv, NEW p \in Procs, Step(p)
    PROVE  HooksInv'
<1>1. /\ TypeOK /\ OthersStay(p) /\ LocalsTyped' /\ Len(All) = 2
      /\ UNCHANGED <<command, yours, boundVars>>
      /\ made' = IF pc[p] = "plan" THEN made \cup {dir[p]} ELSE made
  BY StepSteps, AllFacts DEF HooksInv, Stepped
<1>2. /\ hooks' \in [Dirs -> [Names -> Files]]
      /\ \A d \in Dirs, name \in Names : Fitting(d, name)'
      /\ \A q \in Procs : Reading(q)' /\ Cardinality(Owned(contents'[q])) <= 1
  BY StepKeepsFitting, StepKeepsReading
<1>3. UNCHANGED <<op, dir, then, quiet, targets, yours, commands, edits, failures>>
  BY <1>1 DEF command, boundVars
<1>4. TypeOK'
  <2>1. hooks' \in [Dirs -> [Names -> [lines : Seq(Lines), executable : BOOLEAN]]]
    BY <1>2 DEF Files
  <2>2. made' \subseteq Dirs  BY <1>1 DEF TypeOK
  <2>3. \A d \in Dirs \ made', name \in Names : hooks'[d][name] = Absent
    BY <1>2 DEF Fitting
  <2> QED  BY <1>1, <1>2, <1>3, <2>1, <2>2, <2>3 DEF TypeOK, LocalsTyped
<1>5. StepsInv'
  <2>1. ASSUME NEW q \in Procs \ {p}
        PROVE  /\ pc'[q] \in {"plan", "link", "adopt", "executable"} => op'[q] = "install"
               /\ pc'[q] \in {"strip", "remove"} => op'[q] = "uninstall"
    BY <1>1, <1>3 DEF HooksInv, StepsInv, OthersStay
  <2>2. /\ pc'[p] \in {"plan", "link", "adopt", "executable"} => op[p] = "install"
        /\ pc'[p] \in {"strip", "remove"} => op[p] = "uninstall"
    <3>1. CASE pc'[p] \in {"idle", "claimed", "check", First(op[p])}
      BY <1>1, <3>1 DEF First, TypeOK
    <3>2. ASSUME NEW step \in HookSteps, Stay(p, step), Moved(p, step)
          PROVE  /\ pc'[p] \in {"plan", "link", "adopt", "executable"} => op[p] = "install"
                 /\ pc'[p] \in {"strip", "remove"} => op[p] = "uninstall"
      BY <3>2 DEF Stay, Moved, HooksInv, StepsInv
    <3> QED  BY <3>1, <3>2, StepGoes
  <2> QED  BY <1>3, <2>1, <2>2 DEF StepsInv, HooksInv
<1> QED  BY <1>2, <1>4, <1>5, HooksInvFrom

\* So does whatever does not go on with a hook that was read.
LEMMA ElsewhereReading ==
    ASSUME \A q \in Procs : Reading(q), yours' = yours,
           \A q \in Procs : \/ pc'[q] \notin {"compare", "rename", "remove"}
                            \/ /\ pc'[q] = pc[q] /\ at'[q] = at[q] /\ dir'[q] = dir[q] /\ op'[q] = op[q]
                               /\ expected'[q] = expected[q] /\ contents'[q] = contents[q]
    PROVE  \A q \in Procs : Reading(q)'
<1> SUFFICES ASSUME NEW q \in Procs PROVE Reading(q)'
  OBVIOUS
<1>1. CASE pc'[q] \notin {"compare", "rename", "remove"}  BY <1>1 DEF Reading
<1>2. CASE /\ pc'[q] = pc[q] /\ at'[q] = at[q] /\ dir'[q] = dir[q] /\ op'[q] = op[q]
           /\ expected'[q] = expected[q] /\ contents'[q] = contents[q]
  BY <1>2 DEF Reading, Name
<1> QED  BY <1>1, <1>2

LEMMA FailKeepsHooks ==
    ASSUME HooksInv, NEW p \in Procs, Fail(p)
    PROVE  HooksInv'
<1>0. TypeOK /\ StepsInv /\ Len(All) = 2 /\ <<>> \in Seq(Lines)  BY AllFacts, ShortHooks DEF HooksInv
<1>1. /\ UNCHANGED <<hooks, made, op, dir, then, quiet, targets, yours, commands, edits>>
      /\ failures < MaxFailures /\ failures' = failures + 1
      /\ pc' = [pc EXCEPT ![p] = "idle"] /\ failed' = [failed EXCEPT ![p] = FALSE]
      /\ at' = [at EXCEPT ![p] = 1] /\ expected' = [expected EXCEPT ![p] = <<>>]
      /\ contents' = [contents EXCEPT ![p] = <<>>]
      /\ outcome' = [outcome EXCEPT ![p] = IF quiet[p] THEN "killed" ELSE "none"]
  BY DEF Fail, End, Hook, command
<1>2. Cardinality(Owned(<<>>)) <= 1
  <2>1. Cardinality(Owned(<<>>)) = 0  BY AbsentFacts, FS_EmptySet
  <2> QED  BY <2>1
<1>3. TypeOK'
  <2>1. failures' \in 0 .. MaxFailures  BY <1>0, <1>1, BoundsAssumption DEF TypeOK
  <2>2. \A q \in Procs : Cardinality(Owned(contents'[q])) <= 1  BY <1>0, <1>1, <1>2 DEF TypeOK
  <2>3. pc' \in [Procs -> PCs]
    <3>1. "idle" \in PCs  BY DEF PCs
    <3> QED  BY <1>0, <1>1, <3>1 DEF TypeOK
  <2>4. at' \in [Procs -> 1 .. 2] /\ failed' \in [Procs -> BOOLEAN]  BY <1>0, <1>1 DEF TypeOK
  <2>5. outcome' \in [Procs -> {"none", "ok", "failed", "stopped", "killed"}]
    BY <1>0, <1>1 DEF TypeOK
  <2>6. expected' \in [Procs -> Seq(Lines)] /\ contents' \in [Procs -> Seq(Lines)]
    BY <1>0, <1>1 DEF TypeOK
  <2> QED  BY <1>0, <1>1, <2>1, <2>2, <2>3, <2>4, <2>5, <2>6 DEF TypeOK
<1>4. StepsInv'  BY <1>0, <1>1 DEF StepsInv, TypeOK
<1>5. \A q \in Procs : Reading(q)'
  <2>1. \A q \in Procs : Reading(q)  BY HooksInvParts
  <2>2. ASSUME NEW q \in Procs
        PROVE  \/ pc'[q] = "idle"
               \/ /\ pc'[q] = pc[q] /\ at'[q] = at[q] /\ dir'[q] = dir[q] /\ op'[q] = op[q]
                  /\ expected'[q] = expected[q] /\ contents'[q] = contents[q]
    BY <1>0, <1>1 DEF TypeOK
  <2> QED  BY <1>1, <2>1, <2>2, ElsewhereReading
<1>6. \A d \in Dirs, name \in Names : Fitting(d, name)'  BY <1>1, FittingHooks DEF Fitting
<1> QED  BY <1>3, <1>4, <1>5, <1>6, HooksInvFrom

-----------------------------------------------------------------------------
(* So do users, and commands that begin.                                      *)

LEMMA EditKeepsHooks ==
    ASSUME HooksInv, Edit, hooks' \in [Dirs -> [Names -> Files]],
           yours' \in [Dirs -> [Names -> Seq(Lines)]], made' \subseteq Dirs,
           \A d \in Dirs, name \in Names : Fitting(d, name)'
    PROVE  HooksInv'
<1>0. TypeOK /\ StepsInv  BY DEF HooksInv
<1>1. /\ UNCHANGED <<pc, op, dir, then, at, expected, contents, failed, commands, failures>>
      /\ edits < MaxEdits /\ edits' = edits + 1 /\ \A p \in Procs : pc[p] = "idle"
      /\ quiet' = [p \in Procs |-> FALSE]
      /\ outcome' = [p \in Procs |-> "none"] /\ targets' = [p \in Procs |-> {}]
  BY DEF Edit, locals
<1>2. TypeOK'
  <2>1. edits' \in 0 .. MaxEdits  BY <1>0, <1>1, BoundsAssumption DEF TypeOK
  <2>2. /\ quiet' \in [Procs -> BOOLEAN] /\ targets' \in [Procs -> SUBSET Dirs]
        /\ outcome' \in [Procs -> {"none", "ok", "failed", "stopped", "killed"}]
    BY <1>1
  <2>3. hooks' \in [Dirs -> [Names -> [lines : Seq(Lines), executable : BOOLEAN]]]  BY DEF Files
  <2>4. \A d \in Dirs \ made', name \in Names : hooks'[d][name] = Absent  BY DEF Fitting
  <2> QED  BY <1>0, <1>1, <2>1, <2>2, <2>3, <2>4 DEF TypeOK
<1>3. StepsInv'  BY <1>0, <1>1 DEF StepsInv
<1>4. \A p \in Procs : Reading(p)'  BY <1>1 DEF Reading
<1> QED  BY <1>2, <1>3, <1>4, HooksInvFrom

LEMMA EditHookKeepsHooks ==
    ASSUME HooksInv, NEW d \in Dirs, EditHook(d)
    PROVE  HooksInv'
<1>0. /\ hooks \in [Dirs -> [Names -> Files]] /\ yours \in [Dirs -> [Names -> Seq(Lines)]]
      /\ made \subseteq Dirs /\ Edit /\ made' = made \cup {d}
      /\ \A e \in Dirs, name \in Names : Fitting(e, name)
  BY FittingHooks DEF HooksInv, TypeOK, Files, EditHook
<1>a. PICK name \in Names : \E file \in Written(name) :
        /\ hooks' = [hooks EXCEPT ![d][name] = file]
        /\ yours' = [yours EXCEPT ![d][name] = Yours(file.lines)]
  BY DEF EditHook
<1>1. PICK file \in Written(name) :
        /\ hooks' = [hooks EXCEPT ![d][name] = file]
        /\ yours' = [yours EXCEPT ![d][name] = Yours(file.lines)]
  BY <1>a
<1>2. /\ file \in Files /\ Shape(name, file.lines) /\ (file.lines = <<>> => file = Absent)
      /\ file.lines \in Seq(Lines) /\ Yours(file.lines) \in Seq(Lines)
  BY UserHooks, YoursFacts DEF Files
<1>3. /\ hooks' \in [Dirs -> [Names -> Files]]
      /\ hooks'[d][name] = file
      /\ \A e \in Dirs, other \in Names : e # d \/ other # name => hooks'[e][other] = hooks[e][other]
  BY <1>0, <1>1, <1>2, WriteHook
<1>4. /\ yours' \in [Dirs -> [Names -> Seq(Lines)]]
      /\ yours'[d][name] = Yours(file.lines)
      /\ \A e \in Dirs, other \in Names : e # d \/ other # name => yours'[e][other] = yours[e][other]
  <2> DEFINE mine == Yours(file.lines)
             S == Seq(Lines)
  <2>1. mine \in S /\ yours \in [Dirs -> [Names -> S]] /\ yours' = [yours EXCEPT ![d][name] = mine]
    BY <1>0, <1>1, <1>2
  <2> HIDE DEF mine, S, Names
  <2>2. /\ yours' \in [Dirs -> [Names -> S]] /\ yours'[d][name] = mine
        /\ \A e \in Dirs, other \in Names : e # d \/ other # name => yours'[e][other] = yours[e][other]
    BY <2>1
  <2> QED  BY <2>2 DEF mine, S
<1>5. ASSUME NEW e \in Dirs, NEW other \in Names PROVE Fitting(e, other)'
  <2>1. CASE e = d /\ other = name  BY <1>0, <1>2, <1>3, <1>4, <2>1 DEF Fitting
  <2>2. CASE e # d \/ other # name
    <3>1. hooks'[e][other] = hooks[e][other] /\ yours'[e][other] = yours[e][other]
      BY <1>3, <1>4, <2>2
    <3> QED  BY <1>0, <3>1 DEF Fitting
  <2> QED  BY <2>1, <2>2
<1> QED  BY <1>0, <1>3, <1>4, <1>5, EditKeepsHooks

LEMMA StartKeepsHooks ==
    ASSUME HooksInv, NEW p \in Procs, NEW what \in {"install", "uninstall"},
           NEW step \in {First(what), "query"}, NEW on \in SUBSET Dirs, Start(p, what, step, on),
           \/ UNCHANGED <<dir, then>>
           \/ \E d \in Dirs : dir' = [dir EXCEPT ![p] = d] /\ then' = [then EXCEPT ![p] = "idle"]
    PROVE  HooksInv'
<1>0. TypeOK /\ StepsInv /\ step \in PCs /\ "idle" \in PCs  BY DEF HooksInv, First, PCs
<1>1. /\ UNCHANGED <<hooks, made, at, expected, contents, failed, yours, edits, failures>>
      /\ commands < MaxCommands /\ commands' = commands + 1
      /\ op' = [op EXCEPT ![p] = what] /\ pc' = [pc EXCEPT ![p] = step]
      /\ targets' = [targets EXCEPT ![p] = on]
      /\ quiet' = [q \in Procs |->
                     IF q = p THEN \A r \in Procs \ {p} : pc[r] = "idle" \/ (op[r] = what /\ quiet[r])
                     ELSE quiet[q] /\ op[q] = what]
      /\ outcome' = [q \in Procs |-> IF quiet'[q] /\ q # p THEN outcome[q] ELSE "none"]
  BY DEF Start, locals
<1>2. TypeOK'
  <2>1. commands' \in 0 .. MaxCommands  BY <1>0, <1>1, BoundsAssumption DEF TypeOK
  <2>2. quiet' \in [Procs -> BOOLEAN]
    <3>1. ASSUME NEW q \in Procs PROVE quiet[q] \in BOOLEAN  BY <1>0 DEF TypeOK
    <3> QED  BY <1>1, <3>1
  <2>3. outcome' \in [Procs -> {"none", "ok", "failed", "stopped", "killed"}]
    BY <1>0, <1>1 DEF TypeOK
  <2>4. /\ pc' \in [Procs -> PCs] /\ op' \in [Procs -> {"install", "uninstall"}]
        /\ targets' \in [Procs -> SUBSET Dirs]
        /\ dir' \in [Procs -> Dirs] /\ then' \in [Procs -> PCs]
    BY <1>0, <1>1 DEF TypeOK
  <2> QED  BY <1>0, <1>1, <2>1, <2>2, <2>3, <2>4 DEF TypeOK
<1>3. StepsInv'  BY <1>0, <1>1 DEF StepsInv, TypeOK, First
<1>4. \A q \in Procs : Reading(q)'
  <2>1. \A q \in Procs : Reading(q)  BY HooksInvParts
  <2>2. ASSUME NEW q \in Procs
        PROVE  \/ pc'[q] \notin {"compare", "rename", "remove"}
               \/ /\ pc'[q] = pc[q] /\ at'[q] = at[q] /\ dir'[q] = dir[q] /\ op'[q] = op[q]
                  /\ expected'[q] = expected[q] /\ contents'[q] = contents[q]
    BY <1>0, <1>1 DEF TypeOK, First
  <2> QED  BY <1>1, <2>1, <2>2, ElsewhereReading
<1>5. \A d \in Dirs, name \in Names : Fitting(d, name)'  BY <1>1, FittingHooks DEF Fitting
<1> QED  BY <1>2, <1>3, <1>4, <1>5, HooksInvFrom

LEMMA BeginKeepsHooks ==
    ASSUME HooksInv, NEW p \in Procs, Begin(p)
    PROVE  HooksInv'
<1>1. PICK d \in LocalDirs, what \in {"install", "uninstall"} :
        /\ Start(p, what, First(what), {d})
        /\ dir' = [dir EXCEPT ![p] = d] /\ then' = [then EXCEPT ![p] = "idle"]
  BY DEF Begin
<1>2. d \in Dirs /\ {d} \in SUBSET Dirs  BY DirsAssumption
<1> QED  BY <1>1, <1>2, StartKeepsHooks

LEMMA InitHooks == Init => HooksInv
<1> SUFFICES ASSUME Init PROVE HooksInv
  OBVIOUS
<1>0. Len(All) = 2 /\ "idle" \in PCs /\ <<>> \in Seq(Lines) /\ Cardinality(Owned(<<>>)) <= 1
  <2>1. Cardinality(Owned(<<>>)) = 0  BY AbsentFacts, FS_EmptySet
  <2> QED  BY <2>1, AllFacts, ShortHooks DEF PCs
<1>1. \A d \in Dirs, name \in Names : hooks[d][name] = Absent /\ yours[d][name] = <<>>
  BY DEF Init
<1>2. TypeOK
  <2>1. hooks \in [Dirs -> [Names -> Files]] /\ yours \in [Dirs -> [Names -> Seq(Lines)]]
    BY <1>0, AbsentFacts DEF Init
  <2>2. /\ made \subseteq Dirs /\ pc \in [Procs -> PCs] /\ then \in [Procs -> PCs]
        /\ op \in [Procs -> {"install", "uninstall"}] /\ dir \in [Procs -> Dirs]
        /\ targets \in [Procs -> SUBSET Dirs] /\ at \in [Procs -> 1 .. 2]
        /\ failed \in [Procs -> BOOLEAN] /\ quiet \in [Procs -> BOOLEAN]
        /\ outcome \in [Procs -> {"none", "ok", "failed", "stopped", "killed"}]
    BY <1>0, DirsAssumption DEF Init
  <2>3. /\ expected \in [Procs -> Seq(Lines)] /\ contents \in [Procs -> Seq(Lines)]
        /\ \A p \in Procs : contents[p] = <<>>
    BY <1>0 DEF Init
  <2>4. commands \in 0 .. MaxCommands /\ edits \in 0 .. MaxEdits /\ failures \in 0 .. MaxFailures
    BY BoundsAssumption DEF Init
  <2> QED  BY <1>0, <1>1, <2>1, <2>2, <2>3, <2>4 DEF TypeOK, Files
<1>3. \A p \in Procs : pc[p] = "idle" /\ then[p] = "idle"  BY DEF Init
<1>4. \A p \in Procs : Reading(p)  BY <1>3 DEF Reading
<1>5. \A d \in Dirs, name \in Names : Fitting(d, name)  BY <1>1, AbsentFacts DEF Fitting
<1>6. StepsInv  BY <1>3 DEF StepsInv
<1> QED  BY <1>2, <1>4, <1>5, <1>6, HooksInvParts
=============================================================================
