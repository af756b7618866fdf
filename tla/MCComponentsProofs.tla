------------------------- MODULE MCComponentsProofs -------------------------
(***************************************************************************)
(* What is proved of the components that share no state with another, for  *)
(* any bounds, texts, stores and labels.  The bridge and the native        *)
(* helper have invariants of their own; those of the managed block, the    *)
(* resolution and the work items are here.  Each one holds of its          *)
(* component also while it rests.                                          *)
(***************************************************************************)
EXTENDS MCComponents, ProviderBridgeProofs

NativeProofs == INSTANCE NativeFilesystemProofs

LEMMA BoundsAreNumbers ==
  /\ MaxEdits \in Nat /\ MaxRoots \in Nat /\ MaxNamed \in Nat /\ MaxChanges \in Nat
  /\ MaxIds \in Nat
  BY ComponentsAssumption

LEMMA EmptySequences == \A S : <<>> \in Seq(S) /\ Len(<<>>) = 0
  OBVIOUS
-----------------------------------------------------------------------------
(* The managed block. *)

\* The installer's line ends around the block are those that the block has recorded, and
\* the text in front of it is the user's.
Surrounded ==
  /\ block.eol = Entry!EolOf(before, block, after)
  /\ block.suffixAdded = TRUE /\ after = block.eol
  /\ before = base \o (IF block.prefixAdded = TRUE THEN block.eol ELSE <<>>)

EntryInv ==
  /\ Entry!TypeOK
  /\ block = NoBlock => after = <<>>
  /\ untouched = TRUE /\ block = NoBlock => before = base
  /\ untouched = TRUE /\ block # NoBlock => Surrounded

LEMMA LineEnds == /\ Entry!LF \in Seq(Characters) /\ Entry!CRLF \in Seq(Characters)
                  /\ \A b, k, a : Entry!EolOf(b, k, a) \in {Entry!LF, Entry!CRLF}
  BY ComponentsAssumption DEF Entry!LF, Entry!CRLF, Entry!EolOf

LEMMA NoBlockIsNone == \A k \in Entry!Blocks : k # NoBlock
  BY ComponentsAssumption

\* A line end that was put behind a text can be taken away again.
LEMMA EndIsDropped ==
  ASSUME NEW text \in Seq(Characters), NEW eol \in {Entry!LF, Entry!CRLF}
  PROVE  /\ Entry!EndsWith(text \o eol, eol)
         /\ Entry!DropEnd(text \o eol, eol) = text
<1>1. eol \in Seq(Characters) /\ text \o eol \in Seq(Characters)
      /\ Len(text \o eol) = Len(text) + Len(eol)
  BY LineEnds
<1>2. Entry!DropEnd(text \o eol, eol) = text
  BY <1>1 DEF Entry!DropEnd
<1>3. Entry!EndsWith(text \o eol, eol)
  <2> DEFINE r == Entry!Reverse(text \o eol)
             s == Entry!Reverse(eol)
  <2>1. /\ r \in Seq(Characters) /\ s \in Seq(Characters)
        /\ Len(r) = Len(text) + Len(eol) /\ Len(s) = Len(eol)
    BY <1>1 DEF Entry!Reverse
  <2>2. \A i \in 1..Len(eol) : r[i] = s[i]
    BY <1>1, <2>1 DEF Entry!Reverse
  <2>3. SubSeq(s, 1, Len(s)) = SubSeq(r, 1, Len(s))
    <3> HIDE DEF r, s
    <3> QED
      BY <2>1, <2>2
  <2>4. QED
    BY <1>1, <2>1, <2>3 DEF Entry!EndsWith, Entry!IsSuffix, Entry!IsPrefix
<1>4. QED
  BY <1>2, <1>3

LEMMA EntryRests ==
  ASSUME before = <<>>, block = NoBlock, after = <<>>, installed = NoBlock,
         base = <<>>, untouched = TRUE, editsLeft = 0, rootsLeft = 0
  PROVE  EntryInv
  BY ComponentsAssumption DEF EntryInv, Entry!TypeOK

LEMMA EntryStarts == Entry!Init => EntryInv
<1> SUFFICES ASSUME Entry!Init PROVE EntryInv
  OBVIOUS
<1>1. before \in Seq(Characters)
  BY DEF Entry!Init, Entry!Texts, Entry!BoundedSeq, Entry!SeqOf
<1>2. QED
  BY <1>1, ComponentsAssumption DEF EntryInv, Entry!TypeOK, Entry!Init

\* A block that is put behind a text.
LEMMA PutKeepsEntry ==
  ASSUME NEW text \in Seq(Characters), NEW v \in Versions, Entry!Put(text, v),
         base' = text, untouched' = TRUE, rootsLeft' \in 0..MaxRoots, EntryInv
  PROVE  EntryInv'
<1> DEFINE eol == Entry!EolOf(text, NoBlock, <<>>)
           k   == Entry!projection(v, eol, Entry!PrefixAdded(text), TRUE)
           b   == text \o (IF Entry!PrefixAdded(text) THEN eol ELSE <<>>)
<1>1. /\ Entry!verifyManagedBlock(b, k, eol, v)
      /\ before' = b /\ block' = k /\ after' = eol /\ installed' = v /\ editsLeft' = editsLeft
  BY DEF Entry!Put, Entry!Write
<1>2. eol \in {Entry!LF, Entry!CRLF}
  BY LineEnds
<1>3. Entry!PrefixAdded(text) \in BOOLEAN
  BY DEF Entry!PrefixAdded
<1>4. k \in Entry!Blocks /\ k.eol = eol /\ k.suffixAdded = TRUE
      /\ k.prefixAdded = Entry!PrefixAdded(text)
  BY <1>2, <1>3 DEF Entry!projection, Entry!Blocks
<1>5. k.eol = Entry!EolOf(b, k, eol)
  BY <1>1, <1>4 DEF Entry!verifyManagedBlock, Entry!projection
<1>6. b \in Seq(Characters) /\ eol \in Seq(Characters)
  BY <1>2, LineEnds
<1>7. Entry!TypeOK'
  BY <1>1, <1>4, <1>6 DEF EntryInv, Entry!TypeOK
<1>8. Surrounded'
  BY <1>1, <1>3, <1>4, <1>5 DEF Surrounded
<1>9. QED
  BY <1>1, <1>4, <1>7, <1>8, NoBlockIsNone DEF EntryInv

LEMMA UpdateKeepsEntry ==
  ASSUME EntryInv, NEW v \in Versions, Entry!Update(v)
  PROVE  EntryInv'
<1> DEFINE k == Entry!ProjectedAgain(v)
<1>1. /\ Entry!verifyManagedBlock(before, block, after, installed)
      /\ Entry!verifyManagedBlock(before, k, after, v)
      /\ before' = before /\ block' = k /\ after' = after /\ installed' = v
      /\ UNCHANGED <<base, untouched, rootsLeft, editsLeft>> /\ block # NoBlock
  BY DEF Entry!Update, Entry!Write
<1>2. block \in Entry!Blocks
  BY <1>1 DEF EntryInv, Entry!TypeOK
<1>3. /\ k.eol = Entry!EolOf(before, block, after) /\ k.suffixAdded = block.suffixAdded
      /\ k.prefixAdded = block.prefixAdded /\ k \in Entry!Blocks
  BY <1>2, LineEnds DEF Entry!ProjectedAgain, Entry!projection, Entry!Blocks
<1>4. block.eol = Entry!EolOf(before, block, after) /\ k.eol = Entry!EolOf(before, k, after)
  BY <1>1 DEF Entry!verifyManagedBlock, Entry!projection
<1>5. Entry!TypeOK'
  BY <1>1, <1>3 DEF EntryInv, Entry!TypeOK
<1>6. untouched = TRUE => Surrounded'
  BY <1>1, <1>3, <1>4 DEF EntryInv, Surrounded
<1>7. QED
  BY <1>1, <1>3, <1>5, <1>6, NoBlockIsNone DEF EntryInv

LEMMA UninstallKeepsEntry ==
  ASSUME EntryInv, Entry!Uninstall
  PROVE  EntryInv'
<1> DEFINE eol == Entry!EolOf(before, block, after)
<1>1. /\ block \in Entry!Blocks
      /\ before' = Entry!PrefixRemoved \o Entry!SuffixRemoved
      /\ block' = NoBlock /\ after' = <<>> /\ installed' = NoBlock
      /\ UNCHANGED <<base, untouched, rootsLeft, editsLeft>>
      /\ before \in Seq(Characters) /\ after \in Seq(Characters) /\ base \in Seq(Characters)
  BY DEF Entry!Uninstall, Entry!Write, EntryInv, Entry!TypeOK
<1>2. eol \in {Entry!LF, Entry!CRLF} /\ eol \in Seq(Characters)
  BY LineEnds
<1>3. Entry!PrefixRemoved \in Seq(Characters)
  <2> HIDE DEF eol
  <2>1. Entry!EndsWith(before, eol) => Len(eol) <= Len(before)
    BY <1>1, <1>2 DEF Entry!EndsWith, Entry!IsSuffix, Entry!IsPrefix, Entry!Reverse
  <2>2. Len(eol) <= Len(before) => Entry!DropEnd(before, eol) \in Seq(Characters)
    BY <1>1, <1>2 DEF Entry!DropEnd
  <2>3. QED
    BY <1>1, <2>1, <2>2 DEF Entry!PrefixRemoved, eol
<1>4. Entry!SuffixRemoved \in Seq(Characters)
  BY <1>1, <1>2 DEF Entry!SuffixRemoved, Entry!DropStart
<1>5. Entry!TypeOK'
  BY <1>1, <1>3, <1>4 DEF EntryInv, Entry!TypeOK
<1>6. ASSUME untouched = TRUE PROVE before' = base
  <2>1. /\ block.eol = eol /\ block.suffixAdded = TRUE /\ after = eol
        /\ before = base \o (IF block.prefixAdded = TRUE THEN eol ELSE <<>>)
        /\ block.prefixAdded \in BOOLEAN
    BY <1>1, <1>6, NoBlockIsNone DEF EntryInv, Surrounded, Entry!Blocks
  <2>2. CASE block.prefixAdded = TRUE
    <3>1. Entry!PrefixRemoved = base
      <4> HIDE DEF eol
      <4>1. before = base \o eol
        BY <2>1, <2>2
      <4>2. Entry!EndsWith(before, eol) /\ Entry!DropEnd(before, eol) = base
        BY <1>1, <1>2, <4>1, EndIsDropped
      <4>3. QED
        BY <2>2, <4>2 DEF Entry!PrefixRemoved, eol
    <3>2. QED
      BY <1>1, <1>2, <2>1, <3>1 DEF Entry!SuffixRemoved, Entry!DropStart, Entry!IsPrefix
  <2>3. CASE block.prefixAdded = FALSE
    <3>1. Entry!PrefixRemoved = base
      BY <1>1, <2>1, <2>3 DEF Entry!PrefixRemoved
    <3>2. QED
      BY <1>1, <1>2, <2>1, <3>1 DEF Entry!SuffixRemoved, Entry!DropStart, Entry!IsPrefix
  <2>4. QED
    BY <2>1, <2>2, <2>3
<1>7. QED
  BY <1>1, <1>5, <1>6 DEF EntryInv

LEMMA EditKeepsEntry ==
  ASSUME EntryInv, Entry!EditBefore \/ Entry!EditAfter \/ Entry!EditBlock
  PROVE  EntryInv'
<1>1. untouched' = FALSE /\ UNCHANGED <<installed, base, rootsLeft>> /\ editsLeft' \in 0..MaxEdits
  BY ComponentsAssumption DEF Entry!EditBefore, Entry!EditAfter, Entry!EditBlock, Entry!Edit,
                              EntryInv, Entry!TypeOK
<1>2. before \in Seq(Characters) /\ after \in Seq(Characters) /\ block \in Entry!Blocks \cup {NoBlock}
  BY DEF EntryInv, Entry!TypeOK
<1>3. /\ before' \in Seq(Characters) /\ after' \in Seq(Characters)
      /\ block' \in Entry!Blocks \cup {NoBlock}
      /\ block' = NoBlock => after' = <<>>
  <2>1. CASE Entry!EditBefore
    <3>1. Entry!Front(before) \in Seq(Characters) \/ before = <<>>
      BY <1>2 DEF Entry!Front
    <3>2. UNCHANGED <<block, after>>
      BY <2>1 DEF Entry!EditBefore
    <3>3. \/ \E c \in Characters : before' = Append(before, c)
          \/ before # <<>> /\ before' = Entry!Front(before)
      BY <2>1, Zenon DEF Entry!EditBefore
    <3>4. \A c \in Characters : Append(before, c) \in Seq(Characters)
      BY <1>2
    <3>5. before' \in Seq(Characters)
      BY <3>1, <3>3, <3>4, Zenon
    <3>6. QED
      BY <1>2, <3>2, <3>5 DEF EntryInv
  <2>2. CASE Entry!EditAfter
    <3>1. \A c \in Characters : <<c>> \o after \in Seq(Characters)
      BY <1>2
    <3>2. after # <<>> => Tail(after) \in Seq(Characters)
      BY <1>2
    <3>3. after' \in Seq(Characters) /\ UNCHANGED <<block, before>> /\ block # NoBlock
      BY <2>2, <3>1, <3>2 DEF Entry!EditAfter
    <3>4. QED
      BY <1>2, <3>3
  <2>3. CASE Entry!EditBlock
    <3>1. block \in Entry!Blocks
      BY <1>2, <2>3 DEF Entry!EditBlock
    <3>2. block' \in Entry!Blocks \cup {NoBlock}
      BY <2>3, <3>1 DEF Entry!EditBlock, Entry!Blocks
    <3>3. before \o after \in Seq(Characters) /\ <<>> \in Seq(Characters)
      BY <1>2
    <3>4. /\ before' \in Seq(Characters) /\ after' \in Seq(Characters)
          /\ block' = NoBlock => after' = <<>>
      <4> HIDE DEF Entry!EditBlock
      <4>1. IF block' = NoBlock THEN before' = before \o after /\ after' = <<>>
            ELSE UNCHANGED <<before, after>>
        BY <2>3 DEF Entry!EditBlock
      <4>2. QED
        BY <1>2, <3>3, <4>1
    <3>5. QED
      BY <3>2, <3>4
  <2>4. QED
    BY <2>1, <2>2, <2>3
<1>4. QED
  BY <1>1, <1>3 DEF EntryInv, Entry!TypeOK

LEMMA EntryKeeps == EntryInv /\ [Entry!Next]_entryVars => EntryInv'
<1> SUFFICES ASSUME EntryInv, [Entry!Next]_entryVars PROVE EntryInv'
  OBVIOUS
<1>1. ASSUME NEW v \in Versions, Entry!InstallFirst(v) PROVE EntryInv'
  BY <1>1, PutKeepsEntry DEF Entry!InstallFirst, EntryInv, Entry!TypeOK
<1>2. ASSUME NEW v \in Versions, Entry!Replace(v) PROVE EntryInv'
  <2>1. before \o after \in Seq(Characters) /\ rootsLeft' \in 0..MaxRoots
    BY <1>2, ComponentsAssumption DEF Entry!Replace, EntryInv, Entry!TypeOK
  <2>2. QED
    BY <1>2, <2>1, PutKeepsEntry DEF Entry!Replace
<1>3. CASE UNCHANGED entryVars
  BY <1>3 DEF entryVars, EntryInv, Entry!TypeOK, Surrounded
<1>4. QED
  BY <1>1, <1>2, <1>3, UpdateKeepsEntry, UninstallKeepsEntry, EditKeepsEntry DEF Entry!Next

LEMMA EntryRoundTrip == EntryInv => Entry!RoundTrip
  BY DEF EntryInv, Entry!TypeOK, Entry!RoundTrip
-----------------------------------------------------------------------------
(* The resolution of candidates. *)

\* The stores that have been inspected.
Behind == {candidates[i] : i \in 1..(next - 1)}

Matching == Resolution!Range(matches)

\* How an inspection has ended.
Concluded ==
  \/ /\ next <= Len(candidates) /\ store[candidates[next]].fault # "none"
     /\ outcome = Resolution!Outcome("INVALID", <<candidates[next]>>)
  \/ /\ next = Len(candidates) + 1
     /\ outcome = CASE Len(matches) = 0 -> Resolution!Outcome("NO_MATCH", <<>>)
                    [] Len(matches) = 1 -> Resolution!Outcome("RESUME", matches)
                    [] OTHER            -> Resolution!Outcome("AMBIGUOUS", matches)

ResolutionInv ==
  /\ Resolution!TypeOK
  /\ matches \in Seq(Stores) /\ Len(matches) < next /\ Resolution!IsInjective(matches)
  /\ Matching \subseteq Behind
  /\ opened = TRUE => next <= Len(candidates) /\ candidates[next] \notin Behind
  /\ seen = Behind \cup (IF opened = TRUE THEN {candidates[next]} ELSE {})
  /\ \A s \in steady \cap Behind : /\ store[s].fault = "none"
                                   /\ s \in Matching <=> Resolution!Matches(store[s])
  /\ outcome # Resolution!Running => Concluded

LEMMA NamedStores ==
  ASSUME Resolution!TypeOK
  PROVE  /\ candidates \in Seq(Stores) /\ Len(candidates) \in 0..MaxNamed
         /\ next \in 1..(Len(candidates) + 1)
<1>1. PICK m \in 0..MaxNamed : candidates \in [1..m -> Stores]
  BY DEF Resolution!TypeOK, Resolution!SeqOf
<1>2. candidates \in Seq(Stores) /\ Len(candidates) = m
  BY <1>1, BoundsAreNumbers
<1>3. QED
  BY <1>2 DEF Resolution!TypeOK

LEMMA ShortSequences ==
  ASSUME NEW s \in Seq(Stores), Len(s) <= MaxNamed
  PROVE  s \in Resolution!SeqOf(Stores, MaxNamed)
  BY ComponentsAssumption DEF Resolution!SeqOf

LEMMA ShortAnswers ==
  /\ <<>> \in Resolution!SeqOf(Stores, MaxNamed)
  /\ \A x \in Stores : MaxNamed >= 1 => <<x>> \in Resolution!SeqOf(Stores, MaxNamed)
<1>1. ASSUME NEW s, s = <<>> PROVE s \in Resolution!SeqOf(Stores, MaxNamed)
  <2>1. s \in [1..0 -> Stores] /\ 0 \in 0..MaxNamed
    BY <1>1, BoundsAreNumbers
  <2>2. QED
    BY <2>1 DEF Resolution!SeqOf
<1>2. ASSUME NEW x \in Stores, MaxNamed >= 1, NEW s, s = <<x>>
      PROVE  s \in Resolution!SeqOf(Stores, MaxNamed)
  <2>1. s \in Seq(Stores) /\ Len(s) = 1
    BY <1>2
  <2>2. QED
    BY <1>2, <2>1, ShortSequences, BoundsAreNumbers
<1>3. QED
  BY <1>1, <1>2, Zenon

LEMMA AppendedRange ==
  ASSUME NEW s \in Seq(Stores), NEW x \in Stores
  PROVE  /\ Resolution!Range(Append(s, x)) = Resolution!Range(s) \cup {x}
         /\ Resolution!IsInjective(s) /\ x \notin Resolution!Range(s)
              => Resolution!IsInjective(Append(s, x))
<1> DEFINE t == Append(s, x)
<1>1. /\ DOMAIN s = 1..Len(s) /\ DOMAIN t = 1..(Len(s) + 1) /\ Len(s) \in Nat
      /\ \A i \in 1..Len(s) : t[i] = s[i]
      /\ t[Len(s) + 1] = x
  OBVIOUS
<1> HIDE DEF t
<1>2. Resolution!Range(t) = Resolution!Range(s) \cup {x}
  <2>1. ASSUME NEW y \in Resolution!Range(t) PROVE y \in Resolution!Range(s) \cup {x}
    BY <1>1, <2>1 DEF Resolution!Range
  <2>2. ASSUME NEW y \in Resolution!Range(s) PROVE y \in Resolution!Range(t)
    BY <1>1, <2>2 DEF Resolution!Range
  <2>3. x \in Resolution!Range(t)
    BY <1>1 DEF Resolution!Range
  <2>4. QED
    BY <2>1, <2>2, <2>3
<1>3. ASSUME Resolution!IsInjective(s), x \notin Resolution!Range(s)
      PROVE  Resolution!IsInjective(t)
  BY <1>1, <1>3 DEF Resolution!IsInjective, Resolution!Range
<1>4. QED
  BY <1>2, <1>3 DEF t

LEMMA NextBehind ==
  ASSUME Resolution!TypeOK, next <= Len(candidates), next' = next + 1, candidates' = candidates
  PROVE  Behind' = Behind \cup {candidates[next]}
<1>1. next \in Nat /\ next >= 1
  BY NamedStores
<1>2. 1..(next' - 1) = 1..(next - 1) \cup {next}
  BY <1>1
<1>3. QED
  BY <1>2 DEF Behind

LEMMA ResolutionRests ==
  ASSUME store = [s \in Stores |-> [fault |-> "none", empty |-> TRUE,
                                    newest |-> Resolution!NoCheckpoint]],
         candidates = <<>>, next = 1, opened = FALSE, seen = {}, matches = <<>>,
         outcome = Resolution!Running, steady = Stores, changesLeft = 0
  PROVE  ResolutionInv
<1>1. Resolution!NoCheckpoint \in Resolution!Checkpoints
  BY DEF Resolution!NoCheckpoint, Resolution!Checkpoints
<1>2. <<>> \in Resolution!SeqOf(Stores, MaxNamed)
  BY ShortAnswers
<1>3. store \in [Stores -> Resolution!Contents]
  BY <1>1 DEF Resolution!Contents, Resolution!Holding
<1>4. Resolution!Running \in [outcome : {"running", "RESUME", "NO_MATCH", "AMBIGUOUS", "INVALID"},
                              candidates : Resolution!SeqOf(Stores, MaxNamed)]
  BY <1>2 DEF Resolution!Running
<1>5. Resolution!TypeOK
  <2>1. Resolution!Range(matches) = {}
    BY DEF Resolution!Range
  <2>2. next \in 1..Len(candidates) + 1 /\ changesLeft \in 0..MaxChanges
    BY BoundsAreNumbers
  <2>3. QED
    BY <1>2, <1>3, <1>4, <2>1, <2>2 DEF Resolution!TypeOK
<1>6. QED
  BY <1>5 DEF ResolutionInv, Behind, Matching, Resolution!Range, Resolution!IsInjective

LEMMA ResolutionStarts == Resolution!Init => ResolutionInv
<1> SUFFICES ASSUME Resolution!Init PROVE ResolutionInv
  OBVIOUS
<1>1. <<>> \in Resolution!SeqOf(Stores, MaxNamed)
  BY ShortAnswers
<1>2. Resolution!Running \in [outcome : {"running", "RESUME", "NO_MATCH", "AMBIGUOUS", "INVALID"},
                              candidates : Resolution!SeqOf(Stores, MaxNamed)]
  BY <1>1 DEF Resolution!Running
<1>3. candidates \in Seq(Stores)
  BY DEF Resolution!Init, Resolution!SeqOf
<1>4. Resolution!TypeOK
  <2>1. Resolution!Range(matches) = {}
    BY DEF Resolution!Init, Resolution!Range
  <2>2. next \in 1..Len(candidates) + 1 /\ changesLeft \in 0..MaxChanges
    BY <1>3, BoundsAreNumbers DEF Resolution!Init
  <2>3. QED
    BY <1>2, <2>1, <2>2 DEF Resolution!Init, Resolution!TypeOK
<1>5. QED
  BY <1>4 DEF Resolution!Init, ResolutionInv, Behind, Matching, Resolution!Range,
              Resolution!IsInjective

\* A candidate that cannot be used ends the inspection.
LEMMA InvalidKeeps ==
  ASSUME ResolutionInv, Resolution!Inspecting, Resolution!Invalid,
         store[candidates[next]].fault # "none",
         UNCHANGED <<store, candidates, steady, changesLeft>>
  PROVE  ResolutionInv'
<1>1. candidates[next] \in Stores /\ next <= Len(candidates) /\ Len(candidates) <= MaxNamed
      /\ next >= 1 /\ Len(candidates) \in Nat /\ next \in Nat
  BY NamedStores, ComponentsAssumption DEF ResolutionInv, Resolution!Inspecting
<1>2. outcome' = Resolution!Outcome("INVALID", <<candidates[next]>>)
      /\ UNCHANGED <<next, opened, seen, matches>>
  BY DEF Resolution!Invalid, Resolution!Here
<1>3. <<candidates[next]>> \in Resolution!SeqOf(Stores, MaxNamed)
  <2>1. MaxNamed >= 1
    BY <1>1, BoundsAreNumbers
  <2>2. QED
    BY <1>1, <2>1, ShortAnswers, Zenon
<1>4. Resolution!TypeOK'
  BY <1>2, <1>3 DEF ResolutionInv, Resolution!TypeOK, Resolution!Outcome
<1>5. Concluded'
  BY <1>1, <1>2 DEF Concluded
<1>6. QED
  BY <1>2, <1>4, <1>5 DEF ResolutionInv, Behind, Matching

LEMMA OpenKeeps ==
  ASSUME ResolutionInv, Resolution!Open
  PROVE  ResolutionInv'
<1> DEFINE here == candidates[next]
<1>1. /\ next <= Len(candidates) /\ next \in Nat /\ next >= 1 /\ Len(candidates) \in Nat
      /\ here \in Stores /\ opened = FALSE /\ outcome = Resolution!Running /\ Resolution!TypeOK
      /\ UNCHANGED <<store, candidates, steady, changesLeft>>
  <2>1. Resolution!TypeOK
    BY DEF ResolutionInv
  <2>2. /\ next <= Len(candidates) /\ outcome = Resolution!Running /\ ~opened
        /\ UNCHANGED <<store, candidates, steady, changesLeft>>
    BY DEF Resolution!Open, Resolution!Inspecting
  <2>3. opened = FALSE
    BY <2>1, <2>2, Zenon DEF Resolution!TypeOK
  <2>4. QED
    BY <2>1, <2>2, <2>3, NamedStores
<1>2. seen = Behind
  BY <1>1 DEF ResolutionInv
<1>3. CASE store[here].fault = "unsafe directory"
  BY <1>1, <1>3, InvalidKeeps DEF Resolution!Open, Resolution!Here
<1>4. CASE store[here].fault # "unsafe directory" /\ here \in seen
  <2>1. next' = next + 1 /\ opened' = FALSE /\ UNCHANGED <<matches, outcome>> /\ seen' = seen
    BY <1>4 DEF Resolution!Open, Resolution!Here, Resolution!Seen
  <2>2. Behind' = Behind
    BY <1>1, <1>2, <1>4, <2>1, NextBehind
  <2>3. Resolution!TypeOK'
    <3>1. next + 1 \in 1..Len(candidates) + 1
      BY <1>1
    <3>2. QED
      BY <1>1, <2>1, <3>1 DEF Resolution!TypeOK
  <2>4. QED
    BY <1>1, <1>2, <2>1, <2>2, <2>3 DEF ResolutionInv, Matching
<1>5. CASE store[here].fault # "unsafe directory" /\ here \notin seen
  <2>1. next' = next /\ opened' = TRUE /\ UNCHANGED <<matches, outcome>> /\ seen' = seen \cup {here}
    BY <1>5 DEF Resolution!Open, Resolution!Here, Resolution!Seen
  <2>2. Behind' = Behind
    BY <1>1, <2>1 DEF Behind
  <2>3. Resolution!TypeOK'
    <3>1. Matching \subseteq seen' /\ seen' \subseteq Stores /\ opened' \in BOOLEAN
      BY <1>1, <2>1 DEF Resolution!TypeOK, Matching
    <3>2. store' \in [Stores -> Resolution!Contents]
      BY <1>1 DEF Resolution!TypeOK
    <3>3. candidates' \in Resolution!SeqOf(Stores, MaxNamed) /\ next' \in 1..Len(candidates') + 1
      BY <1>1, <2>1 DEF Resolution!TypeOK
    <3>4. outcome' \in [outcome : {"running", "RESUME", "NO_MATCH", "AMBIGUOUS", "INVALID"},
                        candidates : Resolution!SeqOf(Stores, MaxNamed)]
      BY <2>1 DEF ResolutionInv, Resolution!TypeOK
    <3>5. steady' \subseteq Stores /\ changesLeft' \in 0..MaxChanges
      BY <1>1 DEF Resolution!TypeOK
    <3>6. Resolution!Range(matches') \subseteq seen'
      BY <2>1, <3>1 DEF Matching
    <3>7. QED
      BY <3>1, <3>2, <3>3, <3>4, <3>5, <3>6 DEF Resolution!TypeOK
  <2>4. QED
    BY <1>1, <1>2, <1>5, <2>1, <2>2, <2>3 DEF ResolutionInv, Matching
<1>6. QED
  BY <1>3, <1>4, <1>5

LEMMA ReadKeeps ==
  ASSUME ResolutionInv, Resolution!Read
  PROVE  ResolutionInv'
<1> DEFINE here == candidates[next]
<1>1. /\ next <= Len(candidates) /\ next \in Nat /\ next >= 1 /\ Len(candidates) \in Nat
      /\ here \in Stores /\ opened = TRUE /\ outcome = Resolution!Running /\ Resolution!TypeOK
      /\ UNCHANGED <<store, candidates, steady, changesLeft>>
  BY NamedStores DEF ResolutionInv, Resolution!Read, Resolution!Inspecting, Resolution!TypeOK
<1>2. seen = Behind \cup {here} /\ here \notin Behind
  BY <1>1 DEF ResolutionInv
<1>3. CASE store[here].fault # "none"
  BY <1>1, <1>3, InvalidKeeps DEF Resolution!Read, Resolution!Here
<1>4. CASE store[here].fault = "none"
  <2>1. /\ next' = next + 1 /\ opened' = FALSE /\ UNCHANGED <<seen, outcome>>
        /\ matches' = IF Resolution!Matches(store[here]) THEN Append(matches, here) ELSE matches
    BY <1>4 DEF Resolution!Read, Resolution!Here
  <2>2. Behind' = Behind \cup {here}
    BY <1>1, <2>1, NextBehind
  <2>3. /\ matches \in Seq(Stores) /\ Len(matches) < next /\ Resolution!IsInjective(matches)
        /\ Matching \subseteq Behind /\ here \notin Matching
    BY <1>2 DEF ResolutionInv
  <2>4. /\ matches' \in Seq(Stores) /\ Len(matches') < next'
        /\ Resolution!IsInjective(matches')
        /\ Matching' = IF Resolution!Matches(store[here]) THEN Matching \cup {here} ELSE Matching
    <3>1. CASE Resolution!Matches(store[here])
      <4>1. matches' = Append(matches, here)
        BY <2>1, <3>1
      <4>2. /\ Matching' = Matching \cup {here}
            /\ Resolution!IsInjective(matches')
        BY <1>1, <2>3, <4>1, AppendedRange DEF Matching
      <4>3. matches' \in Seq(Stores) /\ Len(matches') = Len(matches) + 1 /\ Len(matches) \in Nat
        BY <1>1, <2>3, <4>1
      <4>4. QED
        BY <1>1, <2>1, <2>3, <3>1, <4>2, <4>3
    <3>2. CASE ~Resolution!Matches(store[here])
      <4>1. matches' = matches
        BY <2>1, <3>2
      <4>2. Len(matches) \in Nat
        BY <2>3
      <4>3. QED
        BY <1>1, <2>1, <2>3, <3>2, <4>1, <4>2 DEF Matching
    <3>3. QED
      BY <3>1, <3>2
  <2>5. Resolution!TypeOK'
    <3>1. Matching' \subseteq seen'
      BY <1>2, <2>1, <2>3, <2>4
    <3>2. store' \in [Stores -> Resolution!Contents]
      BY <1>1 DEF Resolution!TypeOK
    <3>3. candidates' \in Resolution!SeqOf(Stores, MaxNamed) /\ next' \in 1..Len(candidates') + 1
      BY <1>1, <2>1 DEF Resolution!TypeOK
    <3>4. outcome' \in [outcome : {"running", "RESUME", "NO_MATCH", "AMBIGUOUS", "INVALID"},
                        candidates : Resolution!SeqOf(Stores, MaxNamed)]
      BY <2>1 DEF ResolutionInv, Resolution!TypeOK
    <3>5. steady' \subseteq Stores /\ changesLeft' \in 0..MaxChanges
      BY <1>1 DEF Resolution!TypeOK
    <3>6. Resolution!Range(matches') \subseteq seen' /\ seen' \subseteq Stores
          /\ opened' \in BOOLEAN
      BY <1>1, <2>1, <3>1 DEF Matching, Resolution!TypeOK
    <3>7. QED
      BY <3>2, <3>3, <3>4, <3>5, <3>6 DEF Resolution!TypeOK
  <2>6. ASSUME NEW s \in steady \cap (Behind \cup {here})
        PROVE  store[s].fault = "none" /\ (s \in Matching' <=> Resolution!Matches(store[s]))
    <3>1. CASE s = here
      BY <1>4, <2>3, <2>4, <3>1
    <3>2. CASE s # here
      BY <2>4, <3>2 DEF ResolutionInv
    <3>3. QED
      BY <3>1, <3>2
  <2>7. /\ \A s \in steady' \cap Behind' :
               store'[s].fault = "none" /\ (s \in Matching' <=> Resolution!Matches(store'[s]))
        /\ Matching' \subseteq Behind' /\ seen' = Behind'
    BY <1>1, <1>2, <2>1, <2>2, <2>3, <2>4, <2>6
  <2>8. QED
    BY <1>1, <2>1, <2>4, <2>5, <2>7 DEF ResolutionInv, Matching, Resolution!Matches
<1>5. QED
  BY <1>3, <1>4

LEMMA ConcludeKeeps ==
  ASSUME ResolutionInv, Resolution!Conclude
  PROVE  ResolutionInv'
<1>1. /\ next = Len(candidates) + 1 /\ Len(candidates) \in Nat /\ Len(candidates) <= MaxNamed
      /\ MaxNamed \in Nat
      /\ UNCHANGED <<store, candidates, next, opened, seen, matches, steady, changesLeft>>
  BY NamedStores, ComponentsAssumption DEF ResolutionInv, Resolution!Conclude
<1>2. outcome' = CASE Len(matches) = 0 -> Resolution!Outcome("NO_MATCH", <<>>)
                   [] Len(matches) = 1 -> Resolution!Outcome("RESUME", matches)
                   [] OTHER            -> Resolution!Outcome("AMBIGUOUS", matches)
  BY DEF Resolution!Conclude
<1>3. matches \in Seq(Stores) /\ Len(matches) <= MaxNamed /\ Len(matches) \in Nat
  BY <1>1 DEF ResolutionInv
<1>4. /\ matches \in Resolution!SeqOf(Stores, MaxNamed)
      /\ <<>> \in Resolution!SeqOf(Stores, MaxNamed)
  BY <1>1, <1>3, ShortSequences, ShortAnswers
<1>5. outcome' \in [outcome : {"running", "RESUME", "NO_MATCH", "AMBIGUOUS", "INVALID"},
                    candidates : Resolution!SeqOf(Stores, MaxNamed)]
  BY <1>2, <1>4 DEF Resolution!Outcome
<1>6. Resolution!TypeOK'
  BY <1>1, <1>5 DEF ResolutionInv, Resolution!TypeOK
<1>7. Concluded'
  BY <1>1, <1>2 DEF Concluded
<1>8. QED
  BY <1>1, <1>6, <1>7 DEF ResolutionInv, Behind, Matching

LEMMA StoreChangesKeeps ==
  ASSUME ResolutionInv, Resolution!StoreChanges
  PROVE  ResolutionInv'
<1>1. PICK s \in Stores, h \in Resolution!Contents :
        store' = [store EXCEPT ![s] = h] /\ steady' = steady \ {s}
  BY DEF Resolution!StoreChanges
<1>2. /\ outcome = Resolution!Running /\ changesLeft' \in 0..MaxChanges
      /\ UNCHANGED <<candidates, next, opened, seen, matches, outcome>>
  BY ComponentsAssumption DEF Resolution!StoreChanges, ResolutionInv, Resolution!TypeOK
<1>3. Resolution!TypeOK'
  BY <1>1, <1>2 DEF ResolutionInv, Resolution!TypeOK
<1>4. \A r \in steady' : store'[r] = store[r] /\ r \in steady
  BY <1>1 DEF ResolutionInv, Resolution!TypeOK
<1>5. QED
  BY <1>2, <1>3, <1>4 DEF ResolutionInv, Behind, Matching

LEMMA ResolutionKeeps == ResolutionInv /\ [Resolution!Next]_resolutionVars => ResolutionInv'
<1> SUFFICES ASSUME ResolutionInv, UNCHANGED resolutionVars PROVE ResolutionInv'
  BY OpenKeeps, ReadKeeps, ConcludeKeeps, StoreChangesKeeps DEF Resolution!Next
<1>1. Resolution!TypeOK'
  BY DEF resolutionVars, ResolutionInv, Resolution!TypeOK
<1>2. QED
  BY <1>1 DEF resolutionVars, ResolutionInv, Behind, Matching, Concluded

\* Once every candidate has been read, the answer fits the stores.
LEMMA ResolutionReports == ResolutionInv => Resolution!PendingIsReported
<1> SUFFICES ASSUME ResolutionInv, outcome # Resolution!Running
             PROVE  /\ steady = Stores => Resolution!AnswersFor(Resolution!Range(candidates))
                    /\ \A s \in steady \cap Resolution!Range(candidates) :
                         store[s].newest.unresolved /\ store[s].newest.bound =>
                           outcome.outcome = "INVALID" \/ s \in Resolution!Range(outcome.candidates)
  BY DEF Resolution!PendingIsReported
<1> DEFINE named == Resolution!Range(candidates)
           pending == {s \in named : Resolution!Matches(store[s])}
<1>1. /\ candidates \in Seq(Stores) /\ Len(candidates) \in Nat /\ next \in 1..(Len(candidates) + 1)
      /\ named \subseteq Stores
  BY NamedStores DEF ResolutionInv, Resolution!Range
<1>2. CASE next <= Len(candidates) /\ store[candidates[next]].fault # "none"
           /\ outcome = Resolution!Outcome("INVALID", <<candidates[next]>>)
  <2>1. outcome.outcome = "INVALID" /\ outcome.candidates[1] = candidates[next]
    BY <1>2 DEF Resolution!Outcome
  <2>2. candidates[next] \in named
    BY <1>1, <1>2 DEF Resolution!Range
  <2>3. QED
    BY <1>2, <2>1, <2>2 DEF Resolution!AnswersFor
<1>3. CASE /\ next = Len(candidates) + 1
           /\ outcome = CASE Len(matches) = 0 -> Resolution!Outcome("NO_MATCH", <<>>)
                          [] Len(matches) = 1 -> Resolution!Outcome("RESUME", matches)
                          [] OTHER            -> Resolution!Outcome("AMBIGUOUS", matches)
  <2>1. Behind = named
    BY <1>1, <1>3 DEF Behind, Resolution!Range
  <2>2. /\ matches \in Seq(Stores) /\ Len(matches) \in Nat /\ DOMAIN matches = 1..Len(matches)
        /\ Resolution!IsInjective(matches)
        /\ Matching \subseteq named
        /\ \A s \in steady \cap named : /\ store[s].fault = "none"
                                        /\ s \in Matching <=> Resolution!Matches(store[s])
    BY <2>1 DEF ResolutionInv
  <2>3. /\ outcome.outcome = IF Len(matches) = 0 THEN "NO_MATCH"
                             ELSE IF Len(matches) = 1 THEN "RESUME" ELSE "AMBIGUOUS"
        /\ outcome.candidates = IF Len(matches) = 0 THEN <<>> ELSE matches
    BY <1>3, <2>2 DEF Resolution!Outcome
  <2>4. outcome.candidates = matches
    BY <2>2, <2>3
  <2>5. ASSUME steady = Stores PROVE Resolution!AnswersFor(named)
    <3>1. pending = Matching /\ ~\E s \in named : store[s].fault # "none"
      BY <1>1, <2>2, <2>5
    <3>2. outcome.outcome = IF pending = {} THEN "NO_MATCH"
                            ELSE IF \E s \in pending : pending = {s} THEN "RESUME"
                            ELSE "AMBIGUOUS"
      <4>1. CASE Len(matches) = 0
        BY <2>2, <2>3, <3>1, <4>1 DEF Matching, Resolution!Range
      <4>2. CASE Len(matches) = 1
        <5>1. Matching = {matches[1]}
          BY <2>2, <4>2 DEF Matching, Resolution!Range
        <5>2. QED
          BY <2>3, <3>1, <4>2, <5>1
      <4>3. CASE Len(matches) > 1
        <5>1. matches[1] \in Matching /\ matches[2] \in Matching /\ matches[1] # matches[2]
          BY <2>2, <4>3 DEF Matching, Resolution!Range, Resolution!IsInjective
        <5>2. QED
          BY <2>2, <2>3, <3>1, <4>3, <5>1
      <4>4. QED
        BY <2>2, <4>1, <4>2, <4>3
    <3>3. QED
      BY <2>2, <2>4, <3>1, <3>2 DEF Resolution!AnswersFor, Matching
  <2>6. ASSUME NEW s \in steady \cap named, store[s].newest.unresolved, store[s].newest.bound
        PROVE  s \in Resolution!Range(outcome.candidates)
    <3>1. store[s] \in Resolution!Contents
      BY <1>1 DEF ResolutionInv, Resolution!TypeOK
    <3>2. ~store[s].empty
      BY <2>6, <3>1 DEF Resolution!Contents, Resolution!NoCheckpoint
    <3>3. Resolution!Matches(store[s])
      BY <2>6, <3>2 DEF Resolution!Matches
    <3>4. QED
      BY <2>2, <2>4, <3>3 DEF Matching
  <2>7. QED
    BY <2>5, <2>6
<1>4. QED
  BY <1>2, <1>3 DEF ResolutionInv, Concluded
-----------------------------------------------------------------------------
(* The work items. *)

\* Drift in the labels and the title of an item that meets every cardinality is in a
\* dimension that may have several values.
DriftIsOfMany == Items!violations(ids) = {} => \A d \in drift : catalog.cardinality[d] = "many"

\* An accepted catalog has values for every dimension, names no label twice and has no
\* marker twice; a plan that was made is one for the labels that are still there.
ItemsInv ==
  /\ Items!TypeOK
  /\ catalog.values \subseteq Classifications
  /\ catalog.projections \in Seq(RawProjections) /\ catalog.markers \in Seq(RawMarkers)
  /\ DOMAIN catalog.cardinality \subseteq {"type", "size"}
  /\ \A d \in DOMAIN catalog.cardinality : catalog.cardinality[d] \in Items!Cardinalities
  /\ Items!parseClassifications(catalog) /\ Items!parseTitleMarkers(catalog)
  /\ Items!namesFree(catalog.projections)
  /\ at = "planned" => plan = Items!buildLabelProjectionPlan
  /\ at = "classified" => DriftIsOfMany

LEMMA CatalogInputs ==
  ASSUME NEW raw \in RawCatalogs
  PROVE  /\ raw.values \subseteq Classifications
         /\ raw.projections \in Seq(RawProjections) /\ raw.markers \in Seq(RawMarkers)
         /\ DOMAIN raw.cardinality \subseteq {"type", "size"}
         /\ \A d \in DOMAIN raw.cardinality : raw.cardinality[d] \in Items!Cardinalities
<1>1. \A S : \A s \in SeqOf(S, 2) : s \in Seq(S)
  <2> SUFFICES ASSUME NEW S, NEW s \in SeqOf(S, 2) PROVE s \in Seq(S)
    OBVIOUS
  <2>1. PICK m \in 0..2 : s \in [1..m -> S]
    BY DEF SeqOf
  <2>2. QED
    BY <2>1
<1>3. SomeLabels \in Seq(RawProjections)
  BY ComponentsAssumption DEF SomeLabels, RawProjections, Classifications
<1>4. <<>> \in Seq(RawMarkers) /\ <<>> \in Seq(RawProjections)
  OBVIOUS
<1>5. QED
  <2>1. CASE \E ps \in SeqOf(RawProjections, 2) :
               raw = Catalog([type |-> "one", size |-> "many"], Classifications, ps, <<>>)
    BY <1>1, <1>4, <2>1 DEF Catalog, Items!Cardinalities
  <2>2. CASE \E k \in [{"type", "size"} -> {"one", "at_most_one", "many"}],
                vs \in SUBSET Classifications, ms \in SeqOf(RawMarkers, 2) :
               raw = Catalog(k, vs, SomeLabels, ms)
    BY <1>1, <1>3, <2>2 DEF Catalog, Items!Cardinalities
  <2>3. CASE \E k \in [{"type", "size"} -> {"one", "at_most_one", "many"}] \cup {[type |-> "one"]},
                vs \in SUBSET Classifications :
               raw = Catalog(k, vs, <<>>, <<>>)
    BY <1>4, <2>3 DEF Catalog, Items!Cardinalities
  <2>4. QED
    BY <2>1, <2>2, <2>3 DEF RawCatalogs

\* Two projections that occupy one label name are one.
LEMMA OneProjectionPerName ==
  ASSUME ItemsInv
  PROVE  /\ \A p \in Items!Projections : /\ p.name \in LabelNames /\ p.classification \in Classifications
                                         /\ p.aliases \subseteq LabelNames
         /\ \A p, q \in Items!Projections, n \in LabelNames :
              n \in Items!occupied(p) /\ n \in Items!occupied(q) => p = q
<1> DEFINE ps == catalog.projections
<1>1. /\ ps \in Seq(RawProjections) /\ DOMAIN ps = 1..Len(ps) /\ Len(ps) \in Nat
      /\ Items!Projections = {ps[i] : i \in 1..Len(ps)}
      /\ \A i \in 1..Len(ps) : ps[i] \in RawProjections
  BY DEF ItemsInv, Items!Projections, Items!Range
<1>2. \A i, j \in 1..Len(ps) : i < j => Items!occupied(ps[i]) \cap Items!occupied(ps[j]) = {}
  <2>1. Items!namesFree(ps)
    BY DEF ItemsInv
  <2> HIDE DEF ps
  <2> SUFFICES ASSUME NEW i \in 1..Len(ps), NEW j \in 1..Len(ps), i < j
               PROVE  Items!occupied(ps[i]) \cap Items!occupied(ps[j]) = {}
    OBVIOUS
  <2>2. i \in 1..j - 1
    BY <1>1
  <2>3. QED
    BY <2>1, <2>2, Zenon DEF Items!namesFree
<1> HIDE DEF ps
<1>3. ASSUME NEW p \in Items!Projections, NEW q \in Items!Projections, NEW n \in LabelNames,
             n \in Items!occupied(p), n \in Items!occupied(q)
      PROVE  p = q
  <2>1. PICK i \in 1..Len(ps) : p = ps[i]
    BY <1>1
  <2>2. PICK j \in 1..Len(ps) : q = ps[j]
    BY <1>1
  <2>3. ~(i < j) /\ ~(j < i)
    BY <1>2, <1>3, <2>1, <2>2
  <2>4. i = j
    BY <1>1, <2>3
  <2>5. QED
    BY <2>1, <2>2, <2>4
<1>4. \A p \in Items!Projections : /\ p.name \in LabelNames /\ p.classification \in Classifications
                                   /\ p.aliases \subseteq LabelNames
  BY <1>1 DEF RawProjections
<1>5. QED
  BY <1>3, <1>4

LEMMA ItemsStart == Items!Init => ItemsInv
<1> SUFFICES ASSUME Items!Init PROVE ItemsInv
  OBVIOUS
<1>1. catalog = Items!Empty /\ at = "start" /\ inventory = {} /\ plan = {} /\ ids = <<>>
      /\ drift = {}
  BY DEF Items!Init
<1>2. /\ catalog.values = {} /\ catalog.projections = <<>> /\ catalog.markers = <<>>
  BY <1>1 DEF Items!Empty
<1>3. Items!Projections = {} /\ Items!Markers = {}
  BY <1>2 DEF Items!Projections, Items!Markers, Items!Range
<1>4. <<>> \in Items!SeqOf(Classifications, MaxIds)
  <2>1. ASSUME NEW s, s = <<>> PROVE s \in [1..0 -> Classifications] /\ 0 \in 0..MaxIds
    BY <2>1, BoundsAreNumbers
  <2>2. QED
    BY <2>1 DEF Items!SeqOf
<1>5. Items!TypeOK
  BY <1>1, <1>2, <1>3, <1>4 DEF Items!TypeOK, Items!Places
<1>6. Items!namesFree(catalog.projections)
  BY <1>2 DEF Items!namesFree
<1>7. catalog.cardinality = <<>> /\ DOMAIN catalog.cardinality = {}
  BY <1>1 DEF Items!Empty
<1>8. Items!parseClassifications(catalog) /\ Items!parseTitleMarkers(catalog)
  BY <1>2, <1>7 DEF Items!parseClassifications, Items!parseTitleMarkers
<1>9. QED
  BY <1>1, <1>2, <1>5, <1>6, <1>7, <1>8 DEF ItemsInv

LEMMA LoadKeepsItems ==
  ASSUME ItemsInv, Items!Load
  PROVE  ItemsInv'
<1>1. UNCHANGED <<inventory, plan, ids, drift>> /\ at' \in {"loaded", "rejected"}
  BY DEF Items!Load
<1>2. CASE catalog' = catalog
  BY <1>1, <1>2 DEF ItemsInv, Items!TypeOK, Items!Places, Items!Projections, Items!Markers
<1>3. CASE \E raw \in RawCatalogs :
             /\ Items!parseClassifications(raw) /\ Items!parseProjections(raw)
             /\ Items!parseTitleMarkers(raw) /\ catalog' = raw
  <2>1. PICK raw \in RawCatalogs :
             /\ Items!parseClassifications(raw) /\ Items!parseProjections(raw)
             /\ Items!parseTitleMarkers(raw) /\ catalog' = raw
    BY <1>3
  <2>2. /\ raw.values \subseteq Classifications
        /\ raw.projections \in Seq(RawProjections) /\ raw.markers \in Seq(RawMarkers)
        /\ DOMAIN raw.cardinality \subseteq {"type", "size"}
        /\ \A d \in DOMAIN raw.cardinality : raw.cardinality[d] \in Items!Cardinalities
    BY CatalogInputs
  <2>3. Items!namesFree(raw.projections)
        /\ \A i \in 1..Len(raw.projections) : raw.projections[i].classification \in raw.values
    BY <2>1 DEF Items!parseProjections
  <2>4. \A i \in 1..Len(raw.markers) : raw.markers[i].classification \in raw.values
    BY <2>1 DEF Items!parseTitleMarkers
  <2>5. /\ \A p \in Items!Projections' : p.classification \in catalog'.values
        /\ \A m \in Items!Markers' : m.classification \in catalog'.values
    BY <2>1, <2>2, <2>3, <2>4 DEF Items!Projections, Items!Markers, Items!Range
  <2>6. Items!TypeOK'
    BY <1>1, <2>1, <2>2, <2>5 DEF ItemsInv, Items!TypeOK, Items!Places
  <2>7. QED
    BY <1>1, <2>1, <2>2, <2>3, <2>6 DEF ItemsInv
<1>4. QED
  BY <1>2, <1>3 DEF Items!Load

LEMMA ReadInventoryKeepsItems ==
  ASSUME ItemsInv, Items!ReadInventory
  PROVE  ItemsInv'
<1>1. PICK ns \in SUBSET LabelNames :
        \E l \in [ns -> [look : Items!Looks, managed : BOOLEAN]] :
          inventory' = {[name |-> n, look |-> l[n].look, managed |-> l[n].managed] : n \in ns}
  BY DEF Items!ReadInventory
<1>2. PICK l \in [ns -> [look : Items!Looks, managed : BOOLEAN]] :
        inventory' = {[name |-> n, look |-> l[n].look, managed |-> l[n].managed] : n \in ns}
  BY <1>1
<1>3. at' = "inventoried" /\ UNCHANGED <<catalog, plan, ids, drift>>
  BY DEF Items!ReadInventory
<1>4. inventory' \subseteq Items!Labels /\ \A a, b \in inventory' : a.name = b.name => a = b
  BY <1>2 DEF Items!Labels
<1>5. Items!TypeOK'
  BY <1>3, <1>4 DEF ItemsInv, Items!TypeOK, Items!Places, Items!Projections, Items!Markers
<1>6. QED
  BY <1>3, <1>5 DEF ItemsInv

LEMMA PlanKeepsItems ==
  ASSUME ItemsInv, Items!Plan
  PROVE  ItemsInv'
<1>1. plan' = Items!buildLabelProjectionPlan /\ at' = "planned"
      /\ UNCHANGED <<catalog, inventory, ids, drift>>
  BY DEF Items!Plan
<1>2. /\ \A p \in Items!Projections : p.name \in LabelNames /\ p.classification \in Classifications
      /\ \A l \in inventory : l.name \in LabelNames
  BY OneProjectionPerName DEF ItemsInv, Items!TypeOK, Items!Labels
<1>3. \A x : Items!projectionAction(x) \in Items!Actions
  BY DEF Items!projectionAction, Items!Actions
<1> DEFINE Entries == [action : Items!Actions, classification : Classifications \cup {Items!None},
                       name : LabelNames]
<1>4. Items!projectionEntries \subseteq Entries
  <2>1. ASSUME NEW p \in Items!Projections, NEW x
        PROVE  Items!entry(Items!projectionAction(x), p.classification, p.name) \in Entries
    BY <1>2, <1>3 DEF Items!entry
  <2>2. QED
    BY <2>1 DEF Items!projectionEntries
<1>5. Items!restEntries \subseteq Entries
  <2>1. ASSUME NEW l \in Items!rest, NEW e,
               e \in IF Items!aliased(l) = {} THEN {Items!entry("UNMANAGED", Items!None, l.name)}
                     ELSE {Items!entry("CANDIDATE", p.classification, l.name) :
                             p \in Items!aliased(l)}
        PROVE  e \in Entries
    <3>1. l.name \in LabelNames
      BY <1>2 DEF Items!rest
    <3>2. \A p \in Items!aliased(l) : p.classification \in Classifications
      BY <1>2 DEF Items!aliased
    <3>3. QED
      BY <2>1, <3>1, <3>2 DEF Items!entry, Items!Actions
  <2>2. QED
    BY <2>1 DEF Items!restEntries
<1>6. plan' \subseteq Entries
  BY <1>1, <1>4, <1>5 DEF Items!buildLabelProjectionPlan
<1>7. Items!TypeOK'
  BY <1>1, <1>6 DEF ItemsInv, Items!TypeOK, Items!Places, Items!Projections, Items!Markers
<1>8. Items!buildLabelProjectionPlan' = Items!buildLabelProjectionPlan
  BY <1>1 DEF Items!buildLabelProjectionPlan, Items!projectionEntries, Items!restEntries,
              Items!rest, Items!consumed, Items!aliased, Items!Projections
<1>9. QED
  BY <1>1, <1>7, <1>8 DEF ItemsInv

\* The labels whose names are created or updated.
MadeNames == LET planned(a) == {e.name : e \in {f \in plan : f.action = a}}
             IN  (planned("CREATE") \ {l.name : l \in inventory}) \cup planned("UPDATE")

LEMMA ApplyMakes ==
  ASSUME Items!Apply
  PROVE  /\ inventory' = {l \in inventory : l.name \notin MadeNames}
                           \cup {[name |-> n, look |-> "canonical", managed |-> TRUE] : n \in MadeNames}
         /\ at = "planned" /\ at' = "applied" /\ UNCHANGED <<catalog, plan, ids, drift>>
  BY DEF Items!Apply, MadeNames

LEMMA ApplyKeepsItems ==
  ASSUME ItemsInv, Items!Apply
  PROVE  ItemsInv'
<1>1. MadeNames \subseteq LabelNames
  BY DEF ItemsInv, Items!TypeOK, MadeNames
<1>2. inventory' \subseteq Items!Labels /\ \A a, b \in inventory' : a.name = b.name => a = b
  <2>1. inventory \subseteq Items!Labels /\ \A a, b \in inventory : a.name = b.name => a = b
    BY DEF ItemsInv, Items!TypeOK
  <2>2. \A n \in MadeNames : [name |-> n, look |-> "canonical", managed |-> TRUE] \in Items!Labels
    BY <1>1 DEF Items!Labels, Items!Looks
  <2>3. ASSUME NEW a \in inventory' PROVE \/ a \in inventory /\ a.name \notin MadeNames
                                          \/ \E n \in MadeNames :
                                               a = [name |-> n, look |-> "canonical", managed |-> TRUE]
    BY ApplyMakes
  <2>4. inventory' \subseteq Items!Labels
    BY <2>1, <2>2, <2>3
  <2>5. ASSUME NEW a \in inventory', NEW b \in inventory', a.name = b.name PROVE a = b
    <3>1. CASE a \in inventory /\ a.name \notin MadeNames
      BY <2>1, <2>3, <2>5, <3>1
    <3>2. CASE \E n \in MadeNames : a = [name |-> n, look |-> "canonical", managed |-> TRUE]
      BY <2>3, <2>5, <3>2
    <3>3. QED
      BY <2>3, <3>1, <3>2
  <2>6. QED
    BY <2>4, <2>5
<1>3. Items!TypeOK'
  BY <1>2, ApplyMakes DEF ItemsInv, Items!TypeOK, Items!Places, Items!Projections, Items!Markers
<1>4. QED
  BY <1>3, ApplyMakes DEF ItemsInv

\* Reading labels and title of an item back gives classifications of the item only.
LEMMA ReadBackIsOfItem ==
  ASSUME ItemsInv, NEW cs,
         NEW read, read = {p.name : p \in {q \in Items!Projections : q.classification \in cs}}
  PROVE  /\ Items!classifyLabels(read) \subseteq cs
         /\ Items!classifyTitleMarkers(Items!deriveTitleMarkers(cs)) \subseteq cs
<1>1. Items!classifyLabels(read) \subseteq cs
  <2>1. ASSUME NEW q \in Items!Projections, Items!occupied(q) \cap read # {}
        PROVE  q.classification \in cs
    <3>1. PICK n : n \in Items!occupied(q) /\ n \in read
      BY <2>1
    <3>2. PICK p \in Items!Projections : p.classification \in cs /\ n = p.name
      BY <3>1
    <3>3. n \in LabelNames /\ n \in Items!occupied(p)
      BY <3>2, OneProjectionPerName DEF Items!occupied
    <3>4. p = q
      BY <3>1, <3>3, OneProjectionPerName
    <3>5. QED
      BY <3>2, <3>4
  <2>2. QED
    BY <2>1 DEF Items!classifyLabels
<1>2. \A m, n \in Items!Markers : m.marker = n.marker => m = n
  <2> DEFINE ms == catalog.markers
  <2>1. ms \in Seq(RawMarkers) /\ Items!Markers = {ms[i] : i \in 1..Len(ms)}
    BY DEF ItemsInv, Items!Markers, Items!Range
  <2>2. \A i, j \in 1..Len(ms) : i < j => ms[i].marker # ms[j].marker
    BY DEF ItemsInv, Items!parseTitleMarkers
  <2> HIDE DEF ms
  <2>3. SUFFICES ASSUME NEW i \in 1..Len(ms), NEW j \in 1..Len(ms), ms[i].marker = ms[j].marker
                 PROVE  i = j
    BY <2>1
  <2>4. QED
    BY <2>1, <2>2, <2>3
<1>3. Items!classifyTitleMarkers(Items!deriveTitleMarkers(cs)) \subseteq cs
  <2>1. ASSUME NEW m \in Items!Markers, m.marker \in Items!deriveTitleMarkers(cs)
        PROVE  m.classification \in cs
    <3>1. PICK n \in Items!Markers : n.classification \in cs /\ n.marker = m.marker
      BY <2>1 DEF Items!deriveTitleMarkers
    <3>2. QED
      BY <1>2, <3>1
  <2>2. QED
    BY <2>1 DEF Items!classifyTitleMarkers
<1>4. QED
  BY <1>1, <1>3

\* An item that meets the cardinality of a dimension without many values has at most one
\* classification of it.
LEMMA SingleIsSingle ==
  ASSUME ItemsInv, NEW s \in Seq(Classifications), Items!violations(s) = {},
         NEW d \in DOMAIN catalog.cardinality, catalog.cardinality[d] # "many",
         NEW x \in Items!collect(d, Items!Range(s)), NEW y \in Items!collect(d, Items!Range(s))
  PROVE  x = y
<1>1. catalog.cardinality[d] \in {"one", "at_most_one"}
  BY DEF ItemsInv, Items!Cardinalities
<1>2. \A i, j \in Items!of(d, s) : i = j
  BY <1>1 DEF Items!violations
<1>3. /\ \E i \in Items!of(d, s) : x = s[i]
      /\ \E i \in Items!of(d, s) : y = s[i]
  BY DEF Items!collect, Items!Range, Items!of
<1>4. QED
  BY <1>2, <1>3

LEMMA ClassifyFindsNoDrift ==
  ASSUME ItemsInv, Items!Classify
  PROVE  DriftIsOfMany'
<1>1. catalog' = catalog /\ ids' \in Items!SeqOf(catalog.values, MaxIds)
  BY DEF Items!Classify
<1> DEFINE cs == Items!Range(ids')
           read == {p.name : p \in {q \in Items!Projections : q.classification \in cs}}
           a == Items!classifyLabels(read)
           b == Items!classifyTitleMarkers(Items!deriveTitleMarkers(cs))
<1>2. drift' = Items!detectProjectionDrift(a, b)
  BY DEF Items!Classify
<1>3. a \subseteq cs /\ b \subseteq cs
  BY ReadBackIsOfItem
<1>4. ids' \in Seq(Classifications)
  <2>1. PICK m \in 0..MaxIds : ids' \in [1..m -> catalog.values]
    BY <1>1 DEF Items!SeqOf
  <2>2. catalog.values \subseteq Classifications /\ m \in Nat
    BY <2>1, BoundsAreNumbers DEF ItemsInv
  <2>3. ids' \in [1..m -> Classifications]
    BY <2>1, <2>2
  <2>4. QED
    BY <2>2, <2>3
<1>5. Items!violations(ids)' = Items!violations(ids')
  BY <1>1 DEF Items!violations, Items!of
<1> HIDE DEF cs, a, b
<1>6. ASSUME Items!violations(ids') = {}, NEW d \in drift', catalog.cardinality[d] # "many"
      PROVE  FALSE
  <2>1. /\ d \in DOMAIN catalog.cardinality
        /\ Items!collect(d, a) # {} /\ Items!collect(d, b) # {}
        /\ Items!collect(d, a) # Items!collect(d, b)
    BY <1>2, <1>6 DEF Items!detectProjectionDrift
  <2>2. Items!collect(d, a) \subseteq Items!collect(d, cs)
        /\ Items!collect(d, b) \subseteq Items!collect(d, cs)
    BY <1>3 DEF Items!collect
  <2>3. \A x, y \in Items!collect(d, cs) : x = y
    BY <1>4, <1>6, <2>1, SingleIsSingle DEF cs
  <2>4. QED
    BY <2>1, <2>2, <2>3
<1>7. QED
  BY <1>1, <1>5, <1>6 DEF DriftIsOfMany

LEMMA ClassifyKeepsItems ==
  ASSUME ItemsInv, Items!Classify
  PROVE  ItemsInv'
<1>1. at' = "classified" /\ UNCHANGED <<catalog, inventory, plan>>
  BY DEF Items!Classify
<1>2. ids' \in Items!SeqOf(Classifications, MaxIds)
  <2>1. ids' \in Items!SeqOf(catalog.values, MaxIds) /\ catalog.values \subseteq Classifications
    BY DEF Items!Classify, ItemsInv
  <2>2. PICK m \in 0..MaxIds : ids' \in [1..m -> catalog.values]
    BY <2>1 DEF Items!SeqOf
  <2>3. ids' \in [1..m -> Classifications]
    BY <2>1, <2>2
  <2>4. QED
    BY <2>3 DEF Items!SeqOf
<1>3. drift' \subseteq {Items!dimension(c) : c \in Classifications}
  <2>1. PICK labels, title : drift' = Items!detectProjectionDrift(Items!classifyLabels(labels), title)
    BY DEF Items!Classify
  <2>2. Items!classifyLabels(labels) \subseteq Classifications
    BY OneProjectionPerName DEF Items!classifyLabels
  <2>3. ASSUME NEW d \in drift' PROVE d \in {Items!dimension(c) : c \in Classifications}
    <3>1. Items!collect(d, Items!classifyLabels(labels)) # {}
      BY <2>1, <2>3 DEF Items!detectProjectionDrift
    <3>2. QED
      BY <2>2, <3>1 DEF Items!collect
  <2>4. QED
    BY <2>3
<1>4. Items!TypeOK'
  BY <1>1, <1>2, <1>3 DEF ItemsInv, Items!TypeOK, Items!Places, Items!Projections, Items!Markers
<1>5. QED
  BY <1>1, <1>4, ClassifyFindsNoDrift DEF ItemsInv

LEMMA ItemsKeep == ItemsInv /\ [Items!Next]_itemsVars => ItemsInv'
<1> SUFFICES ASSUME ItemsInv, UNCHANGED itemsVars PROVE ItemsInv'
  BY LoadKeepsItems, ReadInventoryKeepsItems, PlanKeepsItems, ApplyKeepsItems,
     ClassifyKeepsItems DEF Items!Next
<1>1. UNCHANGED <<at, catalog, inventory, plan, ids, drift>>
  BY DEF itemsVars
<1>2. Items!TypeOK'
  BY <1>1 DEF ItemsInv, Items!TypeOK, Items!Projections, Items!Markers
<1>3. Items!buildLabelProjectionPlan' = Items!buildLabelProjectionPlan
  BY <1>1 DEF Items!buildLabelProjectionPlan, Items!projectionEntries, Items!restEntries,
              Items!rest, Items!consumed, Items!aliased, Items!Projections
<1>4. DriftIsOfMany' <=> DriftIsOfMany
  BY <1>1 DEF DriftIsOfMany, Items!violations, Items!of
<1>5. QED
  BY <1>1, <1>2, <1>3, <1>4 DEF ItemsInv

\* A choice of one classification for each dimension meets every cardinality.
LEMMA SomeItemFits ==
  ASSUME ItemsInv
  PROVE  \E s \in Items!SeqOf(catalog.values, MaxIds) : Items!violations(s) = {}
<1> DEFINE D == DOMAIN catalog.cardinality
           Fits1(s) == \A d \in D : \E i \in Items!of(d, s) : Items!of(d, s) = {i}
<1>1. D \subseteq {"type", "size"} /\ D = {Items!dimension(c) : c \in catalog.values}
  BY DEF ItemsInv, Items!parseClassifications
<1>2. ASSUME NEW n \in 0..2, NEW s \in [1..n -> catalog.values], Fits1(s)
      PROVE  \E t \in Items!SeqOf(catalog.values, MaxIds) : Items!violations(t) = {}
  <2>1. n \in 0..MaxIds
    BY ComponentsAssumption
  <2>2. s \in Items!SeqOf(catalog.values, MaxIds)
    BY <2>1 DEF Items!SeqOf
  <2>3. Items!violations(s) = {}
    BY <1>2 DEF Items!violations
  <2>4. QED
    BY <2>2, <2>3
<1>3. CASE D = {}
  <2>1. ASSUME NEW s, s = [i \in 1..0 |-> 0] PROVE s \in [1..0 -> catalog.values] /\ Fits1(s)
    BY <1>3, <2>1
  <2>2. QED
    BY <1>2, <2>1
<1>4. CASE \E d : D = {d}
  <2>1. PICK d : D = {d}
    BY <1>4
  <2>2. PICK c \in catalog.values : Items!dimension(c) = d
    BY <1>1, <2>1
  <2>3. ASSUME NEW s, s = [i \in 1..1 |-> c] PROVE s \in [1..1 -> catalog.values] /\ Fits1(s)
    <3>1. s \in [1..1 -> catalog.values] /\ Len(s) = 1 /\ s[1] = c
      BY <2>2, <2>3
    <3>2. Items!of(d, s) = {1}
      BY <2>2, <3>1 DEF Items!of
    <3>3. QED
      BY <2>1, <3>1, <3>2
  <2>4. \E s : s \in [1..1 -> catalog.values] /\ Fits1(s)
    BY <2>3
  <2> HIDE DEF Fits1
  <2>5. QED
    BY <1>2, <2>4, 1 \in 0..2
<1>5. CASE D = {"type", "size"}
  <2>1. PICK c \in catalog.values : Items!dimension(c) = "type"
    BY <1>1, <1>5
  <2>2. PICK k \in catalog.values : Items!dimension(k) = "size"
    BY <1>1, <1>5
  <2>3. ASSUME NEW s, s = [i \in 1..2 |-> IF i = 1 THEN c ELSE k]
        PROVE  s \in [1..2 -> catalog.values] /\ Fits1(s)
    <3>1. s \in [1..2 -> catalog.values] /\ Len(s) = 2 /\ s[1] = c /\ s[2] = k
      BY <2>3
    <3>2. Items!of("type", s) = {1} /\ Items!of("size", s) = {2}
      BY <2>1, <2>2, <3>1 DEF Items!of
    <3>3. QED
      BY <1>5, <3>1, <3>2
  <2>4. \E s : s \in [1..2 -> catalog.values] /\ Fits1(s)
    BY <2>3
  <2> HIDE DEF Fits1
  <2>5. QED
    BY <1>2, <2>4, 2 \in 0..2
<1>6. D = {} \/ (\E d : D = {d}) \/ D = {"type", "size"}
  <2>1. ASSUME NEW S \in SUBSET {"type", "size"}
        PROVE  S \in {{}, {"type"}, {"size"}, {"type", "size"}}
    OBVIOUS
  <2>2. D \in {{}, {"type"}, {"size"}, {"type", "size"}}
    BY <1>1, <2>1
  <2> HIDE DEF D
  <2>3. QED
    BY <2>2
<1>7. QED
  BY <1>3, <1>4, <1>5, <1>6

LEMMA CatalogsAreSound == ItemsInv => Items!CatalogIsSound
  BY SomeItemFits DEF ItemsInv, DriftIsOfMany, Items!CatalogIsSound

LEMMA PlanIsComplete ==
  ASSUME ItemsInv, Items!Plan
  PROVE  Items!Complete'
<1> DEFINE A(p) == Items!projectionAction({l \in inventory : l.name = p.name})
<1>1. plan' = Items!projectionEntries \cup Items!restEntries /\ UNCHANGED <<catalog, inventory>>
      /\ Items!Projections' = Items!Projections
  BY DEF Items!Plan, Items!buildLabelProjectionPlan, Items!Projections
<1>2. /\ \A p, q \in Items!Projections : p.name = q.name => p = q
      /\ \A p, q \in Items!Projections, n \in LabelNames : n \in p.aliases /\ n \in q.aliases => p = q
      /\ \A p \in Items!Projections : p.name \in LabelNames
  BY OneProjectionPerName DEF Items!occupied
<1>3. /\ \A l \in inventory : l.name \in LabelNames
      /\ \A l, m \in inventory : l.name = m.name => l = m
  BY DEF ItemsInv, Items!TypeOK, Items!Labels
<1>4. /\ \A p \in Items!Projections : Items!entry(A(p), p.classification, p.name) \in plan'
      /\ \A e \in Items!projectionEntries : \E p \in Items!Projections :
           e = Items!entry(A(p), p.classification, p.name)
  BY <1>1 DEF Items!projectionEntries
<1>5. \A e \in Items!restEntries : \E l \in Items!rest :
        \/ Items!aliased(l) = {} /\ e = Items!entry("UNMANAGED", Items!None, l.name)
        \/ \E p \in Items!aliased(l) : e = Items!entry("CANDIDATE", p.classification, l.name)
  BY DEF Items!restEntries
<1>6. ASSUME NEW l \in Items!rest
      PROVE  \E e \in Items!restEntries : e.name = l.name
  <2>1. CASE Items!aliased(l) = {}
    <3>1. Items!entry("UNMANAGED", Items!None, l.name) \in Items!restEntries
      BY <1>6, <2>1 DEF Items!restEntries
    <3>2. QED
      BY <3>1 DEF Items!entry
  <2>2. CASE Items!aliased(l) # {}
    <3>1. PICK p \in Items!aliased(l) : TRUE
      BY <2>2
    <3>2. Items!entry("CANDIDATE", p.classification, l.name) \in Items!restEntries
      BY <1>6, <2>2, <3>1 DEF Items!restEntries
    <3>3. QED
      BY <3>2 DEF Items!entry
  <2>3. QED
    BY <2>1, <2>2
<1>7. /\ \A l \in Items!rest : l \in inventory /\ \A p \in Items!Projections : l.name # p.name
      /\ \A l \in inventory : l \in Items!rest \/ \E p \in Items!Projections : l.name = p.name
  BY DEF Items!rest, Items!consumed
<1> HIDE DEF A
<1>8. \A p \in Items!Projections : \E e \in plan' : /\ e.classification = p.classification
                                                    /\ e.name = p.name
  BY <1>4 DEF Items!entry
<1>9. {e.name : e \in plan'} = {l.name : l \in inventory} \cup {p.name : p \in Items!Projections}
  <2>1. ASSUME NEW e \in plan'
        PROVE  e.name \in {l.name : l \in inventory} \cup {p.name : p \in Items!Projections}
    BY <1>1, <1>4, <1>5, <1>7 DEF Items!entry
  <2>2. ASSUME NEW l \in inventory PROVE \E e \in plan' : e.name = l.name
    BY <1>1, <1>6, <1>7, <1>8
  <2>3. QED
    BY <1>8, <2>1, <2>2
<1>10. ASSUME NEW e \in plan', NEW f \in plan', e.name = f.name PROVE e = f
  <2>1. CASE e \in Items!projectionEntries /\ f \in Items!projectionEntries
    <3>1. PICK p \in Items!Projections : e = Items!entry(A(p), p.classification, p.name)
      BY <1>4, <2>1
    <3>2. PICK q \in Items!Projections : f = Items!entry(A(q), q.classification, q.name)
      BY <1>4, <2>1
    <3>3. p = q
      BY <1>2, <1>10, <3>1, <3>2 DEF Items!entry
    <3>4. QED
      BY <3>1, <3>2, <3>3
  <2>2. CASE e \in Items!projectionEntries /\ f \in Items!restEntries
    <3>1. \E p \in Items!Projections : e.name = p.name
      BY <1>4, <2>2 DEF Items!entry
    <3>2. \E l \in Items!rest : f.name = l.name
      BY <1>5, <2>2 DEF Items!entry
    <3>3. QED
      BY <1>7, <1>10, <3>1, <3>2
  <2>3. CASE e \in Items!restEntries /\ f \in Items!projectionEntries
    <3>1. \E p \in Items!Projections : f.name = p.name
      BY <1>4, <2>3 DEF Items!entry
    <3>2. \E l \in Items!rest : e.name = l.name
      BY <1>5, <2>3 DEF Items!entry
    <3>3. QED
      BY <1>7, <1>10, <3>1, <3>2
  <2>4. CASE e \in Items!restEntries /\ f \in Items!restEntries
    <3>1. PICK l \in Items!rest :
            \/ Items!aliased(l) = {} /\ e = Items!entry("UNMANAGED", Items!None, l.name)
            \/ \E p \in Items!aliased(l) : e = Items!entry("CANDIDATE", p.classification, l.name)
      BY <1>5, <2>4
    <3>2. PICK m \in Items!rest :
            \/ Items!aliased(m) = {} /\ f = Items!entry("UNMANAGED", Items!None, m.name)
            \/ \E p \in Items!aliased(m) : f = Items!entry("CANDIDATE", p.classification, m.name)
      BY <1>5, <2>4
    <3>3. e.name = l.name /\ f.name = m.name
      BY <3>1, <3>2 DEF Items!entry
    <3>4. l = m
      BY <1>3, <1>7, <1>10, <3>3
    <3>5. \A p, q \in Items!aliased(l) : p = q
      BY <1>2, <1>3, <1>7 DEF Items!aliased
    <3>6. QED
      BY <3>1, <3>2, <3>4, <3>5
  <2>5. QED
    BY <1>1, <2>1, <2>2, <2>3, <2>4
<1>11. QED
  BY <1>1, <1>8, <1>9, <1>10 DEF Items!Complete

\* A label of another owner is not updated.
LEMMA ForeignIsNotUpdated ==
  ASSUME NEW existing, \E m \in existing : ~m.managed
  PROVE  Items!projectionAction(existing) \in {"CREATE", "CONFLICT"}
  BY DEF Items!projectionAction

\* Carrying out a plan for the labels that are there leaves the labels of others alone, and
\* creates or looks after every label of a projection.
LEMMA ApplyReconciles ==
  ASSUME ItemsInv, Items!Apply
  PROVE  /\ {l \in inventory : ~l.managed} = {l \in inventory' : ~l.managed}
         /\ \A e \in Items!buildLabelProjectionPlan' : e.action \notin {"CREATE", "UPDATE"}
<1> DEFINE E(n) == {l \in inventory : l.name = n}
           New(n) == [name |-> n, look |-> "canonical", managed |-> TRUE]
<1>1. /\ plan = Items!projectionEntries \cup Items!restEntries
      /\ inventory' = {l \in inventory : l.name \notin MadeNames} \cup {New(n) : n \in MadeNames}
      /\ Items!Projections' = Items!Projections
  BY ApplyMakes DEF ItemsInv, Items!buildLabelProjectionPlan, Items!Projections
<1>2. \A e \in Items!restEntries : e.action \notin {"CREATE", "UPDATE"}
  BY DEF Items!restEntries, Items!entry
<1>3. \A e \in Items!projectionEntries : \E p \in Items!Projections :
        e.name = p.name /\ e.action = Items!projectionAction(E(p.name))
  BY DEF Items!projectionEntries, Items!entry
<1>4. \A p \in Items!Projections : \E e \in plan :
        e.name = p.name /\ e.action = Items!projectionAction(E(p.name))
  <2>1. ASSUME NEW p \in Items!Projections
        PROVE  Items!entry(Items!projectionAction(E(p.name)), p.classification, p.name) \in plan
    BY <1>1 DEF Items!projectionEntries
  <2>2. QED
    BY <2>1 DEF Items!entry
<1>5. \A n \in MadeNames : \/ E(n) = {}
                           \/ \E p \in Items!Projections :
                                n = p.name /\ Items!projectionAction(E(n)) = "UPDATE"
  <2>1. ASSUME NEW n \in MadeNames
        PROVE  \/ n \notin {l.name : l \in inventory}
               \/ \E e \in plan : e.action = "UPDATE" /\ e.name = n
    BY DEF MadeNames
  <2>2. ASSUME NEW n, NEW e \in plan, e.action = "UPDATE", e.name = n
        PROVE  \E p \in Items!Projections :
                 n = p.name /\ Items!projectionAction(E(n)) = "UPDATE"
    <3>1. e \in Items!projectionEntries
      BY <1>1, <1>2, <2>2
    <3>2. PICK p \in Items!Projections :
            e.name = p.name /\ e.action = Items!projectionAction(E(p.name))
      BY <1>3, <3>1
    <3>3. QED
      BY <2>2, <3>2
  <2>3. ASSUME NEW n, n \notin {l.name : l \in inventory} PROVE E(n) = {}
    BY <2>3
  <2> HIDE DEF E
  <2>4. QED
    BY <2>1, <2>2, <2>3
<1>6. \A p \in Items!Projections :
        Items!projectionAction(E(p.name)) \in {"CREATE", "UPDATE"} => p.name \in MadeNames
  <2>1. ASSUME NEW p \in Items!Projections, Items!projectionAction(E(p.name)) = "CREATE"
        PROVE  p.name \in MadeNames
    <3>1. E(p.name) = {}
      BY <2>1 DEF Items!projectionAction
    <3>2. \E e \in plan : e.action = "CREATE" /\ e.name = p.name
      BY <1>4, <2>1
    <3>3. QED
      BY <3>1, <3>2 DEF MadeNames
  <2>2. ASSUME NEW p \in Items!Projections, Items!projectionAction(E(p.name)) = "UPDATE"
        PROVE  p.name \in MadeNames
    <3>1. \E e \in plan : e.action = "UPDATE" /\ e.name = p.name
      BY <1>4, <2>2
    <3>2. QED
      BY <3>1 DEF MadeNames
  <2>3. QED
    BY <2>1, <2>2
<1>7. \A l \in inventory : l.managed \in BOOLEAN
  BY DEF ItemsInv, Items!TypeOK, Items!Labels
<1>8. \A l \in inventory : l.name \in MadeNames => l.managed = TRUE
  <2>1. ASSUME NEW l \in inventory, l.name \in MadeNames PROVE l.managed = TRUE
    <3>1. l \in E(l.name)
      OBVIOUS
    <3>2. Items!projectionAction(E(l.name)) = "UPDATE"
      BY <1>5, <2>1, <3>1
    <3>3. ~\E m \in E(l.name) : ~m.managed
      <4> HIDE DEF E
      <4>1. ASSUME \E m \in E(l.name) : ~m.managed
            PROVE  Items!projectionAction(E(l.name)) \in {"CREATE", "CONFLICT"}
        BY <4>1, ForeignIsNotUpdated
      <4>2. QED
        BY <3>2, <4>1
    <3>4. QED
      BY <1>7, <3>1, <3>3, Zenon
  <2>2. QED
    BY <2>1
<1>9. {l \in inventory : ~l.managed} = {l \in inventory' : ~l.managed}
  <2>1. ASSUME NEW l \in inventory, ~l.managed PROVE l \in inventory'
    BY <1>1, <1>7, <1>8, <2>1
  <2>2. ASSUME NEW l \in inventory', ~l.managed PROVE l \in inventory
    BY <1>1, <2>2
  <2>3. QED
    BY <2>1, <2>2
<1>10. ASSUME NEW p \in Items!Projections,
              NEW after2, after2 = {l \in inventory' : l.name = p.name}
       PROVE  Items!projectionAction(after2) \notin {"CREATE", "UPDATE"}
  <2>1. \A l \in after2 : l = New(p.name) \/ (l \in E(p.name) /\ p.name \notin MadeNames)
    BY <1>1, <1>10
  <2>2. p.name \in MadeNames => New(p.name) \in after2
    BY <1>1, <1>10
  <2>3. p.name \notin MadeNames => after2 = E(p.name)
    <3>1. p.name \notin MadeNames => \A l : l \in after2 <=> l \in E(p.name)
      BY <1>1, <1>10
    <3>2. QED
      BY <3>1
  <2>4. CASE p.name \in MadeNames
    <3>1. after2 # {} /\ \A l \in after2 : l.managed = TRUE /\ l.look = "canonical"
      BY <2>1, <2>2, <2>4
    <3>2. QED
      BY <3>1 DEF Items!projectionAction
  <2>5. CASE p.name \notin MadeNames
    BY <1>6, <2>3, <2>5
  <2>6. QED
    BY <2>4, <2>5
<1>11. \A e \in Items!projectionEntries' : e.action \notin {"CREATE", "UPDATE"}
  <2>1. ASSUME NEW e \in Items!projectionEntries'
        PROVE  \E p \in Items!Projections :
                 e.action = Items!projectionAction({l \in inventory' : l.name = p.name})
    BY <1>1, <2>1 DEF Items!projectionEntries, Items!entry
  <2>2. QED
    BY <1>10, <2>1
<1>12. \A e \in Items!restEntries' : e.action \notin {"CREATE", "UPDATE"}
  BY DEF Items!restEntries, Items!entry
<1>13. QED
  BY <1>9, <1>11, <1>12 DEF Items!buildLabelProjectionPlan

-----------------------------------------------------------------------------
(* The native helper.  NativeProofs names its definitions anew; those that *)
(* the properties consist of are the same ones.                            *)

LEMMA SameNativeInit == Native!Init => NativeProofs!Init
  BY DEF Native!Init, NativeProofs!Init, Native!Names, NativeProofs!Names, Native!Shared,
         NativeProofs!Shared, Native!Entry, NativeProofs!Entry, Native!Name,
         NativeProofs!Name, Native!Aside, NativeProofs!Aside, Native!Stage,
         NativeProofs!Stage, Native!Release, NativeProofs!Release, Native!Temporaries,
         NativeProofs!Temporaries, Native!Source, NativeProofs!Source, Native!Destination,
         NativeProofs!Destination, Native!Ids, NativeProofs!Ids, Native!Directory,
         NativeProofs!Directory, Native!File, NativeProofs!File, Native!Idle,
         NativeProofs!Idle, Native!None, NativeProofs!None

LEMMA SameNativeNext == Native!Next => NativeProofs!Next
  BY DEF Native!Next, NativeProofs!Next, Native!Operations, NativeProofs!Operations,
         Native!Writers, NativeProofs!Writers, Native!Begin, NativeProofs!Begin, Native!At,
         NativeProofs!At, Native!Working, NativeProofs!Working, Native!Ended,
         NativeProofs!Ended, Native!Go, NativeProofs!Go, Native!Become, NativeProofs!Become,
         Native!Idle, NativeProofs!Idle, Native!Entry, NativeProofs!Entry, Native!Name,
         NativeProofs!Name, Native!None, NativeProofs!None, Native!Source,
         NativeProofs!Source, Native!Release, NativeProofs!Release, Native!Stage,
         NativeProofs!Stage, Native!Version, NativeProofs!Version, Native!Read,
         NativeProofs!Read, Native!IsA, NativeProofs!IsA, Native!To, NativeProofs!To,
         Native!Passed, NativeProofs!Passed, Native!Throw, NativeProofs!Throw,
         Native!Thrown, NativeProofs!Thrown, Native!Destination, NativeProofs!Destination,
         Native!Look, NativeProofs!Look, Native!Open, NativeProofs!Open, Native!Identified,
         NativeProofs!Identified, Native!Start, NativeProofs!Start, Native!Make,
         NativeProofs!Make, Native!Here, NativeProofs!Here, Native!MakeName,
         NativeProofs!MakeName, Native!Rewrite, NativeProofs!Rewrite, Native!File,
         NativeProofs!File, Native!Write, NativeProofs!Write, Native!Put, NativeProofs!Put,
         Native!Names, NativeProofs!Names, Native!Shared, NativeProofs!Shared, Native!Aside,
         NativeProofs!Aside, Native!Temporaries, NativeProofs!Temporaries, Native!Unguarded,
         NativeProofs!Unguarded, Native!Sync, NativeProofs!Sync, Native!Close,
         NativeProofs!Close, Native!Done, NativeProofs!Done, Native!Readback,
         NativeProofs!Readback, Native!Refresh, NativeProofs!Refresh, Native!Withdraw,
         NativeProofs!Withdraw, Native!Seen, NativeProofs!Seen, Native!UnlinkMade,
         NativeProofs!UnlinkMade, Native!Take, NativeProofs!Take, Native!Touch,
         NativeProofs!Touch, Native!CompareTemporary, NativeProofs!CompareTemporary,
         Native!Compare, NativeProofs!Compare, Native!SameObject, NativeProofs!SameObject,
         Native!RenameOver, NativeProofs!RenameOver, Native!Unlink, NativeProofs!Unlink,
         Native!Stat, NativeProofs!Stat, Native!Rename, NativeProofs!Rename, Native!Target,
         NativeProofs!Target, Native!MakeDirectory, NativeProofs!MakeDirectory,
         Native!Directory, NativeProofs!Directory, Native!CheckMade, NativeProofs!CheckMade,
         Native!CallFails, NativeProofs!CallFails, Native!AfterFault,
         NativeProofs!AfterFault, Native!Clearing, NativeProofs!Clearing, Native!Die,
         NativeProofs!Die, Native!Others, NativeProofs!Others, Native!OthersPut,
         NativeProofs!OthersPut, Native!OthersWrite, NativeProofs!OthersWrite,
         Native!OthersRemove, NativeProofs!OthersRemove, Native!OthersSwap,
         NativeProofs!OthersSwap

LEMMA SameNativeType == NativeProofs!TypeOK => Native!TypeOK
  BY DEF Native!TypeOK, NativeProofs!TypeOK, Native!Names, NativeProofs!Names,
         Native!Shared, NativeProofs!Shared, Native!Entry, NativeProofs!Entry, Native!Name,
         NativeProofs!Name, Native!Aside, NativeProofs!Aside, Native!Stage,
         NativeProofs!Stage, Native!Release, NativeProofs!Release, Native!Temporaries,
         NativeProofs!Temporaries, Native!Source, NativeProofs!Source, Native!Destination,
         NativeProofs!Destination, Native!Ids, NativeProofs!Ids, Native!Places,
         NativeProofs!Places, Native!Ended, NativeProofs!Ended, Native!Operations,
         NativeProofs!Operations, Native!Writers, NativeProofs!Writers, Native!Phases,
         NativeProofs!Phases, Native!Clearing, NativeProofs!Clearing, Native!Snapshots,
         NativeProofs!Snapshots

LEMMA SameNoResidue == NativeProofs!NoResidue => Native!NoResidue
  BY DEF Native!NoResidue, NativeProofs!NoResidue, Native!Ended, NativeProofs!Ended,
         Native!Writers, NativeProofs!Writers, Native!Names, NativeProofs!Names,
         Native!Shared, NativeProofs!Shared, Native!Entry, NativeProofs!Entry, Native!Name,
         NativeProofs!Name, Native!Aside, NativeProofs!Aside, Native!Stage,
         NativeProofs!Stage, Native!Release, NativeProofs!Release, Native!Temporaries,
         NativeProofs!Temporaries, Native!Source, NativeProofs!Source, Native!Destination,
         NativeProofs!Destination

\* What a step of a call takes away, in the names of MCComponents.
LEMMA NativeTakes ==
  ASSUME NativeProofs!Inv, [Native!Next]_nativeVars
  PROVE  \A c \in Callers : work'[c] # work[c] =>
           /\ names'["foreign"] = names["foreign"]
           /\ \A n \in Native!Taken : LET i == names["bound"][n] IN
                \/ inode[i].by = c
                \/ c \in raced
                \/ Native!Told(c) = IF Native!IsA("directory", i) THEN <<i, 0>>
                                    ELSE Native!Version(i)
                \/ work[c].op = "detach" /\ names'["bound"][Native!Aside] = i
<1>1. [NativeProofs!Next]_NativeProofs!vars
  BY SameNativeNext DEF nativeVars, NativeProofs!vars
<1>2. \A c \in Callers : work'[c] # work[c] =>
         /\ names'["foreign"] = names["foreign"]
         /\ \A n \in NativeProofs!Taken : LET i == names["bound"][n] IN
              \/ inode[i].by = c
              \/ c \in raced
              \/ NativeProofs!Told(c) = IF NativeProofs!IsA("directory", i) THEN <<i, 0>>
                                        ELSE NativeProofs!Version(i)
              \/ work[c].op = "detach" /\ names'["bound"][NativeProofs!Aside] = i
  BY <1>1, CallersAssumption, BoundsAssumption, NativeProofs!StepTakesWhatItWasTold
<1>3. NativeProofs!Taken = Native!Taken
  <2>1. NativeProofs!Names = Native!Names
    BY DEF Native!Names, NativeProofs!Names, Native!Shared, NativeProofs!Shared,
           Native!Entry, NativeProofs!Entry, Native!Name, NativeProofs!Name, Native!Aside,
           NativeProofs!Aside, Native!Stage, NativeProofs!Stage, Native!Release,
           NativeProofs!Release, Native!Temporaries, NativeProofs!Temporaries,
           Native!Source, NativeProofs!Source, Native!Destination,
           NativeProofs!Destination
  <2>2. QED
    BY <2>1 DEF Native!Taken, NativeProofs!Taken
<1>4. NativeProofs!Aside = Native!Aside
  BY DEF Native!Aside, NativeProofs!Aside, Native!Name, NativeProofs!Name
<1>5. \A c : NativeProofs!Told(c) = Native!Told(c)
  BY DEF Native!Told, NativeProofs!Told
<1>6. \A k, i : NativeProofs!IsA(k, i) = Native!IsA(k, i)
  BY DEF Native!IsA, NativeProofs!IsA
<1>7. \A i : NativeProofs!Version(i) = Native!Version(i)
  BY DEF Native!Version, NativeProofs!Version, Native!None, NativeProofs!None
<1>8. QED
  BY <1>2, <1>3, <1>4, <1>5, <1>6, <1>7
-----------------------------------------------------------------------------
(* The components together. *)

Resting == work = [c \in Callers |-> Native!Idle]

PartsInv ==
  /\ part \in Parts
  /\ IInv /\ EntryInv /\ ResolutionInv /\ ItemsInv
  /\ IF part = "native" THEN NativeProofs!Inv ELSE Resting

LEMMA PartsStart == PartsInit => PartsInv
<1> SUFFICES ASSUME PartsInit PROVE PartsInv
  OBVIOUS
<1>1. part \in Parts /\ IInv /\ ItemsInv
  BY InitIInv, ItemsStart DEF PartsInit
<1>2. EntryInv
  <2>1. CASE part = "entry"
    BY <2>1, EntryStarts DEF PartsInit
  <2>2. CASE part # "entry"
    BY <2>2, EntryRests DEF PartsInit
  <2>3. QED
    BY <2>1, <2>2
<1>3. ResolutionInv
  <2>1. CASE part = "resolution"
    BY <2>1, ResolutionStarts DEF PartsInit
  <2>2. CASE part # "resolution"
    BY <2>2, ResolutionRests DEF PartsInit
  <2>3. QED
    BY <2>1, <2>2
<1>4. CASE part = "native"
  <2>1. NativeProofs!Init
    BY <1>4, SameNativeInit DEF PartsInit
  <2>2. NativeProofs!Inv
    BY <2>1, CallersAssumption, BoundsAssumption, NativeProofs!InitInv
  <2>3. QED
    BY <1>1, <1>2, <1>3, <1>4, <2>2 DEF PartsInv
<1>5. CASE part # "native"
  <2>1. Resting
    BY <1>5 DEF PartsInit, Resting
  <2>2. QED
    BY <1>1, <1>2, <1>3, <1>5, <2>1 DEF PartsInv
<1>6. QED
  BY <1>4, <1>5

\* A step of one component is, for every component, a step of its own or none.
LEMMA PartsSteps ==
  ASSUME [PartsNext]_allVars
  PROVE  /\ UNCHANGED part
         /\ [Next]_vars /\ [Entry!Next]_entryVars /\ [Resolution!Next]_resolutionVars
         /\ [Items!Next]_itemsVars /\ [Native!Next]_nativeVars
         /\ part # "native" => UNCHANGED nativeVars
<1>1. CASE UNCHANGED allVars
  BY <1>1 DEF allVars
<1>2. CASE BridgeNext
  BY <1>2 DEF BridgeNext
<1>3. CASE EntryNext
  BY <1>3 DEF EntryNext
<1>4. CASE ResolutionNext
  BY <1>4 DEF ResolutionNext
<1>5. CASE ItemsNext
  BY <1>5 DEF ItemsNext
<1>6. CASE NativeNext
  BY <1>6 DEF NativeNext
<1>7. QED
  BY <1>1, <1>2, <1>3, <1>4, <1>5, <1>6 DEF PartsNext

LEMMA PartsKeep == PartsInv /\ [PartsNext]_allVars => PartsInv'
<1> SUFFICES ASSUME PartsInv, [PartsNext]_allVars PROVE PartsInv'
  OBVIOUS
<1>1. /\ part' = part
      /\ [Next]_vars /\ [Entry!Next]_entryVars /\ [Resolution!Next]_resolutionVars
      /\ [Items!Next]_itemsVars /\ [Native!Next]_nativeVars
      /\ part # "native" => UNCHANGED nativeVars
  BY PartsSteps
<1>2. IInv' /\ EntryInv' /\ ResolutionInv' /\ ItemsInv'
  BY <1>1, NextIInv, EntryKeeps, ResolutionKeeps, ItemsKeep DEF PartsInv
<1>3. CASE part = "native"
  <2>1. [NativeProofs!Next]_NativeProofs!vars
    BY <1>1, SameNativeNext DEF nativeVars, NativeProofs!vars
  <2>2. NativeProofs!Inv'
    BY <1>3, <2>1, CallersAssumption, BoundsAssumption, NativeProofs!NextKeepsInv DEF PartsInv
  <2>3. QED
    BY <1>1, <1>2, <1>3, <2>2 DEF PartsInv
<1>4. CASE part # "native"
  <2>1. Resting'
    BY <1>1, <1>4 DEF PartsInv, Resting, nativeVars
  <2>2. QED
    BY <1>1, <1>2, <1>4, <2>1 DEF PartsInv
<1>5. QED
  BY <1>3, <1>4

LEMMA AlwaysPartsInv == PartsSpec => []PartsInv
  BY PartsStart, PartsKeep, PTL DEF PartsSpec
-----------------------------------------------------------------------------
\* The component that takes steps keeps its variables in their types; its counters stay
\* within their bounds, for any bounds (managed-block.ts 1-128, resume-resolve.ts 20-92,
\* work-items.ts 147-436, agent_governance_fs.c 120-330, provider-bridge.ts 54-259).
THEOREM PartsTypeCorrect == PartsSpec => []PartsTypeOK
<1>1. ASSUME PartsInv PROVE PartsTypeOK
  <2>1. TypeOK /\ Entry!TypeOK /\ Resolution!TypeOK /\ Items!TypeOK
    BY <1>1 DEF PartsInv, IInv, EntryInv, ResolutionInv, ItemsInv
  <2>2. part = "native" => Native!TypeOK
    BY <1>1, SameNativeType DEF PartsInv, NativeProofs!Inv
  <2>3. part \in Parts
    BY <1>1 DEF PartsInv
  <2>4. QED
    BY <2>1, <2>2, <2>3 DEF PartsTypeOK, Parts
<1>2. QED
  BY <1>1, AlwaysPartsInv, PTL

\* Uninstalling gives the entry file back byte for byte, if the user left it alone since
\* the installation: for every text, of any length, and any number of updates, of moves of
\* the root and of edits before (managed-block.ts 97-120).
THEOREM UninstallGivesBack == PartsSpec => []RoundTrip
<1>1. PartsInv => RoundTrip
  BY EntryRoundTrip DEF PartsInv, RoundTrip
<1>2. QED
  BY <1>1, AlwaysPartsInv, PTL

\* The outcome of a resolution fits the stores that were named, and a task with an
\* unresolved effect is not overlooked, for any number of stores that change and get
\* damaged while it reads them (resume-resolve.ts 51-92).
THEOREM ResolutionIsHonest == PartsSpec => []PendingIsReported
<1>1. PartsInv => PendingIsReported
  BY ResolutionReports DEF PartsInv, PendingIsReported
<1>2. QED
  BY <1>1, AlwaysPartsInv, PTL

\* What a call of the native helper made and did not finish is gone when it answers, for
\* any number of calls (agent_governance_fs.c 130-143, 189-258).
THEOREM NativeLeavesNothing == PartsSpec => []NoResidue
<1>1. ASSUME PartsInv PROVE NoResidue
  <2>1. CASE part = "native"
    <3>1. NativeProofs!NoResidue
      BY <1>1, <2>1, CallersAssumption, BoundsAssumption, NativeProofs!AnsweredLeavesNothing
         DEF PartsInv
    <3>2. QED
      BY <3>1, SameNoResidue DEF NoResidue
  <2>2. CASE part # "native"
    <3>1. \A c \in Callers : work[c].at \notin Native!Ended
      BY <1>1, <2>2 DEF PartsInv, Resting, Native!Idle, Native!Ended
    <3>2. QED
      BY <3>1 DEF NoResidue, Native!NoResidue
  <2>3. QED
    BY <2>1, <2>2
<1>2. QED
  BY <1>1, AlwaysPartsInv, PTL

\* An accepted catalog can be satisfied, and labels and title of an item that meets every
\* cardinality never contradict each other in a dimension of at most one value: for every
\* catalog that is accepted and every item (work-items.ts 147-264, 296-317, 362-436).
THEOREM AcceptedCatalogsAreSound == PartsSpec => []CatalogIsSound
<1>1. PartsInv => CatalogIsSound
  BY CatalogsAreSound DEF PartsInv, CatalogIsSound
<1>2. QED
  BY <1>1, AlwaysPartsInv, PTL

\* A plan speaks of every projection and every label once; carrying it out takes no label
\* from another owner, and leaves nothing to create or to update: for every catalog that is
\* accepted and every inventory (work-items.ts 319-360).
THEOREM PlansReconcile == PartsSpec => PlanReconciles
<1> DEFINE A == /\ Items!Plan => Items!Complete'
                /\ Items!Apply =>
                     /\ {l \in inventory : ~l.managed} = {l \in inventory' : ~l.managed}
                     /\ \A e \in Items!buildLabelProjectionPlan' :
                          e.action \notin {"CREATE", "UPDATE"}
<1>1. PartsInv => [A]_Items!vars
  BY PlanIsComplete, ApplyReconciles DEF PartsInv
<1>2. QED
  BY <1>1, AlwaysPartsInv, PTL DEF PlanReconciles, Items!PlanReconciles

\* A call of the native helper takes nothing away from others that it was not told of,
\* unless a change fell between its last comparison and the system call that acts on it
\* (agent_governance_fs.c 130-268).
THEOREM NativeTakesWhatItWasTold == PartsSpec => OnlyBoundIsTaken
<1> DEFINE A == \A c \in Callers : work'[c] # work[c] =>
                  /\ names'["foreign"] = names["foreign"]
                  /\ \A n \in Native!Taken : LET i == names["bound"][n] IN
                       \/ inode[i].by = c
                       \/ c \in raced
                       \/ Native!Told(c) = IF Native!IsA("directory", i) THEN <<i, 0>>
                                           ELSE Native!Version(i)
                       \/ work[c].op = "detach" /\ names'["bound"][Native!Aside] = i
<1>1. PartsInv /\ [PartsNext]_allVars => [A]_Native!vars
  <2> SUFFICES ASSUME PartsInv, [PartsNext]_allVars PROVE [A]_Native!vars
    OBVIOUS
  <2>1. CASE part = "native"
    BY <2>1, NativeTakes, PartsSteps DEF PartsInv
  <2>2. CASE part # "native"
    BY <2>2, PartsSteps DEF Native!vars, nativeVars
  <2>3. QED
    BY <2>1, <2>2
<1>2. PartsSpec => [][A]_Native!vars
  BY <1>1, AlwaysPartsInv, PTL DEF PartsSpec
<1>3. QED
  BY <1>2 DEF OnlyBoundIsTaken, Native!OnlyBoundIsTaken

=============================================================================
