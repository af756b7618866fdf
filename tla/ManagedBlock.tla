---------------------------- MODULE ManagedBlock ----------------------------
(***************************************************************************)
(* managed-block.ts: the block of generated text that the installer keeps  *)
(* in the user's entry file.  A file is the user's text before the block,  *)
(* the block, and the user's text after it.  Of the block's text the model *)
(* keeps the version it projects, its line ends, and the two flags that    *)
(* say which line ends around it are the installer's; of the user's text   *)
(* single characters, "marker" standing for a marker of another version or *)
(* one without a partner.                                                  *)
(***************************************************************************)
EXTENDS Naturals, Sequences, SequencesExt

CONSTANTS Versions,     \* releases whose block can be projected
          NoBlock,
          Characters,   \* what the user writes: "x", "y", "cr", "lf", "marker"
          MaxText,      \* bound: length of the user's text before the first installation
          MaxEdits,     \* bound: the user's edits
          MaxRoots      \* bound: replacements, each into a new installation root

VARIABLES before, block, after, \* the entry file
          installed,            \* the version of the current metadata, or NoBlock
          base,                 \* observation: the text before the installation
          untouched,            \* observation: the user has not edited since
          editsLeft, rootsLeft

vars == <<before, block, after, installed, base, untouched, editsLeft, rootsLeft>>

LF == <<"lf">>
CRLF == <<"cr", "lf">>
Blocks == [version : Versions, eol : {LF, CRLF}, prefixAdded : BOOLEAN,
           suffixAdded : BOOLEAN, flags : BOOLEAN, intact : BOOLEAN]
Texts == BoundedSeq(Characters, MaxText)

Init == /\ before \in Texts
        /\ block = NoBlock /\ after = <<>> /\ installed = NoBlock
        /\ base = before /\ untouched = TRUE
        /\ editsLeft = MaxEdits /\ rootsLeft = MaxRoots

TypeOK == /\ before \in Seq(Characters) /\ after \in Seq(Characters)
          /\ block \in Blocks \cup {NoBlock}
          /\ installed \in Versions \cup {NoBlock}
          /\ base \in Seq(Characters)
          /\ untouched \in BOOLEAN
          /\ editsLeft \in 0..MaxEdits /\ rootsLeft \in 0..MaxRoots
-----------------------------------------------------------------------------
(* parse, projection, boundaryFlags, verifyManagedBlock *)

Parsable(b, a) == "marker" \notin Range(b) \cup Range(a)

HasCRLF(text) == \E i \in 1..Len(text) - 1 : SubSeq(text, i, i + 1) = CRLF

EolOf(b, k, a) == IF HasCRLF(b) \/ HasCRLF(a) \/ (k # NoBlock /\ k.eol = CRLF) THEN CRLF ELSE LF

projection(v, eol, prefixAdded, suffixAdded) ==
  [version |-> v, eol |-> eol, prefixAdded |-> prefixAdded, suffixAdded |-> suffixAdded,
   flags |-> TRUE, intact |-> TRUE]

verifyManagedBlock(b, k, a, v) ==
  /\ Parsable(b, a)
  /\ k # NoBlock /\ k.flags
  /\ k = projection(v, EolOf(b, k, a), k.prefixAdded, k.suffixAdded)

EndsWith(text, eol) == IsSuffix(eol, text)
DropEnd(text, eol) == SubSeq(text, 1, Len(text) - Len(eol))
DropStart(text, eol) == SubSeq(text, Len(eol) + 1, Len(text))

\* Mutant: a block that is projected again forgets who added the line ends.
ProjectedNew(v) == projection(v, EolOf(before, block, after), FALSE, TRUE)

\* installManagedBlock on a file that has a block.
ProjectedAgain(v) ==
  projection(v, EolOf(before, block, after), block.prefixAdded, block.suffixAdded)

PrefixAdded(text) == text # <<>> /\ ~EndsWith(text, LF)

\* Mutant: the recorded line end is cut off without looking.
CutPrefix == IF block.prefixAdded
             THEN DropEnd(before, EolOf(before, block, after)) ELSE before

\* removeManagedBlock.
PrefixRemoved == IF block.prefixAdded /\ EndsWith(before, EolOf(before, block, after))
                 THEN DropEnd(before, EolOf(before, block, after)) ELSE before
SuffixRemoved == IF block.suffixAdded /\ IsPrefix(EolOf(before, block, after), after)
                 THEN DropStart(after, EolOf(before, block, after)) ELSE after
-----------------------------------------------------------------------------
(* Install, update, replacement and uninstall.  An operation that fails    *)
(* its verification restores the entry: it does not happen.                *)

Write(b, k, a) == /\ before' = b /\ block' = k /\ after' = a
                  /\ UNCHANGED editsLeft

\* installManagedBlock on a text without a block, up to its verification.
Put(text, v) ==
  LET eol == EolOf(text, NoBlock, <<>>)
      k   == projection(v, eol, PrefixAdded(text), TRUE)
      b   == text \o (IF PrefixAdded(text) THEN eol ELSE <<>>)
  IN  /\ verifyManagedBlock(b, k, eol, v)
      /\ Write(b, k, eol)
      /\ installed' = v

InstallFirst(v) == /\ Parsable(before, after) /\ block = NoBlock
                   /\ Put(before, v)
                   /\ base' = before /\ untouched' = TRUE
                   /\ UNCHANGED rootsLeft

Update(v) == /\ block # NoBlock /\ verifyManagedBlock(before, block, after, installed)
             /\ verifyManagedBlock(before, ProjectedAgain(v), after, v)
             /\ Write(before, ProjectedAgain(v), after)
             /\ installed' = v
             /\ UNCHANGED <<base, untouched, rootsLeft>>

Uninstall == /\ block # NoBlock /\ verifyManagedBlock(before, block, after, installed)
             /\ Write(PrefixRemoved \o SuffixRemoved, NoBlock, <<>>)
             /\ installed' = NoBlock
             /\ UNCHANGED <<base, untouched, rootsLeft>>

\* removeOpaqueManagedEnvelope takes the block out, whatever it holds, and
\* leaves the line ends around it; the block of the new root follows the text.
Replace(v) == /\ rootsLeft > 0 /\ rootsLeft' = rootsLeft - 1
              /\ block # NoBlock /\ Parsable(before, after)
              /\ Put(before \o after, v)
              /\ base' = before \o after /\ untouched' = TRUE
-----------------------------------------------------------------------------
(* The user's editor *)

Edit == /\ editsLeft > 0
        /\ editsLeft' = editsLeft - 1
        /\ untouched' = FALSE
        /\ UNCHANGED <<installed, base, rootsLeft>>

EditBefore == /\ Edit
              /\ \/ \E c \in Characters : before' = Append(before, c)
                 \/ before # <<>> /\ before' = Front(before)
              /\ UNCHANGED <<block, after>>

EditAfter == /\ Edit /\ block # NoBlock
             /\ \/ \E c \in Characters : after' = <<c>> \o after
                \/ after # <<>> /\ after' = Tail(after)
             /\ UNCHANGED <<block, before>>

EditBlock == /\ Edit /\ block # NoBlock
             /\ \/ block' = [block EXCEPT !.intact = FALSE]
                \/ block' = [block EXCEPT !.intact = FALSE, !.flags = FALSE]
                \/ block' = [block EXCEPT !.prefixAdded = ~@]
                \/ block' = NoBlock
             /\ IF block' = NoBlock THEN before' = before \o after /\ after' = <<>>
                ELSE UNCHANGED <<before, after>>

Next == \/ \E v \in Versions : InstallFirst(v) \/ Update(v) \/ Replace(v)
        \/ Uninstall
        \/ EditBefore \/ EditAfter \/ EditBlock

Spec == Init /\ [][Next]_vars
-----------------------------------------------------------------------------
\* Uninstalling, after any number of updates, gives the file back byte for byte
\* as it was before the installation, if the user left it alone
\* (managed-block.ts 97-120).
RoundTrip == installed = NoBlock /\ block = NoBlock /\ untouched => before \o after = base

\* What the user wrote is never lost: installing, updating, uninstalling and
\* replacing keep every character outside the block but line ends, in its
\* order, whatever the user edited before (managed-block.ts 97-128).
Written(text) == SelectSeq(text, LAMBDA c : c \notin {"cr", "lf"})
UserTextSurvives == [][editsLeft' = editsLeft =>
                         Written(before' \o after') = Written(before \o after)]_vars
=============================================================================
