------------------------------ MODULE FsImage ------------------------------
(***************************************************************************)
(* The NameNode's persistent image (src/ndfs/fsimage.h): Save writes one   *)
(* line per node, Load rebuilds a tree line by line.  Only the tree is in  *)
(* the image; block locations are not.                                     *)
(*                                                                         *)
(* A line is [type, path, blocks].  Load parses a line with                *)
(* `iss >> path >> blocks_token', which stops at white space: Token maps a *)
(* path to the path that is read back (itself when no name has a blank);   *)
(* the rest of a broken name is then taken for the block list.             *)
(***************************************************************************)
EXTENDS InodeTree

CONSTANT Token   \* [Paths -> Paths]

ASSUME TokenAssumption == Token \in [Paths -> Paths]

Line(t, p) == [type |-> t[p].type, path |-> p, blocks |-> t[p].blocks]

\* SerializeNode walks depth first, children in creation order: a directory's
\* line comes right before those of its subtree.
PreOrder(s) ==
    \A i, j \in DOMAIN s : i < j =>
        /\ ~ IsPrefix(s[j], s[i])
        /\ IsPrefix(s[i], s[j]) => \A k \in i..j : IsPrefix(s[i], s[k])

\* The images Save can write for a tree: one per order of the children.
Save(t) ==
    {[i \in DOMAIN s |-> Line(t, s[i])] :
        s \in {s \in SetToSeqs({p \in Paths \ {Root} : Exists(t, p)}) : PreOrder(s)}}

\* What a disk that fills up, or any other error Save does not look at, may
\* leave of an image: its first lines, the last of them without some of its
\* blocks.
Torn(img) ==
    Prefixes(img) \cup
    UNION {{Append(SubSeq(img, 1, n - 1), [img[n] EXCEPT !.blocks = bs]) :
              bs \in Prefixes(img[n].blocks)} : n \in DOMAIN img}

\* A plausible bug: the parents of a file are expected to be there already
\* and a directory line creates only directories directly below the root.
BugLoadLine(t, l) ==
    IF l.type = "kDirectory"
      THEN IF Len(l.path) = 1 THEN Mkdirs(t, Token[l.path]) ELSE t
      ELSE IF CreateFileOk(t, Token[l.path])
             THEN [t EXCEPT ![Token[l.path]] = File(l.blocks)] ELSE t

\* One line of Load's loop.
LoadLine(t, l) ==
    LET q == Token[l.path]
        made == Mkdirs(t, ParentOf(q))
    IN  IF l.type = "kDirectory" THEN Mkdirs(t, q)
        ELSE IF CreateFileOk(made, q)
               THEN [made EXCEPT ![q] = File(IF q = l.path THEN l.blocks ELSE <<>>)]
               ELSE made

Load(img) == FoldLeft(LoadLine, EmptyTree, img)
=============================================================================
