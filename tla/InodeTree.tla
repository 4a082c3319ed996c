----------------------------- MODULE InodeTree -----------------------------
(***************************************************************************)
(* The namespace tree of the NameNode (src/ndfs/inode_tree.h) as a value   *)
(* and the pure functions of class InodeTree on it.                        *)
(*                                                                         *)
(* A path is what SplitPath makes of its string: the sequence of its       *)
(* non-empty components; "/" is <<>>.  A tree is a total function from the *)
(* paths of the instance to inodes; a path that names no node maps to      *)
(* Absent.  The order of the children of a directory (seen only by         *)
(* ListDir's caller) and modification_time are left out.                   *)
(***************************************************************************)
EXTENDS Naturals, Sequences, SequencesExt

CONSTANTS
    Paths,   \* the paths of the instance, closed under taking the parent
    Blocks   \* block ids

Root == <<>>

\* The directory a path lies in; the root is its own parent.
ParentOf(p) == IF p = Root THEN Root ELSE SubSeq(p, 1, Len(p) - 1)

ASSUME PathsAssumption ==
    /\ Paths \subseteq Seq(STRING)
    /\ Root \in Paths
    /\ \A p \in Paths : ParentOf(p) \in Paths

Types == {"kAbsent", "kDirectory", "kFile"}
INodes == [type : Types, blocks : Seq(Blocks)]

Absent == [type |-> "kAbsent", blocks |-> <<>>]
Directory == [type |-> "kDirectory", blocks |-> <<>>]
File(bs) == [type |-> "kFile", blocks |-> bs]

\* What the constructor leaves: the root directory and nothing else.
EmptyTree == [p \in Paths |-> IF p = Root THEN Directory ELSE Absent]

\* GetNode(path) != nullptr
Exists(t, p) == t[p].type # "kAbsent"

IsFile(t, p) == t[p].type = "kFile"
IsDirectory(t, p) == t[p].type = "kDirectory"

-----------------------------------------------------------------------------
\* Mkdirs walks down from the root, creating what is missing; it returns
\* nullptr when a component exists as a file.  Nothing lies below a file, so
\* the walk has created nothing when it gives up.
MkdirsOk(t, p) == \A q \in Paths : IsPrefix(q, p) => ~ IsFile(t, q)

Mkdirs(t, p) ==
    IF MkdirsOk(t, p)
      THEN [q \in Paths |-> IF IsPrefix(q, p) /\ ~ Exists(t, q)
                              THEN Directory ELSE t[q]]
      ELSE t

\* CreateFile returns nullptr for "/", for a path one of whose ancestors is
\* missing or is no directory, and for a path that exists.
CreateFileOk(t, p) ==
    /\ p # Root
    /\ \A q \in Paths : IsPrefix(q, p) /\ q # p => IsDirectory(t, q)
    /\ ~ Exists(t, p)

\* A plausible bug: the node is unlinked, its subtree is not.
BugDeleteShallow(t, p) == [q \in Paths |-> IF q = p /\ p # Root THEN Absent ELSE t[q]]

\* Delete unlinks the node and with it everything below; "/" stays.
DeleteTree(t, p) ==
    [q \in Paths |-> IF p # Root /\ IsPrefix(p, q) THEN Absent ELSE t[q]]

\* The names ListDir returns, as the paths of the children.
ListDir(t, p) ==
    IF IsDirectory(t, p)
      THEN {q \in Paths \ {Root} : ParentOf(q) = p /\ Exists(t, q)}
      ELSE {}

-----------------------------------------------------------------------------
\* The files of a tree, and the block ids they hold.
Files(t) == {p \in Paths : IsFile(t, p)}
BlocksOf(t, p) == {t[p].blocks[i] : i \in DOMAIN t[p].blocks}
TreeBlocks(t) == UNION {BlocksOf(t, p) : p \in Files(t)}
=============================================================================
