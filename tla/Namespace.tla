----------------------------- MODULE Namespace ------------------------------
(***************************************************************************)
(* The NameNode's name system together with the image it saves and loads.  *)
(***************************************************************************)
EXTENDS FsNamesystem, FsImage

\* Load restores the tree Save wrote, files, directories and block lists alike,
\* whatever calls the tree is the result of (fsimage.h:16-76).
ImageRoundTrip == \A img \in Save(tree) : Load(img) = tree
=============================================================================
