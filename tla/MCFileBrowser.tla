---------------------------- MODULE MCFileBrowser ----------------------------
(***************************************************************************)
(* Instances of FileBrowser for TLC: two buckets, one of them with a       *)
(* folder, one search term.                                                *)
(***************************************************************************)
EXTENDS FileBrowser

CONSTANTS docs, mail, a, x

MCPrefix == {<<>>, <<a>>}
MCRoot(bucket, prefix) == [bucket |-> bucket, prefix |-> prefix]
MCRootLists == {<<>>, <<MCRoot(docs, <<a>>), MCRoot(mail, <<>>)>>}
MCStarts == {FilesHome, To(docs, <<>>, x), Elsewhere}
=============================================================================
