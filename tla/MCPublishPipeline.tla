------------------------- MODULE MCPublishPipeline -------------------------
(* PublishPipeline on one application, from two paths of a repository.       *)
EXTENDS PublishPipeline, TLC

CONSTANTS repo, root, sub, c1, c2

TreeOf(path, commit) == [repo |-> repo, path |-> path, commit |-> commit]

\* Two commits of one application, and another path of the first of them.
MCTrees == {TreeOf(root, c1), TreeOf(sub, c1), TreeOf(root, c2)}

\* One source: nobody else ever had the name.
MCOneSource == {TreeOf(root, c1), TreeOf(root, c2)}

\* With the provenance `vpath app send` puts in, and without any.
MCUploads ==
    LET newer == TreeOf(root, c2) IN
    {[tree |-> newer, record |-> [of |-> newer, bound |-> newer], replace |-> TRUE],
     [tree |-> TreeOf(sub, c1), record |-> NoRecord, replace |-> TRUE]}

NoUploads == {}
=============================================================================
