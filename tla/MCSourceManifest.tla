-------------------------- MODULE MCSourceManifest --------------------------
(* Every manifest of up to three files with paths of up to three bytes.        *)
EXTENDS SourceManifest

MCHeaders == {[exact |-> TRUE, treePath |-> <<97>>, files |-> n] : n \in 1..3}

MCLines ==
    {[canonical |-> TRUE, mode |-> 100644, length |-> 1, digest |-> 1,
      path |-> path] :
        path \in SeqOf({Dash, Dot, Slash, 97}, 3)}
=============================================================================
