---------------------------- MODULE MCAdmission ----------------------------
(* One build, another that has no file in common with it, and builds that differ
   from one of them in a single thing: the lock, the executable, a document or a
   record its own rules reject, a key that is no key or a weak one, a count, or the
   manifest.                                                                      *)
EXTENDS Admission

Document(id) == [id |-> id, valid |-> TRUE, lines |-> id]

Line(path, digest) ==
    [canonical |-> TRUE, mode |-> 100644, length |-> 1, digest |-> digest, path |-> path]

Manifest(files, lines) ==
    [header |-> [exact |-> TRUE, treePath |-> <<97>>, files |-> files], lines |-> lines]

\* The paths a, a-b, a/b and b: a-b comes between a and a/b.
PathA  == <<97>>
PathAB == <<97, Dash, 98>>
BelowA == <<97, Slash, 98>>
PathB  == <<98>>

Build(id, executable, manifest) ==
    [recordForm |-> "Ok", executionForm |-> "Ok", evidenceForm |-> "Ok",
     key |-> [id |-> id, form |-> "Ok"], portable |-> Document(id),
     executable |-> executable, wit |-> Document(id), triple |-> Document(id),
     runtime |-> Document(id), compiler |-> Document(id), manifest |-> manifest,
     identity |-> Document(id), transcript |-> Document(id), lock |-> Document(id),
     tools |-> Document(id), commandCount |-> id, toolCount |-> id]

BuildOne == Build(1, NoExecutable, Manifest(2, <<Line(PathA, 1), Line(PathB, 1)>>))

\* Of later sources, and with an executable for the target.
BuildTwo == Build(2, Document(2), Manifest(2, <<Line(PathA, 2), Line(PathB, 1)>>))

MCManifests ==
    {Manifest(3, <<Line(PathA, 1), Line(PathAB, 1), Line(BelowA, 1)>>),
     Manifest(2, <<Line(PathA, 1), Line(BelowA, 1)>>),
     Manifest(2, <<Line(PathB, 1), Line(PathA, 1)>>),
     Manifest(1, <<Line(PathA, 1), Line(PathB, 1)>>),
     Manifest(2, <<Line(PathA, 1), [Line(PathB, 1) EXCEPT !.length = 2]>>),
     Manifest(4, <<Line(PathA, 1)>>)}

MCBuilds ==
    {BuildOne, BuildTwo, [BuildOne EXCEPT !.lock = Document(3)],
     [BuildTwo EXCEPT !.executable = Document(3)]} \union
    {[BuildOne EXCEPT ![name].valid = FALSE] :
        name \in {"wit", "triple", "runtime", "compiler", "identity", "transcript", "tools"}} \union
    {[BuildOne EXCEPT ![name] = "Field"] :
        name \in {"recordForm", "executionForm", "evidenceForm"}} \union
    {[BuildOne EXCEPT ![name] = 2] : name \in {"commandCount", "toolCount"}} \union
    {[BuildOne EXCEPT !.key = [id |-> 3, form |-> form]] : form \in {"WeakKey", "Signature"}} \union
    {[BuildOne EXCEPT !.manifest = manifest] : manifest \in MCManifests}

MCPaths == {PathA, PathAB, BelowA, PathB}

MCFiles ==
    {[regular |-> regular, mode |-> 100644, length |-> 1, digest |-> digest, path |-> path] :
        regular \in BOOLEAN, digest \in {1, 2}, path \in MCPaths}

\* In a file system no path is both a file and a directory.
MCTrees ==
    {files \in SUBSET MCFiles :
        \A f, g \in files : f # g => f.path # g.path /\ ~Below(f.path, g.path)}

Section(kind, size) == [kind |-> kind, names |-> <<>>, size |-> size]

Naming(kind, name, plain) ==
    [kind |-> kind, names |-> << [name |-> name, plain |-> plain] >>, size |-> 0]

MCPayloads ==
    {Section(kind, 0) : kind \in {"component", "module", "end", "code", "other"}} \union
    {Section("type", 1), Section("custom", 1)} \union
    {Naming(kind, name, TRUE) : kind \in {"import", "export"}, name \in {"console", "task"}} \union
    {Naming("import", "console", FALSE)}
=============================================================================
