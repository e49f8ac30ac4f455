--------------------------- MODULE SourceManifest ---------------------------
(* SourceManifestV1::parse, line by line: the signed list of the source files a
   component was built from. Paths are sequences of bytes, because the order of
   the lines and the prefix rule are about bytes; lengths and digests are not
   told apart further than the checks do.                                      *)
EXTENDS Integers, SequencesExt

CONSTANTS
    MaxFiles, MaxFileBytes, MaxBytes,   \* MAX_SOURCE_FILES, _FILE_BYTES, _BYTES
    MaxPathBytes,
    MaxLines,       \* lines that MAX_SOURCE_MANIFEST_BYTES leaves room for
    Headers, Lines  \* what a manifest may hold

VARIABLES
    parsing,        \* header, lines, parsed or rejected
    fileCount,
    entries

manifestVars == <<parsing, fileCount, entries>>

Dash == 45

Dot == 46

Slash == 47

PathBytes == {Dash, Dot, Slash, 95} \union (48..57) \union (65..90) \union (97..122)

\* The parts of a path between its slashes.
Parts(path) ==
    LET ends == {0, Len(path) + 1} \union {i \in DOMAIN path : path[i] = Slash}
    IN  {SubSeq(path, b[1] + 1, b[2] - 1) :
            b \in {e \in ends \X ends : e[1] < e[2] /\ ~\E i \in ends : e[1] < i /\ i < e[2]}}

ValidPath(path) ==
    /\ Len(path) <= MaxPathBytes
    /\ Range(path) \subseteq PathBytes
    /\ Parts(path) \intersect {<<>>, <<Dot>>, <<Dot, Dot>>} = {}

\* The order of byte strings.
Before(a, b) ==
    \E i \in DOMAIN b :
        /\ \A j \in 1..(i - 1) : j \in DOMAIN a /\ a[j] = b[j]
        /\ i > Len(a) \/ a[i] < b[i]

\* path lies below the directory that prior would be.
Below(prior, path) == IsPrefix(Append(prior, Slash), path)

Aggregate == FoldSeq(LAMBDA entry, sum : entry.length + sum, 0, entries)

\* The schema, repository, tree-path, tree-hash and file-count lines.
ParseHeader(header) ==
    /\ parsing = "header"
    /\ IF header.exact /\ ValidPath(header.treePath) /\ header.files \in 1..MaxFiles
       THEN parsing' = "lines" /\ fileCount' = header.files
       ELSE parsing' = "rejected" /\ UNCHANGED fileCount
    /\ UNCHANGED entries

\* A line is compared with the line before it only.
LineAccepted(line) ==
    /\ line.canonical /\ line.mode \in {100644, 100755}
    /\ line.length <= MaxFileBytes /\ Aggregate + line.length <= MaxBytes
    /\ ValidPath(line.path)
    /\ entries # <<>> =>
          /\ Before(Last(entries).path, line.path)
          /\ ~Below(Last(entries).path, line.path)

ParseLine(line) ==
    /\ parsing = "lines" /\ Len(entries) < MaxLines
    /\ IF LineAccepted(line)
       THEN entries' = Append(entries, line) /\ UNCHANGED parsing
       ELSE parsing' = "rejected" /\ UNCHANGED entries
    /\ UNCHANGED fileCount

FinishManifest ==
    /\ parsing = "lines"
    /\ parsing' = IF Len(entries) = fileCount THEN "parsed" ELSE "rejected"
    /\ UNCHANGED <<fileCount, entries>>

ManifestInit == parsing = "header" /\ fileCount = 0 /\ entries = <<>>

ManifestNext ==
    \/ \E header \in Headers : ParseHeader(header)
    \/ \E line \in Lines : ParseLine(line)
    \/ FinishManifest

ManifestSpec == ManifestInit /\ [][ManifestNext]_manifestVars

-----------------------------------------------------------------------------

\* ADR 0008 says of an accepted manifest: a file path cannot also be another
\* entry's directory prefix. SourceManifestV1::parse compares neighbours.
NoPathIsAnotherPrefix ==
    parsing = "parsed" =>
        \A i, j \in DOMAIN entries : ~Below(entries[i].path, entries[j].path)
=============================================================================
