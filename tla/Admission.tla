------------------------------ MODULE Admission ------------------------------
(* verify_bundle: whether the files of a component bundle are the ones its signed
   admission record speaks of. The record binds some files by digest, two of those
   are records that bind others, and one of these, the source manifest, binds the
   staged source tree. A digest stands for the contents it was taken of, and a
   document for its identity, whether its own rules accept it, and its lines; the
   manifest is the header and the lines that are parsed. A file of another length
   than the record says is refused like one of another digest. The checks are in
   the order of verify_bundle; each looks at one more file, which may come from any
   build. What the portable component holds is left open: any payloads are tried.  *)
EXTENDS SourceManifest, ComponentSurface

CONSTANTS
    Builds,         \* what builds have produced: records of documents
    Trees           \* what a staged source root may hold: sets of files

VARIABLES
    bundle,         \* the contents supplied so far
    tree,           \* the staged source root
    verdict         \* the next step, admitted, or the error returned

admissionVars == <<bundle, tree, verdict, manifestVars, surfaceVars>>

NoExecutable == [id |-> 0, valid |-> TRUE, lines |-> 0]

\* ExecutionProfileV1, BuildEvidenceV1 and ComponentAdmissionV1 of a build. form
\* is what parse returns for the size, the schema, the reserved bytes and the
\* fields that have one permitted value.
ExecutionProfile(b) ==
    [form |-> b.executionForm, triple |-> b.triple, runtime |-> b.runtime,
     compiler |-> b.compiler]

BuildEvidence(b) ==
    [form |-> b.evidenceForm, manifest |-> b.manifest, identity |-> b.identity,
     transcript |-> b.transcript, lock |-> b.lock, tools |-> b.tools,
     commandCount |-> b.commandCount, toolCount |-> b.toolCount]

ComponentAdmission(b) ==
    [form |-> b.recordForm, key |-> b.key, portable |-> b.portable,
     executable |-> b.executable, wit |-> b.wit,
     execution |-> ExecutionProfile(b), evidence |-> BuildEvidence(b)]

\* Everything a build hands over: BundleInputs, but for the source root.
Produced(b) ==
    [record |-> ComponentAdmission(b),
     signature |-> [key |-> b.key, message |-> ComponentAdmission(b)],
     key |-> b.key, portable |-> b.portable, executable |-> b.executable, wit |-> b.wit,
     execution |-> ExecutionProfile(b), triple |-> b.triple, runtime |-> b.runtime,
     compiler |-> b.compiler, evidence |-> BuildEvidence(b), manifest |-> b.manifest,
     identity |-> b.identity, transcript |-> b.transcript, lock |-> b.lock,
     tools |-> b.tools]

AdmissionInit ==
    /\ bundle = <<>> /\ tree = {} /\ verdict = "record"
    /\ ManifestInit
    /\ SurfaceInit

-----------------------------------------------------------------------------

\* The files in the order in which they are compared.
Files == <<"record", "key", "signature", "portable", "executable", "wit", "execution",
           "evidence", "triple", "runtime", "compiler", "manifest", "identity",
           "transcript", "lock", "tools">>

\* The record that binds the file by its digest.
BoundBy(name) ==
    CASE name \in {"triple", "runtime", "compiler"} -> "execution"
      [] name \in {"manifest", "identity", "transcript", "lock", "tools"} -> "evidence"
      [] OTHER -> "record"

\* Fault: the dependency lock, which no other rule looks at, is not compared.
DigestStatusNoLock(name, given) ==
    IF name # "lock" /\ given[name] # given[BoundBy(name)][name] THEN "Digest" ELSE "Ok"

\* verify_bound_bytes, verify_digest and verify_length_digest.
DigestStatus(name, given) ==
    IF given[name] # given[BoundBy(name)][name] THEN "Digest" ELSE "Ok"

\* verify_signature; a key is identified by its digest, and its form is what
\* from_bytes and is_weak make of it.
KeyStatus(given) ==
    IF given.key # given.record.key THEN "KeyId" ELSE given.key.form

SignatureStatus(given) ==
    IF given.signature # [key |-> given.key, message |-> given.record]
    THEN "Signature" ELSE "Ok"

ExecutableStatus(given) ==
    IF (given.executable = NoExecutable) # (given.record.executable = NoExecutable)
    THEN "Length" ELSE DigestStatus("executable", given)

\* validate_line_document and validate_name_value_document_counted.
LinesValid(document, count) == document.valid /\ document.lines = count

\* The rules of the documents themselves, once all that a record binds are compared.
ConfigurationValid(given) == given.triple.valid /\ given.runtime.valid /\ given.compiler.valid

EvidenceValid(given) ==
    /\ given.identity.valid
    /\ LinesValid(given.transcript, given.evidence.commandCount)
    /\ LinesValid(given.tools, given.evidence.toolCount)

InOrder(first, second) == IF first = "Ok" THEN second ELSE first

\* What is checked when the file is reached. A record is parsed before the first
\* file it binds is compared, the admission record at once.
Status(name, given) ==
    CASE name = "record"     -> given.record.form
      [] name = "key"        -> KeyStatus(given)
      [] name = "signature"  -> SignatureStatus(given)
      [] name = "executable" -> ExecutableStatus(given)
      [] name = "triple"     -> InOrder(given.execution.form, DigestStatus(name, given))
      [] name = "manifest"   -> InOrder(given.evidence.form, DigestStatus(name, given))
      [] name = "compiler"   -> InOrder(DigestStatus(name, given),
                                        IF ConfigurationValid(given) THEN "Ok" ELSE "Document")
      [] name = "tools"      -> InOrder(DigestStatus(name, given),
                                        IF EvidenceValid(given) THEN "Ok" ELSE "Document")
      [] OTHER               -> DigestStatus(name, given)

\* The file after this one, and the parse of the manifest after the last.
Following(i) == IF i = Len(Files) THEN "parse" ELSE Files[i + 1]

VerifyFile ==
    /\ \E i \in DOMAIN Files, b \in Builds :
          LET name  == Files[i]
              given == (name :> Produced(b)[name]) @@ bundle
          IN  /\ verdict = name
              /\ bundle' = given
              /\ verdict' = IF Status(name, given) = "Ok" THEN Following(i)
                            ELSE Status(name, given)
    /\ UNCHANGED <<tree, manifestVars, surfaceVars>>

\* SourceManifestV1::parse of the manifest that was compared, to its last line.
ParseManifest ==
    LET lines == bundle.manifest.lines IN
    /\ verdict = "parse"
    /\ \/ ParseHeader(bundle.manifest.header)
       \/ Len(entries) < Len(lines) /\ ParseLine(lines[Len(entries) + 1])
       \/ Len(entries) = Len(lines) /\ FinishManifest
    /\ verdict' = CASE parsing' = "parsed"   -> "inventory"
                    [] parsing' = "rejected" -> "Manifest"
                    [] OTHER                 -> verdict
    /\ UNCHANGED <<bundle, tree, surfaceVars>>

\* What collect_source_files gathers: a file as a line of the manifest lists it.
Listed(file) == [path |-> file.path, mode |-> file.mode, length |-> file.length,
                 digest |-> file.digest]

\* collect_source_files and verify_staged_root.
InventoryStatus(files) ==
    FirstFailure(<<
        <<\E file \in files : ~file.regular \/ file.length > MaxFileBytes, "SourceInventory">>,
        <<\E file \in files : ~ValidPath(file.path), "Manifest">>,
        <<Cardinality(files) > MaxFiles, "SourceInventory">>,
        <<Cardinality(files) # Len(entries), "SourceInventory">>,
        <<\E i \in DOMAIN entries : ~\E file \in files : Listed(file) = Listed(entries[i]),
          "SourceInventory">> >>)

\* verify_staged_root and then validate_wit_contract.
VerifyStagedRoot ==
    /\ verdict = "inventory"
    /\ \E files \in Trees :
          LET status == FirstFailure(<<
                            <<InventoryStatus(files) # "Ok", InventoryStatus(files)>>,
                            <<~bundle.wit.valid, "Wit">> >>)
          IN  /\ tree' = files
              /\ verdict' = IF status = "Ok" THEN "component" ELSE status
    /\ UNCHANGED <<bundle, manifestVars, surfaceVars>>

InspectComponent ==
    /\ verdict = "component"
    /\ FinishInspection \/ \E payload \in Payloads : InspectPayload(payload)
    /\ verdict' = CASE inspecting' = "accepted" -> "admitted"
                    [] inspecting' = "payloads" -> verdict
                    [] OTHER                    -> inspecting'
    /\ UNCHANGED <<bundle, tree, manifestVars>>

AdmissionNext ==
    VerifyFile \/ ParseManifest \/ VerifyStagedRoot \/ InspectComponent

AdmissionSpec == AdmissionInit /\ [][AdmissionNext]_admissionVars

-----------------------------------------------------------------------------

\* What verify_bundle admits is one build: there is a build that produced the signed
\* record and every other file supplied, so a bundle put together from the files of
\* two builds is refused, and the staged source tree holds exactly the files that
\* this build's manifest lists, each once and with the contents listed.
AdmittedIsOneBuild ==
    verdict = "admitted" =>
        \E b \in Builds :
            LET lines == b.manifest.lines IN
            /\ bundle = Produced(b)
            /\ {Listed(file) : file \in tree} = {Listed(lines[i]) : i \in DOMAIN lines}
            /\ Cardinality(tree) = Len(lines)
=============================================================================
