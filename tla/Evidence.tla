-------------------------------- MODULE Evidence --------------------------------
(***************************************************************************)
(* What the evidence of a gate holds: the output of a suite of tests, or      *)
(* bundles that were collected on other machines, one for each platform       *)
(* (portable_reproduction_proof.py and package_matrix_proof.py), which         *)
(* generate_gate_evidence.py copies and a gate's verifier (gates/_verify.py,   *)
(* RS_G10.py, RS_G13.py) looks through.                                     *)
(*                                                                         *)
(* A content stands for its size and its digest.  What a collector writes is   *)
(* told apart by the commit and the platform it was collected on.  A collector *)
(* that finds something wrong (an exit code, a build that does not repeat, a   *)
(* checkout that is not the commit) leaves no bundle.                         *)
(***************************************************************************)
EXTENDS Integers, FiniteSets, Functions

Kinds == {"suite", "portable", "package"}

Platforms == [portable |-> {"linux", "macos"}, package |-> {"3.11", "3.12", "3.13"}]

\* The files beside proof.json that a collector leaves, when its commands have
\* succeeded and its two builds are the same: one for the streams, and one for
\* what is exported, built, and built again.
PortableFiles(c, platform) ==
    [stream |-> <<"output", c, platform>>, export |-> <<"export", c, platform>>]

PackageFiles(c, platform) ==
    LET built == <<"dist", c, platform>>
    IN [stream |-> <<"output", c, platform>>, built |-> built, rebuilt |-> built]

\* The bundle of a machine that has checked out commit c, whose collector is of
\* version `collector'.
Collected(kind, c, collector, platform) ==
    LET files == IF kind = "portable" THEN PortableFiles(c, platform)
                                      ELSE PackageFiles(c, platform)
    IN [proof |-> [gate |-> kind, commit |-> c, platform |-> platform,
                   collector |-> collector, files |-> files],
        files |-> files]

\* One bundle for each platform.
CompleteSets(kind, bundles) ==
    {some \in SUBSET bundles :
        /\ Cardinality(some) = Cardinality(Platforms[kind])
        /\ {b.proof.platform : b \in some} = Platforms[kind]}

\* What bundle b may be when it has got here: a file or the proof is that of
\* another, or a file is lost.
Arrived(b, others) ==
    {b}
    \union {[b EXCEPT !.files = Restrict(@, DOMAIN @ \ {n})] : n \in DOMAIN b.files}
    \union {[b EXCEPT !.files[n] = o.files[n]] : n \in DOMAIN b.files, o \in others}
    \union {[b EXCEPT !.proof = o.proof] : o \in others}

-----------------------------------------------------------------------------
(* The proofs.                                                             *)

PortableProofIsValid(proof, platform, c) ==
    proof.gate = "portable" /\ proof.commit = c /\ proof.platform = platform

\* Two builds of the commit have given the same.
PackageProofIsValid(proof, platform, c) ==
    /\ proof.gate = "package" /\ proof.commit = c /\ proof.platform = platform
    /\ proof.files["built"] = proof.files["rebuilt"]

ProofIsValid(proof, platform, c) ==
    IF proof.gate = "portable" THEN PortableProofIsValid(proof, platform, c)
    ELSE PackageProofIsValid(proof, platform, c)

\* One directory for each platform, with a proof that holds for the commit.
OneOfEach(kind, c, inputs) ==
    /\ Cardinality(inputs) = Cardinality(Platforms[kind])
    /\ \A p \in Platforms[kind] : \E b \in inputs : ProofIsValid(b.proof, p, c)

\* _portable_inputs: the files must be there.
PortableInputs(c, inputs) ==
    /\ OneOfEach("portable", c, inputs)
    /\ \A b \in inputs : DOMAIN b.files = {"stream", "export"}

\* _package_inputs: the files must be those of the proof.
PackageInputs(c, inputs) ==
    /\ OneOfEach("package", c, inputs)
    /\ \A b \in inputs : b.files = b.proof.files

InputsAreTaken(kind, c, inputs) ==
    IF kind = "portable" THEN PortableInputs(c, inputs) ELSE PackageInputs(c, inputs)

\* The directories of the evidence, by platform.
Copied(kind, inputs) ==
    [p \in Platforms[kind] |-> CHOOSE b \in inputs : b.proof.platform = p]

-----------------------------------------------------------------------------
(* The verifiers.  `files' is the evidence as it is found; `then' and `today'   *)
(* are the versions of the collector in the commit measured and in the tree.   *)

\* A mutant of RequirePytestPass: exit code 0 is enough.
ExitCodeIsEnough(files) == files.outcome \in {"passed", "skipped"}

\* require_pytest_pass: pytest exits with 0, too, when it has skipped every test.
RequirePytestPass(files) == files.outcome = "passed"

\* A mutant of PortableShown: the files are not looked at.
PortableShownByProofs(files, c, then, today) ==
    /\ then = today
    /\ \A p \in Platforms["portable"] :
          PortableProofIsValid(files[p].proof, p, c) /\ files[p].proof.collector = today

PortableShown(files, c, then, today) ==
    /\ then = today
    /\ \A p \in Platforms["portable"] :
          /\ PortableProofIsValid(files[p].proof, p, c)
          /\ files[p].proof.collector = today
          /\ files[p].files = files[p].proof.files

PackageShown(files, c, then, today) ==
    \A p \in Platforms["package"] :
        /\ PackageProofIsValid(files[p].proof, p, c)
        /\ files[p].proof.collector = today /\ then = today
        /\ files[p].files = files[p].proof.files

\* The extra validator of a gate.
Shown(kind, files, c, then, today) ==
    CASE kind = "suite" -> RequirePytestPass(files)
      [] kind = "portable" -> PortableShown(files, c, then, today)
      [] kind = "package" -> PackageShown(files, c, then, today)

-----------------------------------------------------------------------------
\* What evidence has to be: tests that have passed; or of every platform a
\* bundle in which each file was collected there, on the commit.
ShowsItsGate(kind, files, c, collector) ==
    IF kind = "suite" THEN files.outcome = "passed"
    ELSE files = [p \in Platforms[kind] |-> Collected(kind, c, collector, p)]
===============================================================================
