------------------------------ MODULE Publication ------------------------------
(***************************************************************************)
(* The end of the reduce command (cli._reduce, from its output directory   *)
(* on): the reduced capsule and the report of its reduction are written    *)
(* under the digest of the capsule, or found there.                        *)
(*                                                                         *)
(* Any number of invocations use one directory, at the same time or one    *)
(* after the other, and each may stop at any step: it is killed, or the    *)
(* disk is full.  Reductions of one source that reach the same capsule     *)
(* have the same digest; their reports hold hashes of what the predicate   *)
(* printed in the last trial, and may differ.                              *)
(***************************************************************************)
CONSTANTS
    Process,    \* the invocations
    Digest,     \* the reduced capsules, by their digests
    Output      \* what a predicate may print

NoValue == "none"

VARIABLES
    directory,  \* the output directory exists
    artifact,   \* the file of each digest: "absent", "partial" or "whole"
    report,     \* the report of each digest, with the output it holds
    job,        \* each invocation's digest and output
    pc,         \* where each invocation is
    disturbed   \* history: the invocations that met another, or its leftovers

vars == <<directory, artifact, report, job, pc, disturbed>>

NoReport == [state |-> "absent", output |-> NoValue]
Active == {p \in Process : pc[p] \notin {"reducing", "done", "failed", "stopped"}}
Goto(p, label) == pc' = [pc EXCEPT ![p] = label]

\* Files that the invocation can neither use nor replace.
Leftovers(p) ==
    LET d == job[p].digest
    IN artifact[d] = "partial" \/ report[d] \notin
          {NoReport, [state |-> "whole", output |-> job[p].output]}

-------------------------------------------------------------------------------
\* The reduction is over, and the decorated capsule reproduces.
Begin(p) ==
    /\ pc[p] = "reducing"
    /\ disturbed' = IF Active = {} /\ ~Leftovers(p) THEN disturbed
                    ELSE disturbed \union Active \union {p}
    /\ Goto(p, IF directory THEN "artifact" ELSE "mkdir")
    /\ UNCHANGED <<directory, artifact, report, job>>

MakeDirectory(p) ==
    /\ pc[p] = "mkdir"
    /\ directory' = TRUE
    /\ Goto(p, IF directory THEN "failed" ELSE "artifact")
    /\ UNCHANGED <<artifact, report, job, disturbed>>

\* A mutant of Found: a file that is there is taken to be the right one.
FoundUnread(p, state) ==
    Goto(p, IF state = "absent" THEN "open artifact" ELSE "report")

\* A mutant of Found: a file that is there is never used.
FoundRefused(p, state) ==
    Goto(p, IF state = "absent" THEN "open artifact" ELSE "failed")

\* The file of the digest is there, and read to the end it has, or not.
Found(p, state) ==
    Goto(p, CASE state = "absent" -> "open artifact"
              [] state = "partial" -> "failed"
              [] state = "whole" -> "report")

LookForArtifact(p) ==
    /\ pc[p] = "artifact"
    /\ Found(p, artifact[job[p].digest])
    /\ UNCHANGED <<directory, artifact, report, job, disturbed>>

\* write_capsule: the file must not exist.
OpenArtifact(p) ==
    LET d == job[p].digest
    IN /\ pc[p] = "open artifact"
       /\ \/ /\ artifact[d] = "absent"
             /\ artifact' = [artifact EXCEPT ![d] = "partial"]
             /\ Goto(p, "write artifact")
          \/ /\ artifact[d] # "absent"
             /\ Goto(p, "failed")
             /\ UNCHANGED artifact
       /\ UNCHANGED <<directory, report, job, disturbed>>

WriteArtifact(p) ==
    /\ pc[p] = "write artifact"
    /\ artifact' = [artifact EXCEPT ![job[p].digest] = "whole"]
    /\ Goto(p, "report")
    /\ UNCHANGED <<directory, report, job, disturbed>>

\* A mutant of Agrees: reports are not compared.
AgreesAlways(p) == TRUE

Agrees(p) == report[job[p].digest] = [state |-> "whole", output |-> job[p].output]

LookForReport(p) ==
    /\ pc[p] = "report"
    /\ Goto(p, CASE report[job[p].digest] = NoReport -> "open report"
                 [] Agrees(p) -> "done"
                 [] OTHER -> "failed")
    /\ UNCHANGED <<directory, artifact, report, job, disturbed>>

OpenReport(p) ==
    LET d == job[p].digest
    IN /\ pc[p] = "open report"
       /\ \/ /\ report[d] = NoReport
             /\ report' = [report EXCEPT ![d] =
                              [state |-> "partial", output |-> job[p].output]]
             /\ Goto(p, "write report")
          \/ /\ report[d] # NoReport
             /\ Goto(p, "failed")
             /\ UNCHANGED report
       /\ UNCHANGED <<directory, artifact, job, disturbed>>

WriteReport(p) ==
    /\ pc[p] = "write report"
    /\ report' = [report EXCEPT ![job[p].digest] =
                     [state |-> "whole", output |-> job[p].output]]
    /\ Goto(p, "done")
    /\ UNCHANGED <<directory, artifact, job, disturbed>>

\* The invocation is killed or meets an I/O error.
Stop(p) ==
    /\ p \in Active
    /\ Goto(p, "stopped")
    /\ UNCHANGED <<directory, artifact, report, job, disturbed>>

-------------------------------------------------------------------------------
Init ==
    /\ directory \in BOOLEAN
    /\ artifact = [d \in Digest |-> "absent"]
    /\ report = [d \in Digest |-> NoReport]
    /\ job \in [Process -> [digest : Digest, output : Output]]
    /\ pc = [p \in Process |-> "reducing"]
    /\ disturbed = {}

Publish(p) ==
    \/ MakeDirectory(p)
    \/ LookForArtifact(p)
    \/ OpenArtifact(p)
    \/ WriteArtifact(p)
    \/ LookForReport(p)
    \/ OpenReport(p)
    \/ WriteReport(p)

Next == \E p \in Process : Begin(p) \/ Publish(p) \/ Stop(p)

Spec == Init /\ [][Next]_vars

-------------------------------------------------------------------------------
(* Properties.                                                               *)

Labels == {"reducing", "mkdir", "artifact", "open artifact", "write artifact",
           "report", "open report", "write report", "done", "failed", "stopped"}

TypeOK ==
    /\ directory \in BOOLEAN
    /\ artifact \in [Digest -> {"absent", "partial", "whole"}]
    /\ report \in [Digest -> [state : {"partial", "whole"}, output : Output]
                                \union {NoReport}]
    /\ job \in [Process -> [digest : Digest, output : Output]]
    /\ pc \in [Process -> Labels]
    /\ disturbed \subseteq Process

\* An invocation that succeeds has its whole capsule in place and its own
\* report beside it, whoever wrote them, and they stay.
DoneIsPublished ==
    \A p \in Process : pc[p] = "done" =>
       /\ artifact[job[p].digest] = "whole"
       /\ report[job[p].digest] = [state |-> "whole", output |-> job[p].output]

\* There is no report, nor the beginning of one, without its whole capsule.
ReportsHaveArtifacts ==
    \A d \in Digest : report[d] # NoReport => artifact[d] = "whole"

\* Whatever is there was put there in order: an artifact before its report, both
\* before success.
PublishedInOrder == DoneIsPublished /\ ReportsHaveArtifacts

\* No two invocations ever write the same file (open with "xb").
OneWriter ==
    \A p, q \in Process :
       /\ pc[p] = pc[q]
       /\ pc[p] \in {"write artifact", "write report"}
       /\ job[p].digest = job[q].digest
       => p = q

\* An invocation that meets no other and none of its leftovers does not fail.
UndisturbedSucceeds ==
    \A p \in Process : pc[p] = "failed" => p \in disturbed
===============================================================================
