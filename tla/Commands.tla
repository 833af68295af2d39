------------------------------- MODULE Commands -------------------------------
(***************************************************************************)
(* The commands around Publication (cli.py): the reduction that comes before *)
(* an artifact is published, and the commands that are given an artifact at   *)
(* any time afterwards.  Every step is one of Publication or leaves its files *)
(* and invocations alone.                                                   *)
(*                                                                         *)
(* All reductions have one predicate, which is recorded in what they write.  *)
(* Of its answers about an artifact and what is one deletion smaller only the *)
(* sum is kept: the artifact is "minimal" or "larger" than it need be, or the *)
(* artifact itself is "absent" or "invalid".                                 *)
(***************************************************************************)
EXTENDS Publication, Naturals

Answers == {"minimal", "larger", "absent", "invalid"}
Natures == {"blind", "steady", "flaky"}
Options == {"own", "-- own", "other", "of no trials"}   \* as typed

VARIABLES
    nature,       \* the predicate's (rigid): "flaky", or "steady" in what it says of
                  \* a capsule, and perhaps "blind" to its metadata
    said,         \* what a steady predicate has been asked and said of an artifact
    materialized, \* the file given to materialize: NoValue, or whose outputs it has
    last          \* the last command on an artifact, while nothing else has happened

commandVars == <<nature, said, materialized, last>>

NoCommand == [command |-> NoValue]

\* The predicate, asked about artifact d, answers a.  The artifact is the minimal
\* capsule with the reduction's history in its metadata.
Answer(d, a) ==
    \/ nature = "blind" /\ a = "minimal" /\ UNCHANGED said
    \/ nature = "steady" /\ said[d] \in {NoValue, a} /\ said' = [said EXCEPT ![d] = a]
    \/ nature = "flaky" /\ UNCHANGED said

-------------------------------------------------------------------------------
(* reduce.                                                                   *)

\* A mutant of Reduce: the capsule is not asked about again with its metadata.
ReduceBare(p) ==
    /\ Begin(p)
    /\ last' = NoCommand
    /\ UNCHANGED <<nature, said, materialized>>

\* The verifier has found the capsule minimal, and with its metadata it still
\* reproduces.
Reduce(p) ==
    /\ Begin(p)
    /\ \E a \in {"minimal", "larger"} : Answer(job[p].digest, a)
    /\ last' = NoCommand
    /\ UNCHANGED <<nature, materialized>>

\* The source does not load or reproduce, or the verifier or the predicate
\* disagrees at the end (a steady one can only with the metadata).
ReduceRefused(p) ==
    /\ pc[p] = "reducing"
    /\ UNCHANGED said \/ \E a \in {"absent", "invalid"} : Answer(job[p].digest, a)
    /\ last' = NoCommand
    /\ UNCHANGED <<vars, nature, materialized>>

Publishing(p) ==
    /\ Publish(p) \/ Stop(p)
    /\ last' = NoCommand
    /\ UNCHANGED <<nature, said, materialized>>

-------------------------------------------------------------------------------
(* The commands on an artifact, with what main makes of a return value or an *)
(* exception.                                                                *)

\* A mutant of SpecOf: the separator is left in.
SpecWithSeparator(given) == given

SpecOf(given) == IF given = "-- own" THEN "own" ELSE given
Loads(d, given) == artifact[d] = "whole" /\ SpecOf(given) # "of no trials"

\* Bound: a command runs while no invocation writes.  It reads the artifact at one
\* moment, and would see the same if the active ones had stopped there.
Ends(command, d, given, code) ==
    /\ Active = {}
    /\ last' = [command |-> command, artifact |-> d, given |-> given, code |-> code]
    /\ UNCHANGED <<vars, nature>>

VerifyCode == [minimal |-> 0, larger |-> 1, absent |-> 2, invalid |-> 2]
ReproduceCode == [minimal |-> 0, larger |-> 0, absent |-> 1, invalid |-> 2]

\* A mutant of Verify: any predicate will do.
VerifyAny(d, given) ==
    /\ \/ /\ Loads(d, given)
          /\ \E a \in Answers :
                Answer(d, a) /\ Ends("verify-minimal", d, given, VerifyCode[a])
       \/ ~Loads(d, given) /\ Ends("verify-minimal", d, given, 2) /\ UNCHANGED said
    /\ UNCHANGED materialized

\* Only the recorded predicate is asked; a baseline that does not reproduce raises.
Verify(d, given) ==
    LET asked == Loads(d, given) /\ SpecOf(given) = "own"
    IN /\ \/ /\ asked
             /\ \E a \in Answers :
                   Answer(d, a) /\ Ends("verify-minimal", d, given, VerifyCode[a])
          \/ ~asked /\ Ends("verify-minimal", d, given, 2) /\ UNCHANGED said
       /\ UNCHANGED materialized

\* Another predicate may say anything.
ReproducePredicate(d, given) ==
    /\ \/ /\ Loads(d, given) /\ SpecOf(given) = "own"
          /\ \E a \in Answers :
                Answer(d, a) /\ Ends("reproduce-predicate", d, given, ReproduceCode[a])
       \/ /\ Loads(d, given) /\ SpecOf(given) # "own"
          /\ \E code \in 0..2 : Ends("reproduce-predicate", d, given, code)
          /\ UNCHANGED said
       \/ ~Loads(d, given) /\ Ends("reproduce-predicate", d, given, 2) /\ UNCHANGED said
    /\ UNCHANGED materialized

\* To the standard output, or to a file that must not exist.
Materialize(d, toFile) ==
    LET refused == artifact[d] # "whole" \/ (toFile /\ materialized # NoValue)
    IN /\ Ends("materialize", d, "own", IF refused THEN 2 ELSE 0)
       /\ materialized' = IF toFile /\ ~refused THEN d ELSE materialized
       /\ UNCHANGED said

-------------------------------------------------------------------------------
CommandInit ==
    /\ Init
    /\ nature \in Natures
    /\ said = [d \in Digest |-> NoValue]
    /\ materialized = NoValue
    /\ last = NoCommand

CommandNext ==
    \/ \E p \in Process : Reduce(p) \/ ReduceRefused(p) \/ Publishing(p)
    \/ \E d \in Digest :
          \/ \E given \in Options : Verify(d, given) \/ ReproducePredicate(d, given)
          \/ \E toFile \in BOOLEAN : Materialize(d, toFile)

CommandSpec == CommandInit /\ [][CommandNext]_<<vars, commandVars>>

-------------------------------------------------------------------------------
\* What reduce has published keeps what reduce has found: asked again with the
\* recorded predicate, verify-minimal and reproduce-predicate agree, if the
\* predicate is steady and does not look at the metadata; if it does, it still
\* reproduces, but the artifact may no longer be found minimal.  Nothing is said
\* of a file that is cut short, nor verified with another predicate.
PublishedVerifies ==
    last # NoCommand =>
        /\ last.code # 2 => artifact[last.artifact] = "whole"
        /\ last.command = "verify-minimal" /\ last.given = "other" => last.code = 2
        /\ /\ \E p \in Process : pc[p] = "done" /\ job[p].digest = last.artifact
           /\ last.given \in {"own", "-- own"}
           /\ last.command # "materialize"
           => /\ nature = "blind" => last.code = 0
              /\ nature = "steady" =>
                    last.code \in IF last.command = "verify-minimal" THEN {0, 1} ELSE {0}
===============================================================================
