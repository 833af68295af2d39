---------------------------- MODULE CommandsProofs ----------------------------
(***************************************************************************)
(* Publication is right for any number of invocations, capsules and        *)
(* outputs, and the commands keep what it promises and what reduce found.  *)
(*                                                                         *)
(* What an invocation has found or written it relies on later, when others *)
(* have moved: Relies says what that is at each of its labels, and nobody  *)
(* else can undo it because a file is opened only when it is absent and    *)
(* changed only by its one writer.  Alone says the same of an undisturbed  *)
(* invocation, which can also rely on what it has not looked at yet.       *)
(*                                                                         *)
(* The second half is about capture, for any number of traces and spans:   *)
(* what is captured is this capture's own, the file shows all that the     *)
(* traced process was told, and what is completed is a valid capsule with  *)
(* every declared file.                                                    *)
(***************************************************************************)
EXTENDS Commands, CaptureCommand, SequenceTheorems, FiniteSetTheorems, WellFoundedInduction, TLAPS

Own(p) == [state |-> "whole", output |-> job[p].output]
OwnPartial(p) == [state |-> "partial", output |-> job[p].output]

Relies(p) ==
    LET d == job[p].digest
    IN /\ pc[p] = "write artifact" => artifact[d] = "partial"
       /\ pc[p] \in {"report", "open report", "write report", "done"} => artifact[d] = "whole"
       /\ pc[p] = "write report" => report[d] = OwnPartial(p)
       /\ pc[p] = "done" => report[d] = Own(p)

IInv ==
    /\ TypeOK
    /\ OneWriter
    /\ ReportsHaveArtifacts
    /\ \A p \in Process : Relies(p)

\* Of an invocation that has begun and is undisturbed.
Alone(p) ==
    LET d == job[p].digest
    IN /\ \A q \in Active : q = p
       /\ pc[p] = "mkdir" => ~directory
       /\ pc[p] \in {"mkdir", "artifact"} => artifact[d] # "partial"
       /\ pc[p] = "open artifact" => artifact[d] = "absent"
       /\ pc[p] \in {"mkdir", "artifact", "open artifact", "write artifact", "report"}
             => report[d] \in {NoReport, Own(p)}
       /\ pc[p] = "open report" => report[d] = NoReport

Undisturbed ==
    /\ \A p \in Active \ disturbed : Alone(p)
    /\ UndisturbedSucceeds

-------------------------------------------------------------------------------
\* The states of a report are told apart by one field.
LEMMA ReportsDiffer ==
    \A p, q \in Process : /\ Own(p) # NoReport
                          /\ OwnPartial(p) # NoReport
                          /\ Own(p) # OwnPartial(q)
<1>1. ASSUME NEW p \in Process, NEW q \in Process
      PROVE  Own(p) # NoReport /\ OwnPartial(p) # NoReport /\ Own(p) # OwnPartial(q)
  <2>1. /\ Own(p).state = "whole"
        /\ OwnPartial(p).state = "partial"
        /\ OwnPartial(q).state = "partial"
        /\ NoReport.state = "absent"
    BY DEF Own, OwnPartial, NoReport
  <2>2. QED
    BY <2>1
<1>2. QED
  BY <1>1

LEMMA InitInv == Init => IInv
  BY DEF Init, IInv, TypeOK, OneWriter, ReportsHaveArtifacts, Relies, NoReport, Labels

LEMMA NextInv == IInv /\ [Next]_vars => IInv'
<1> SUFFICES ASSUME IInv, [Next]_vars PROVE IInv'
  OBVIOUS
<1>0. TypeOK /\ OneWriter /\ ReportsHaveArtifacts /\ \A p \in Process : Relies(p)
  BY DEF IInv
<1>j. \A p \in Process : job[p].digest \in Digest /\ job[p].output \in Output
  BY <1>0 DEF TypeOK
<1>1. ASSUME NEW p \in Process, Begin(p) PROVE IInv'
  <2>1. TypeOK'
    BY <1>0, <1>j, <1>1 DEF Begin, Active, TypeOK, Goto, Labels, NoReport
  <2>2. OneWriter'
    BY <1>0, <1>j, <1>1 DEF Begin, Active, TypeOK, Goto, OneWriter, Relies, OwnPartial, NoReport
  <2>3. ReportsHaveArtifacts'
    BY <1>0, <1>j, <1>1 DEF Begin, Active, TypeOK, Goto, ReportsHaveArtifacts, Relies, OwnPartial, NoReport
  <2>4. ASSUME NEW q \in Process PROVE Relies(q)'
    BY <1>0, <1>j, <1>1, <2>4 DEF Begin, TypeOK, Goto, Relies,
       Own, OwnPartial
  <2>5. QED
    BY <2>1, <2>2, <2>3, <2>4 DEF IInv
<1>2. ASSUME NEW p \in Process, MakeDirectory(p) PROVE IInv'
  <2>1. TypeOK'
    BY <1>0, <1>j, <1>2 DEF MakeDirectory, TypeOK, Goto, Labels, NoReport
  <2>2. OneWriter'
    BY <1>0, <1>j, <1>2 DEF MakeDirectory, TypeOK, Goto, OneWriter, Relies, OwnPartial, NoReport
  <2>3. ReportsHaveArtifacts'
    BY <1>0, <1>j, <1>2 DEF MakeDirectory, TypeOK, Goto, ReportsHaveArtifacts, Relies, OwnPartial, NoReport
  <2>4. ASSUME NEW q \in Process PROVE Relies(q)'
    BY <1>0, <1>j, <1>2, <2>4 DEF MakeDirectory, TypeOK, Goto, Relies,
       Own, OwnPartial
  <2>5. QED
    BY <2>1, <2>2, <2>3, <2>4 DEF IInv
<1>3. ASSUME NEW p \in Process, LookForArtifact(p) PROVE IInv'
  <2>1. TypeOK'
    BY <1>0, <1>j, <1>3 DEF LookForArtifact, Found, TypeOK, Goto, Labels, NoReport
  <2>2. OneWriter'
    BY ZenonT(60), <1>0, <1>j, <1>3 DEF LookForArtifact, Found, TypeOK, Goto, OneWriter, Relies, OwnPartial, NoReport
  <2>3. ReportsHaveArtifacts'
    BY <1>0, <1>j, <1>3 DEF LookForArtifact, Found, TypeOK, Goto, ReportsHaveArtifacts, Relies, OwnPartial, NoReport
  <2>4. ASSUME NEW q \in Process PROVE Relies(q)'
    BY <1>0, <1>j, <1>3, <2>4 DEF LookForArtifact, Found, TypeOK, Goto, Relies,
       Own, OwnPartial
  <2>5. QED
    BY <2>1, <2>2, <2>3, <2>4 DEF IInv
<1>4. ASSUME NEW p \in Process, OpenArtifact(p) PROVE IInv'
  <2> DEFINE d == job[p].digest
  <2>1. CASE artifact[d] = "absent"
    <3>1. /\ artifact' = [artifact EXCEPT ![d] = "partial"]
          /\ pc' = [pc EXCEPT ![p] = "write artifact"]
          /\ UNCHANGED <<directory, report, job, disturbed>>
      BY <1>4, <2>1 DEF OpenArtifact, Goto
    <3>2. TypeOK'
      BY <1>0, <1>j, <3>1 DEF TypeOK, Labels
    <3>3. \A q \in Process : pc[q] = "write artifact" => job[q].digest # d
      BY <1>0, <1>j, <2>1 DEF Relies, OwnPartial, NoReport, TypeOK
    <3>4. OneWriter'
      BY <1>0, <3>1, <3>3 DEF TypeOK, OneWriter
    <3>5. ReportsHaveArtifacts'
      BY <1>0, <1>j, <1>4, <2>1, <3>1 DEF OpenArtifact, TypeOK, ReportsHaveArtifacts, Relies, NoReport
    <3>6. ASSUME NEW q \in Process PROVE Relies(q)'
      <4>1. CASE q = p
        BY <1>0, <1>j, <1>4, <3>1, <4>1 DEF OpenArtifact, TypeOK, Relies, OwnPartial
      <4>2. CASE q # p
        BY <1>0, <1>j, <2>1, <3>1, <3>3, <4>2 DEF TypeOK, Relies, Own, OwnPartial
      <4>3. QED
        BY <4>1, <4>2
    <3>7. QED
      BY <3>2, <3>4, <3>5, <3>6 DEF IInv
  <2>2. CASE ~(artifact[d] = "absent")
    <3>1. pc' = [pc EXCEPT ![p] = "failed"] /\ UNCHANGED <<directory, artifact, report, job, disturbed>>
      BY <1>4, <2>2 DEF OpenArtifact, Goto
    <3>2. TypeOK' /\ OneWriter' /\ ReportsHaveArtifacts'
      BY <1>0, <3>1 DEF TypeOK, OneWriter, ReportsHaveArtifacts, Labels
    <3>3. ASSUME NEW q \in Process PROVE Relies(q)'
      BY <1>0, <3>1 DEF TypeOK, Relies, Own, OwnPartial
    <3>4. QED
      BY <3>2, <3>3 DEF IInv
  <2>3. QED
    BY <2>1, <2>2
<1>5. ASSUME NEW p \in Process, WriteArtifact(p) PROVE IInv'
  <2>1. TypeOK'
    BY <1>0, <1>j, <1>5 DEF WriteArtifact, TypeOK, Goto, Labels, NoReport
  <2>2. OneWriter'
    BY <1>0, <1>j, <1>5 DEF WriteArtifact, TypeOK, Goto, OneWriter, Relies, OwnPartial, NoReport
  <2>3. ReportsHaveArtifacts'
    BY <1>0, <1>j, <1>5 DEF WriteArtifact, TypeOK, Goto, ReportsHaveArtifacts, Relies, OwnPartial, NoReport
  <2>4. ASSUME NEW q \in Process PROVE Relies(q)'
    <3>1. CASE q = p
      BY <1>0, <1>j, <1>5, <3>1 DEF WriteArtifact, Goto, TypeOK, Relies
    <3>2. CASE q # p /\ job[q].digest = job[p].digest
      <4>1. pc[q] # "write artifact"
        BY <1>0, <1>5, <3>2 DEF WriteArtifact, OneWriter
      <4>2. QED
        BY <1>0, <1>j, <1>5, <3>2, <4>1 DEF WriteArtifact, Goto, TypeOK, Relies, Own, OwnPartial
    <3>3. CASE q # p /\ job[q].digest # job[p].digest
      BY <1>0, <1>j, <1>5, <3>3 DEF WriteArtifact, Goto, TypeOK, Relies, Own, OwnPartial
    <3>4. QED
      BY <3>1, <3>2, <3>3
  <2>5. QED
    BY <2>1, <2>2, <2>3, <2>4 DEF IInv
<1>6. ASSUME NEW p \in Process, LookForReport(p) PROVE IInv'
  <2>1. TypeOK'
    BY <1>0, <1>j, <1>6 DEF LookForReport, Agrees, TypeOK, Goto, Labels, NoReport
  <2>2. OneWriter'
    BY <1>0, <1>j, <1>6 DEF LookForReport, Agrees, TypeOK, Goto, OneWriter, Relies, OwnPartial, NoReport
  <2>3. ReportsHaveArtifacts'
    BY <1>0, <1>j, <1>6 DEF LookForReport, Agrees, TypeOK, Goto, ReportsHaveArtifacts, Relies, OwnPartial, NoReport
  <2>4. ASSUME NEW q \in Process PROVE Relies(q)'
    BY <1>0, <1>j, <1>6, <2>4 DEF LookForReport, Agrees, TypeOK, Goto, Relies,
       Own, OwnPartial
  <2>5. QED
    BY <2>1, <2>2, <2>3, <2>4 DEF IInv
<1>7. ASSUME NEW p \in Process, OpenReport(p) PROVE IInv'
  <2> DEFINE d == job[p].digest
  <2>1. CASE report[d] = NoReport
    <3>1. /\ report' = [report EXCEPT ![d] = OwnPartial(p)]
          /\ pc' = [pc EXCEPT ![p] = "write report"]
          /\ UNCHANGED <<directory, artifact, job, disturbed>>
      BY <1>7, <2>1 DEF OpenReport, OwnPartial, Goto
    <3>2. TypeOK'
      <4>1. OwnPartial(p) \in [state : {"partial", "whole"}, output : Output]
        BY <1>j DEF OwnPartial
      <4>2. QED
        BY <1>0, <1>j, <3>1, <4>1 DEF TypeOK, Labels
    <3>3. \A q \in Process : pc[q] \in {"write report", "done"} => job[q].digest # d
      BY <1>0, <2>1, ReportsDiffer DEF Relies
    <3>4. OneWriter'
      BY <1>0, <3>1, <3>3 DEF TypeOK, OneWriter
    <3>5. ReportsHaveArtifacts'
      BY <1>0, <1>j, <1>7, <2>1, <3>1 DEF OpenReport, TypeOK, ReportsHaveArtifacts, Relies, NoReport
    <3>6. ASSUME NEW q \in Process PROVE Relies(q)'
      <4>1. CASE q = p
        BY <1>0, <1>j, <1>7, <3>1, <4>1 DEF OpenReport, TypeOK, Relies, OwnPartial
      <4>2. CASE q # p
        BY <1>0, <1>j, <2>1, <3>1, <3>3, <4>2 DEF TypeOK, Relies, Own, OwnPartial
      <4>3. QED
        BY <4>1, <4>2
    <3>7. QED
      BY <3>2, <3>4, <3>5, <3>6 DEF IInv
  <2>2. CASE ~(report[d] = NoReport)
    <3>1. pc' = [pc EXCEPT ![p] = "failed"] /\ UNCHANGED <<directory, artifact, report, job, disturbed>>
      BY <1>7, <2>2 DEF OpenReport, OwnPartial, Goto
    <3>2. TypeOK' /\ OneWriter' /\ ReportsHaveArtifacts'
      BY <1>0, <3>1 DEF TypeOK, OneWriter, ReportsHaveArtifacts, Labels
    <3>3. ASSUME NEW q \in Process PROVE Relies(q)'
      BY <1>0, <3>1 DEF TypeOK, Relies, Own, OwnPartial
    <3>4. QED
      BY <3>2, <3>3 DEF IInv
  <2>3. QED
    BY <2>1, <2>2
<1>8. ASSUME NEW p \in Process, WriteReport(p) PROVE IInv'
  <2>1. TypeOK'
    BY <1>0, <1>j, <1>8 DEF WriteReport, TypeOK, Goto, Labels, NoReport
  <2>2. OneWriter'
    BY <1>0, <1>j, <1>8 DEF WriteReport, TypeOK, Goto, OneWriter, Relies, OwnPartial, NoReport
  <2>3. ReportsHaveArtifacts'
    BY <1>0, <1>j, <1>8 DEF WriteReport, TypeOK, Goto, ReportsHaveArtifacts, Relies, OwnPartial, NoReport
  <2>4. ASSUME NEW q \in Process PROVE Relies(q)'
    <3>1. CASE q = p
      BY <1>0, <1>j, <1>8, <3>1 DEF WriteReport, Goto, TypeOK, Relies, Own
    <3>2. CASE q # p /\ job[q].digest = job[p].digest
      <4>1. pc[q] \notin {"write report", "done"}
        BY ZenonT(60), <1>0, <1>8, <3>2, ReportsDiffer DEF WriteReport, OneWriter, Relies
      <4>2. QED
        BY <1>0, <1>j, <1>8, <3>2, <4>1 DEF WriteReport, Goto, TypeOK, Relies
    <3>3. CASE q # p /\ job[q].digest # job[p].digest
      BY <1>0, <1>j, <1>8, <3>3 DEF WriteReport, Goto, TypeOK, Relies, Own, OwnPartial
    <3>4. QED
      BY <3>1, <3>2, <3>3
  <2>5. QED
    BY <2>1, <2>2, <2>3, <2>4 DEF IInv
<1>9. ASSUME NEW p \in Process, Stop(p) PROVE IInv'
  <2>1. TypeOK'
    BY <1>0, <1>j, <1>9 DEF Stop, Active, TypeOK, Goto, Labels, NoReport
  <2>2. OneWriter'
    BY <1>0, <1>j, <1>9 DEF Stop, Active, TypeOK, Goto, OneWriter, Relies, OwnPartial, NoReport
  <2>3. ReportsHaveArtifacts'
    BY <1>0, <1>j, <1>9 DEF Stop, Active, TypeOK, Goto, ReportsHaveArtifacts, Relies, OwnPartial, NoReport
  <2>4. ASSUME NEW q \in Process PROVE Relies(q)'
    BY <1>0, <1>j, <1>9, <2>4 DEF Stop, Active, TypeOK, Goto, Relies,
       Own, OwnPartial
  <2>5. QED
    BY <2>1, <2>2, <2>3, <2>4 DEF IInv
<1>10. CASE UNCHANGED vars
  BY ZenonT(60), <1>0, <1>j, <1>10 DEF vars, IInv, TypeOK, OneWriter, ReportsHaveArtifacts, Relies,
     Own, OwnPartial
<1>11. QED
  BY <1>1, <1>2, <1>3, <1>4, <1>5, <1>6, <1>7, <1>8, <1>9, <1>10 DEF Next, Publish

LEMMA Invariance == Spec => []IInv
<1>1. QED
  BY InitInv, NextInv, PTL DEF Spec

\* The files, the reports and the invocations keep their types.
THEOREM PublicationTypes == Spec => []TypeOK
<1>1. IInv => TypeOK
  BY DEF IInv
<1>2. QED
  BY <1>1, Invariance, PTL

\* An invocation of the reduce command that succeeds has published its whole
\* capsule and its report, whatever other invocations do or fail to do.
THEOREM SuccessIsPublished == Spec => []DoneIsPublished
<1>1. IInv => DoneIsPublished
  BY DEF IInv, Relies, Own, DoneIsPublished
<1>2. QED
  BY <1>1, Invariance, PTL

\* No report without its capsule, and no file with two writers.
THEOREM FilesAreOrdered == Spec => [](ReportsHaveArtifacts /\ OneWriter)
<1>1. IInv => ReportsHaveArtifacts /\ OneWriter
  BY DEF IInv
<1>2. QED
  BY <1>1, Invariance, PTL

LEMMA InitUndisturbed == Init => Undisturbed
  BY DEF Init, Undisturbed, UndisturbedSucceeds, Active

\* An undisturbed invocation is alone as long as it is active; a step of
\* another is the beginning of that one, which disturbs it.
LEMMA NextUndisturbed == IInv /\ Undisturbed /\ [Next]_vars => Undisturbed'
<1> SUFFICES ASSUME IInv, Undisturbed, [Next]_vars PROVE Undisturbed'
  OBVIOUS
<1>0. TypeOK /\ (\A p \in Process : Relies(p))
  BY DEF IInv
<1>j. \A p \in Process : job[p].digest \in Digest /\ job[p].output \in Output
  BY <1>0 DEF TypeOK
<1>u. UndisturbedSucceeds /\ \A p \in Active \ disturbed : Alone(p)
  BY DEF Undisturbed
<1>1. ASSUME NEW p \in Process, Begin(p) PROVE Undisturbed'
  <2>1. UndisturbedSucceeds'
    BY <1>0, <1>u, <1>1 DEF Begin, Goto, TypeOK, UndisturbedSucceeds
  <2>2. ASSUME NEW q \in Active' \ disturbed' PROVE Alone(q)'
    <3>1. q = p /\ Active = {} /\ ~Leftovers(p)
      BY <1>0, <1>1, <2>2 DEF Begin, Goto, TypeOK, Active
    <3>2. Active' = {p}
      BY <1>0, <1>1, <3>1 DEF Begin, Goto, TypeOK, Active
    <3>3. QED
      BY <1>0, <1>1, <3>1, <3>2 DEF Begin, Goto, TypeOK, Leftovers, Alone, Own
  <2>3. QED
    BY <2>1, <2>2 DEF Undisturbed
<1>2. ASSUME NEW p \in Process, MakeDirectory(p) PROVE Undisturbed'
  <2>1. p \in Active /\ Active' \subseteq Active /\ UNCHANGED <<disturbed, job>>
    BY <1>0, <1>2 DEF MakeDirectory, Goto, TypeOK, Active
  <2>2. UndisturbedSucceeds'
    <3>1. ASSUME p \notin disturbed PROVE pc'[p] # "failed"
      <4>1. Alone(p)
        BY <1>u, <2>1, <3>1
      <4>2. QED
        BY <1>0, <1>j, <1>2, <4>1 DEF MakeDirectory, Goto, TypeOK, Alone, Relies, Own
    <3>2. \A q \in Process : q # p => pc'[q] = pc[q]
      BY <1>0, <1>2 DEF MakeDirectory, Goto, TypeOK
    <3>3. QED
      BY <1>u, <2>1, <3>1, <3>2 DEF UndisturbedSucceeds
  <2>3. ASSUME NEW q \in Active' \ disturbed' PROVE Alone(q)'
    <3>1. q = p /\ Alone(p)
      BY <1>u, <2>1, <2>3 DEF Alone
    <3>2. QED
      BY <1>0, <1>j, <1>2, <2>1, <3>1 DEF MakeDirectory, Goto, TypeOK, Alone, Relies, Own
  <2>4. QED
    BY <2>2, <2>3 DEF Undisturbed
<1>3. ASSUME NEW p \in Process, LookForArtifact(p) PROVE Undisturbed'
  <2>1. p \in Active /\ Active' \subseteq Active /\ UNCHANGED <<disturbed, job>>
    BY <1>0, <1>3 DEF LookForArtifact, Found, Goto, TypeOK, Active
  <2>2. UndisturbedSucceeds'
    <3>1. ASSUME p \notin disturbed PROVE pc'[p] # "failed"
      <4>1. Alone(p)
        BY <1>u, <2>1, <3>1
      <4>2. QED
        BY <1>0, <1>j, <1>3, <4>1 DEF LookForArtifact, Found, Goto, TypeOK, Alone, Relies, Own
    <3>2. \A q \in Process : q # p => pc'[q] = pc[q]
      BY <1>0, <1>3 DEF LookForArtifact, Found, Goto, TypeOK
    <3>3. QED
      BY <1>u, <2>1, <3>1, <3>2 DEF UndisturbedSucceeds
  <2>3. ASSUME NEW q \in Active' \ disturbed' PROVE Alone(q)'
    <3>1. q = p /\ Alone(p)
      BY <1>u, <2>1, <2>3 DEF Alone
    <3>2. QED
      BY <1>0, <1>j, <1>3, <2>1, <3>1 DEF LookForArtifact, Found, Goto, TypeOK, Alone, Relies, Own
  <2>4. QED
    BY <2>2, <2>3 DEF Undisturbed
<1>4. ASSUME NEW p \in Process, OpenArtifact(p) PROVE Undisturbed'
  <2>1. p \in Active /\ Active' \subseteq Active /\ UNCHANGED <<disturbed, job>>
    BY <1>0, <1>4 DEF OpenArtifact, Goto, TypeOK, Active
  <2>2. UndisturbedSucceeds'
    <3>1. ASSUME p \notin disturbed PROVE pc'[p] # "failed"
      <4>1. Alone(p)
        BY <1>u, <2>1, <3>1
      <4>2. QED
        BY <1>0, <1>j, <1>4, <4>1 DEF OpenArtifact, Goto, TypeOK, Alone, Relies, Own
    <3>2. \A q \in Process : q # p => pc'[q] = pc[q]
      BY <1>0, <1>4 DEF OpenArtifact, Goto, TypeOK
    <3>3. QED
      BY <1>u, <2>1, <3>1, <3>2 DEF UndisturbedSucceeds
  <2>3. ASSUME NEW q \in Active' \ disturbed' PROVE Alone(q)'
    <3>1. q = p /\ Alone(p)
      BY <1>u, <2>1, <2>3 DEF Alone
    <3>2. QED
      BY <1>0, <1>j, <1>4, <2>1, <3>1 DEF OpenArtifact, Goto, TypeOK, Alone, Relies, Own
  <2>4. QED
    BY <2>2, <2>3 DEF Undisturbed
<1>5. ASSUME NEW p \in Process, WriteArtifact(p) PROVE Undisturbed'
  <2>1. p \in Active /\ Active' \subseteq Active /\ UNCHANGED <<disturbed, job>>
    BY <1>0, <1>5 DEF WriteArtifact, Goto, TypeOK, Active
  <2>2. UndisturbedSucceeds'
    <3>1. ASSUME p \notin disturbed PROVE pc'[p] # "failed"
      <4>1. Alone(p)
        BY <1>u, <2>1, <3>1
      <4>2. QED
        BY <1>0, <1>j, <1>5, <4>1 DEF WriteArtifact, Goto, TypeOK, Alone, Relies, Own
    <3>2. \A q \in Process : q # p => pc'[q] = pc[q]
      BY <1>0, <1>5 DEF WriteArtifact, Goto, TypeOK
    <3>3. QED
      BY <1>u, <2>1, <3>1, <3>2 DEF UndisturbedSucceeds
  <2>3. ASSUME NEW q \in Active' \ disturbed' PROVE Alone(q)'
    <3>1. q = p /\ Alone(p)
      BY <1>u, <2>1, <2>3 DEF Alone
    <3>2. QED
      BY <1>0, <1>j, <1>5, <2>1, <3>1 DEF WriteArtifact, Goto, TypeOK, Alone, Relies, Own
  <2>4. QED
    BY <2>2, <2>3 DEF Undisturbed
<1>6. ASSUME NEW p \in Process, LookForReport(p) PROVE Undisturbed'
  <2>1. p \in Active /\ Active' \subseteq Active /\ UNCHANGED <<disturbed, job>>
    BY <1>0, <1>6 DEF LookForReport, Agrees, Goto, TypeOK, Active
  <2>2. UndisturbedSucceeds'
    <3>1. ASSUME p \notin disturbed PROVE pc'[p] # "failed"
      <4>1. Alone(p)
        BY <1>u, <2>1, <3>1
      <4>2. QED
        BY <1>0, <1>j, <1>6, <4>1 DEF LookForReport, Agrees, Goto, TypeOK, Alone, Relies, Own
    <3>2. \A q \in Process : q # p => pc'[q] = pc[q]
      BY <1>0, <1>6 DEF LookForReport, Agrees, Goto, TypeOK
    <3>3. QED
      BY <1>u, <2>1, <3>1, <3>2 DEF UndisturbedSucceeds
  <2>3. ASSUME NEW q \in Active' \ disturbed' PROVE Alone(q)'
    <3>1. q = p /\ Alone(p)
      BY <1>u, <2>1, <2>3 DEF Alone
    <3>2. QED
      BY <1>0, <1>j, <1>6, <2>1, <3>1 DEF LookForReport, Agrees, Goto, TypeOK, Alone, Relies, Own
  <2>4. QED
    BY <2>2, <2>3 DEF Undisturbed
<1>7. ASSUME NEW p \in Process, OpenReport(p) PROVE Undisturbed'
  <2>1. p \in Active /\ Active' \subseteq Active /\ UNCHANGED <<disturbed, job>>
    BY <1>0, <1>7 DEF OpenReport, Goto, TypeOK, Active
  <2>2. UndisturbedSucceeds'
    <3>1. ASSUME p \notin disturbed PROVE pc'[p] # "failed"
      <4>1. Alone(p)
        BY <1>u, <2>1, <3>1
      <4>2. QED
        BY <1>0, <1>j, <1>7, <4>1 DEF OpenReport, Goto, TypeOK, Alone, Relies, Own
    <3>2. \A q \in Process : q # p => pc'[q] = pc[q]
      BY <1>0, <1>7 DEF OpenReport, Goto, TypeOK
    <3>3. QED
      BY <1>u, <2>1, <3>1, <3>2 DEF UndisturbedSucceeds
  <2>3. ASSUME NEW q \in Active' \ disturbed' PROVE Alone(q)'
    <3>1. q = p /\ Alone(p)
      BY <1>u, <2>1, <2>3 DEF Alone
    <3>2. QED
      BY <1>0, <1>j, <1>7, <2>1, <3>1 DEF OpenReport, Goto, TypeOK, Alone, Relies, Own
  <2>4. QED
    BY <2>2, <2>3 DEF Undisturbed
<1>8. ASSUME NEW p \in Process, WriteReport(p) PROVE Undisturbed'
  <2>1. p \in Active /\ Active' \subseteq Active /\ UNCHANGED <<disturbed, job>>
    BY <1>0, <1>8 DEF WriteReport, Goto, TypeOK, Active
  <2>2. UndisturbedSucceeds'
    <3>1. ASSUME p \notin disturbed PROVE pc'[p] # "failed"
      <4>1. Alone(p)
        BY <1>u, <2>1, <3>1
      <4>2. QED
        BY <1>0, <1>j, <1>8, <4>1 DEF WriteReport, Goto, TypeOK, Alone, Relies, Own
    <3>2. \A q \in Process : q # p => pc'[q] = pc[q]
      BY <1>0, <1>8 DEF WriteReport, Goto, TypeOK
    <3>3. QED
      BY <1>u, <2>1, <3>1, <3>2 DEF UndisturbedSucceeds
  <2>3. ASSUME NEW q \in Active' \ disturbed' PROVE Alone(q)'
    <3>1. q = p /\ Alone(p)
      BY <1>u, <2>1, <2>3 DEF Alone
    <3>2. QED
      BY <1>0, <1>j, <1>8, <2>1, <3>1 DEF WriteReport, Goto, TypeOK, Alone, Relies, Own
  <2>4. QED
    BY <2>2, <2>3 DEF Undisturbed
<1>9. ASSUME NEW p \in Process, Stop(p) PROVE Undisturbed'
  <2>1. Active' \subseteq Active /\ p \notin Active' /\ p \in Active
    BY <1>0, <1>9 DEF Stop, Goto, TypeOK, Active
  <2>2. UndisturbedSucceeds'
    BY <1>0, <1>u, <1>9 DEF Stop, Goto, TypeOK, UndisturbedSucceeds
  <2>3. Active' \ disturbed' = {}
    BY <1>u, <1>9, <2>1 DEF Stop, Alone
  <2>4. QED
    BY <2>2, <2>3 DEF Undisturbed
<1>10. CASE UNCHANGED vars
  <2>1. Active' = Active
    BY <1>10 DEF vars, Active
  <2>2. UndisturbedSucceeds'
    BY <1>u, <1>10 DEF vars, UndisturbedSucceeds
  <2>3. ASSUME NEW q \in Active' \ disturbed' PROVE Alone(q)'
    BY <1>u, <1>10, <2>1 DEF vars, Alone, Own
  <2>4. QED
    BY <2>2, <2>3 DEF Undisturbed
<1>11. QED
  BY <1>1, <1>2, <1>3, <1>4, <1>5, <1>6, <1>7, <1>8, <1>9, <1>10 DEF Next, Publish

\* An invocation of the reduce command fails at publication only if another one
\* was on its way in the directory at the same time, or one that stopped, or
\* whose predicate printed something else, has left files of the same digest.
THEOREM OnlyTheDisturbedFail == Spec => []UndisturbedSucceeds
<1>1. Undisturbed => UndisturbedSucceeds
  BY DEF Undisturbed
<1>2. QED
  BY <1>1, Invariance, InitUndisturbed, NextUndisturbed, PTL DEF Spec

-------------------------------------------------------------------------------
(* Every step of Commands is one of Publication or leaves it alone.          *)

\* Each command on an artifact leaves Publication's state and the nature alone.
LEMMA CommandsOnlyLook ==
    ASSUME NEW d \in Digest,
           \/ \E given \in Options : Verify(d, given) \/ ReproducePredicate(d, given)
           \/ \E toFile \in BOOLEAN : Materialize(d, toFile)
    PROVE  UNCHANGED <<vars, nature>>
<1>1. ASSUME NEW given \in Options, Verify(d, given) PROVE UNCHANGED <<vars, nature>>
  BY <1>1 DEF Verify, Ends
<1>2. ASSUME NEW given \in Options, ReproducePredicate(d, given)
      PROVE  UNCHANGED <<vars, nature>>
  BY <1>2 DEF ReproducePredicate, Ends
<1>3. ASSUME NEW toFile \in BOOLEAN, Materialize(d, toFile) PROVE UNCHANGED <<vars, nature>>
  BY <1>3 DEF Materialize, Ends
<1>4. QED
  BY <1>1, <1>2, <1>3

LEMMA CommandStep == [CommandNext]_<<vars, commandVars>> => [Next]_vars
<1> SUFFICES ASSUME [CommandNext]_<<vars, commandVars>> PROVE [Next]_vars
  OBVIOUS
<1>1. ASSUME NEW p \in Process, Reduce(p) PROVE Next
  BY <1>1 DEF Reduce, Next
<1>2. ASSUME NEW p \in Process, ReduceRefused(p) PROVE UNCHANGED vars
  BY <1>2 DEF ReduceRefused
<1>3. ASSUME NEW p \in Process, Publishing(p) PROVE Next
  BY <1>3 DEF Publishing, Next
<1>4. ASSUME UNCHANGED <<vars, commandVars>> PROVE UNCHANGED vars
  BY <1>4
<1>5. QED
  BY <1>1, <1>2, <1>3, <1>4, CommandsOnlyLook DEF CommandNext

\* The reduction before and the commands afterwards change nothing about how an
\* artifact and its report are published.
THEOREM CommandsPublish == CommandSpec => Spec
<1>1. CommandInit => Init
  BY DEF CommandInit
<1>2. QED
  BY <1>1, CommandStep, PTL DEF CommandSpec, Spec

\* Whatever command runs when, success means whole files, and an artifact is
\* whole before its report begins.
THEOREM PublicationIsInOrder == CommandSpec => []PublishedInOrder
<1>1. DoneIsPublished /\ ReportsHaveArtifacts /\ OneWriter => PublishedInOrder
  BY DEF PublishedInOrder
<1>2. QED
  BY <1>1, CommandsPublish, SuccessIsPublished, FilesAreOrdered, PTL

-------------------------------------------------------------------------------
(* What reduce has found is found again.                                     *)

\* An invocation that went on to publish has had a reproducing answer.
Reproduced == \A p \in Process :
    nature = "steady" /\ pc[p] # "reducing" => said[job[p].digest] \in {"minimal", "larger"}

Answered ==
    /\ TypeOK
    /\ nature \in Natures
    /\ said \in [Digest -> Answers \union {NoValue}]
    /\ Reproduced

CommandInv == Answered /\ PublishedVerifies

LEMMA InitCommandInv == CommandInit => CommandInv
  BY DEF CommandInit, CommandInv, Answered, Reproduced, PublishedVerifies, Init, TypeOK,
         NoReport, NoCommand, Labels

\* An answer leaves what is said of other artifacts, and contradicts nothing.
LEMMA AnswersAgree ==
    ASSUME Answered, NEW d \in Digest, NEW a \in Answers, Answer(d, a), UNCHANGED nature
    PROVE  /\ said' \in [Digest -> Answers \union {NoValue}]
           /\ \A e \in Digest : said[e] # NoValue => said'[e] = said[e]
           /\ nature = "blind" => a = "minimal"
           /\ nature = "steady" => said'[d] = a /\ said[d] \in {NoValue, a}
  BY DEF Answered, Answer, Natures

\* Answers that agree with the earlier ones keep the strengthening.
LEMMA AnsweredStays ==
    ASSUME Answered, UNCHANGED <<vars, nature>>,
           said' \in [Digest -> Answers \union {NoValue}],
           \A e \in Digest : said[e] # NoValue => said'[e] = said[e]
    PROVE  Answered'
<1>1. TypeOK'
  BY DEF Answered, TypeOK, vars
<1>2. Reproduced'
  BY DEF Answered, Reproduced, TypeOK, vars, NoValue
<1>3. QED
  BY <1>1, <1>2 DEF Answered

\* One step leaves the strengthening true.
LEMMA NextAnswered ==
    ASSUME Answered, [CommandNext]_<<vars, commandVars>>, TypeOK'
    PROVE  Answered'
<1>1. ASSUME NEW p \in Process, Reduce(p) PROVE Answered'
  <2>1. PICK a \in {"minimal", "larger"} : Answer(job[p].digest, a)
    BY <1>1 DEF Reduce
  <2>2. job[p].digest \in Digest /\ UNCHANGED <<job, nature>>
    BY <1>1 DEF Reduce, Begin, Answered, TypeOK
  <2>3. \A q \in Process : q # p => pc'[q] = pc[q]
    BY <1>1 DEF Reduce, Begin, Goto, Answered, TypeOK
  <2>4. /\ said' \in [Digest -> Answers \union {NoValue}]
        /\ \A e \in Digest : said[e] # NoValue => said'[e] = said[e]
        /\ nature = "steady" => said'[job[p].digest] = a
    BY <2>1, <2>2, AnswersAgree DEF Answers
  <2>5. Reproduced'
    BY <2>1, <2>2, <2>3, <2>4 DEF Reproduced, Answered, TypeOK, NoValue
  <2>6. QED
    BY <2>2, <2>4, <2>5 DEF Answered
<1>2. ASSUME NEW p \in Process, ReduceRefused(p) PROVE Answered'
  <2>1. CASE UNCHANGED said
    BY <1>2, <2>1, AnsweredStays DEF ReduceRefused, Answered
  <2>2. CASE \E a \in {"absent", "invalid"} : Answer(job[p].digest, a)
    BY <1>2, <2>2, AnswersAgree, AnsweredStays DEF ReduceRefused, Answers, Answered, TypeOK
  <2>3. QED
    BY <1>2, <2>1, <2>2 DEF ReduceRefused
<1>3. ASSUME NEW p \in Process, Publishing(p) PROVE Answered'
  <2>1. UNCHANGED <<job, nature, said>> /\ pc[p] # "reducing"
    BY <1>3 DEF Publishing, Publish, Stop, MakeDirectory, LookForArtifact, OpenArtifact,
                WriteArtifact, LookForReport, OpenReport, WriteReport, Active
  <2>2. \A q \in Process : q # p => pc'[q] = pc[q]
    BY ZenonT(60), <1>3 DEF Publishing, Publish, Stop, MakeDirectory, LookForArtifact, OpenArtifact, Found,
                WriteArtifact, LookForReport, OpenReport, WriteReport, Goto, Answered, TypeOK
  <2>3. QED
    BY <2>1, <2>2 DEF Answered, Reproduced
<1>4. ASSUME NEW d \in Digest, NEW given \in Options, Verify(d, given) PROVE Answered'
  <2>1. UNCHANGED <<vars, nature>>
    BY <1>4, CommandsOnlyLook
  <2>2. UNCHANGED said \/ \E a \in Answers : Answer(d, a)
    BY <1>4 DEF Verify
  <2>3. QED
    BY <2>1, <2>2, AnswersAgree, AnsweredStays DEF Answered
<1>5. ASSUME NEW d \in Digest, NEW given \in Options, ReproducePredicate(d, given)
      PROVE  Answered'
  <2>1. UNCHANGED <<vars, nature>>
    BY <1>5, CommandsOnlyLook
  <2>2. UNCHANGED said \/ \E a \in Answers : Answer(d, a)
    BY <1>5 DEF ReproducePredicate
  <2>3. QED
    BY <2>1, <2>2, AnswersAgree, AnsweredStays DEF Answered
<1>6. ASSUME NEW d \in Digest, NEW toFile \in BOOLEAN, Materialize(d, toFile) PROVE Answered'
  <2>1. UNCHANGED <<vars, nature, said>>
    BY <1>6, CommandsOnlyLook DEF Materialize
  <2>2. QED
    BY <2>1, AnsweredStays DEF Answered
<1>7. ASSUME UNCHANGED <<vars, commandVars>> PROVE Answered'
  BY <1>7, AnsweredStays DEF Answered, commandVars
<1>8. QED
  BY <1>1, <1>2, <1>3, <1>4, <1>5, <1>6, <1>7 DEF CommandNext

\* The exit status of a command says what reduce said.
LEMMA NextVerifies ==
    ASSUME Answered, DoneIsPublished, PublishedVerifies, [CommandNext]_<<vars, commandVars>>
    PROVE  PublishedVerifies'
<1> DEFINE Done(d) == \E p \in Process : pc[p] = "done" /\ job[p].digest = d
<1>0. \A d \in Digest : Done(d) /\ nature = "steady" => said[d] \in {"minimal", "larger"}
  BY DEF Answered, Reproduced
<1>1. ASSUME NEW p \in Process, Reduce(p) \/ ReduceRefused(p) \/ Publishing(p)
      PROVE  PublishedVerifies'
  BY <1>1 DEF Reduce, ReduceRefused, Publishing, PublishedVerifies
<1>2. ASSUME NEW d \in Digest, NEW given \in Options, Verify(d, given)
      PROVE  PublishedVerifies'
  <2>1. UNCHANGED <<vars, nature>>
    BY <1>2, CommandsOnlyLook
  <2>2. CASE Loads(d, given) /\ SpecOf(given) = "own"
    <3>1. PICK a \in Answers :
             /\ Answer(d, a)
             /\ Ends("verify-minimal", d, given, VerifyCode[a])
      BY <1>2, <2>2 DEF Verify
    <3>2. /\ nature = "blind" => a = "minimal"
          /\ nature = "steady" => said[d] \in {NoValue, a}
      BY <2>1, <3>1, AnswersAgree
    <3>3. Done(d) => /\ nature = "blind" => a = "minimal"
                     /\ nature = "steady" => a \in {"minimal", "larger"}
      BY <1>0, <3>2 DEF NoValue
    <3>4. given # "other" /\ artifact[d] = "whole"
      BY <2>2 DEF SpecOf, Loads
    <3>5. /\ last'.command = "verify-minimal" /\ last'.artifact = d /\ last'.given = given
          /\ last'.code = VerifyCode[a]
      BY <3>1 DEF Ends
    <3>6. /\ a = "minimal" => last'.code = 0
          /\ a \in {"minimal", "larger"} => last'.code \in {0, 1}
      BY <3>5 DEF VerifyCode
    <3>7. QED
      BY <2>1, <3>3, <3>4, <3>5, <3>6 DEF PublishedVerifies, vars
  <2>3. CASE ~(Loads(d, given) /\ SpecOf(given) = "own")
    <3>1. /\ last'.command = "verify-minimal" /\ last'.artifact = d /\ last'.given = given
          /\ last'.code = 2
      BY <1>2, <2>3 DEF Verify, Ends
    <3>2. given \in {"own", "-- own"} => ~Done(d)
      BY <2>3 DEF Loads, SpecOf, DoneIsPublished
    <3>3. QED
      BY <2>1, <3>1, <3>2 DEF PublishedVerifies, vars
  <2>4. QED
    BY <2>2, <2>3
<1>3. ASSUME NEW d \in Digest, NEW given \in Options, ReproducePredicate(d, given)
      PROVE  PublishedVerifies'
  <2>1. UNCHANGED <<vars, nature>>
    BY <1>3, CommandsOnlyLook
  <2>2. CASE Loads(d, given) /\ SpecOf(given) = "own"
    <3>1. PICK a \in Answers :
             /\ Answer(d, a)
             /\ Ends("reproduce-predicate", d, given, ReproduceCode[a])
      BY <1>3, <2>2 DEF ReproducePredicate
    <3>2. /\ nature = "blind" => a = "minimal"
          /\ nature = "steady" => said[d] \in {NoValue, a}
      BY <2>1, <3>1, AnswersAgree
    <3>3. Done(d) => /\ nature = "blind" => a = "minimal"
                     /\ nature = "steady" => a \in {"minimal", "larger"}
      BY <1>0, <3>2 DEF NoValue
    <3>4. artifact[d] = "whole"
      BY <2>2 DEF Loads
    <3>5. /\ last'.command = "reproduce-predicate" /\ last'.artifact = d
          /\ a \in {"minimal", "larger"} => last'.code = 0
      BY <3>1 DEF Ends, ReproduceCode
    <3>6. QED
      BY <2>1, <3>3, <3>4, <3>5 DEF PublishedVerifies, vars
  <2>3. CASE Loads(d, given) /\ SpecOf(given) # "own"
    <3>1. /\ last'.command = "reproduce-predicate" /\ last'.artifact = d
          /\ last'.given = given
      BY <1>3, <2>3 DEF ReproducePredicate, Ends
    <3>2. given \notin {"own", "-- own"} /\ artifact[d] = "whole"
      BY <2>3 DEF Loads, SpecOf
    <3>3. QED
      BY <2>1, <3>1, <3>2 DEF PublishedVerifies, vars
  <2>4. CASE ~Loads(d, given)
    <3>1. /\ last'.command = "reproduce-predicate" /\ last'.artifact = d
          /\ last'.given = given /\ last'.code = 2
      BY <1>3, <2>4 DEF ReproducePredicate, Ends
    <3>2. given \in {"own", "-- own"} => ~Done(d)
      BY <2>4 DEF Loads, SpecOf, DoneIsPublished
    <3>3. QED
      BY <2>1, <3>1, <3>2 DEF PublishedVerifies, vars
  <2>5. QED
    BY <2>2, <2>3, <2>4
<1>4. ASSUME NEW d \in Digest, NEW toFile \in BOOLEAN, Materialize(d, toFile)
      PROVE  PublishedVerifies'
  <2>1. UNCHANGED <<vars, nature>>
    BY <1>4, CommandsOnlyLook
  <2>2. /\ last'.command = "materialize" /\ last'.artifact = d
        /\ last'.code # 2 => artifact[d] = "whole"
    BY <1>4 DEF Materialize, Ends
  <2>3. QED
    BY <2>1, <2>2 DEF PublishedVerifies, vars
<1>5. ASSUME UNCHANGED <<vars, commandVars>> PROVE PublishedVerifies'
  BY <1>5 DEF PublishedVerifies, vars, commandVars
<1>6. QED
  BY <1>1, <1>2, <1>3, <1>4, <1>5 DEF CommandNext

\* Whatever runs beside what, and stops where: with a steady predicate that does
\* not look at the metadata, a published artifact is verified again.
THEOREM PublishedIsVerified == CommandSpec => []PublishedVerifies
<1>1. CommandInit => Answered /\ PublishedVerifies
  BY InitCommandInv DEF CommandInv
<1>2. TypeOK' /\ Answered /\ [CommandNext]_<<vars, commandVars>> => Answered'
  BY NextAnswered
<1>3. /\ Answered /\ DoneIsPublished /\ PublishedVerifies
      /\ [CommandNext]_<<vars, commandVars>>
      => PublishedVerifies'
  BY NextVerifies
<1>4. CommandSpec => []TypeOK /\ []DoneIsPublished
  BY CommandsPublish, PublicationTypes, SuccessIsPublished, PTL
<1>5. QED
  BY <1>1, <1>2, <1>3, <1>4, PTL DEF CommandSpec
-------------------------------------------------------------------------------
(* The capture command.                                                      *)

\* Where the command stands, and who can run, or has begun the file, then.
CommandAgrees ==
    /\ request \in Requests
    /\ cli \in {"preparing", "ready", "waiting", "captured", "error"}
    /\ cli \in {"preparing", "ready"} => ~born /\ ~alive /\ ~launcher /\ other = "none"
    /\ cli = "ready" => author = "nobody"
    /\ cli \in {"ready", "waiting", "captured"} =>
          request.flaw \notin CommandFlaws /\ author # "earlier"
    /\ cli = "captured" => file = "whole"
    /\ cli = "captured" /\ request.target = "python" => ~alive
    /\ request.target = "python" => ~launcher /\ other = "none"

\* Nothing runs, or has begun the file, but what the bootstrap has let through.
OnlyTracedRuns ==
    /\ author \in {"nobody", "earlier", "first", "other"}
    /\ other \in {"none", "up", "writing", "gone"}
    /\ (file = "absent") <=> (author = "nobody")
    /\ alive \/ other # "none" \/ author \in {"first", "other"} =>
          request.flaw \notin BootstrapFlaws
    /\ other = "writing" => author = "other"
    /\ author = "other" => other # "none"

\* What has failed never writes, and what writes has not failed until then.
FailureIsKept ==
    /\ closed \in BOOLEAN /\ failure \in BOOLEAN
    /\ writing \in BOOLEAN /\ refused \in BOOLEAN
    /\ refused => failure
    /\ writing => closed /\ ~failure
    /\ author = "first" => closed /\ ~refused

CaptureInv == CommandAgrees /\ OnlyTracedRuns /\ FailureIsKept

\* Before the command has looked, nothing runs and nothing has been begun.
LEMMA InitCapture == CaptureInit => CaptureInv
  BY DEF CaptureInit, CaptureInv, CommandAgrees, OnlyTracedRuns, FailureIsKept, Start

\* The steps of the traced process, as the command sees them: only OpenFile
\* changes the author, and no callback comes between that and the end of writing.
LEMMA TracedOnlyWrites ==
    ASSUME ProcessorStep, FailureIsKept
    PROVE  /\ FailureIsKept'
           /\ alive /\ alive' = alive /\ request' = request
           /\ \/ author' = author /\ file' = file
              \/ author' = author /\ file' = "whole" /\ author = "first"
              \/ author' = "first" /\ file = "absent" /\ file' = "partial" /\ ~failure
<1> USE DEF FailureIsKept, output
<1>1. CASE OutOfOrder
  BY <1>1 DEF OutOfOrder, Fail, Callback
<1>2. ASSUME NEW trace \in Trace, OnTraceStart(trace)
      PROVE  FailureIsKept' /\ alive /\ UNCHANGED <<output, alive, request>>
  BY <1>2 DEF OnTraceStart, Callback
<1>3. ASSUME NEW trace \in Trace, OnTraceEnd(trace)
      PROVE  FailureIsKept' /\ alive /\ UNCHANGED <<output, alive, request>>
  <2>1. /\ alive /\ ~writing
        /\ UNCHANGED <<closed, writing>> /\ UNCHANGED <<output, alive, request>>
    BY <1>3 DEF OnTraceEnd, Callback
  <2>2. UNCHANGED <<failure, refused>> \/ Fail
    BY <1>3 DEF OnTraceEnd
  <2>3. /\ failure' \in BOOLEAN /\ refused' \in BOOLEAN
        /\ refused' => failure'
        /\ closed /\ ~refused => ~refused'
    <3>1. CASE Fail
      <4>1. failure' = TRUE /\ refused' = (refused \/ ~closed)
        BY <3>1 DEF Fail
      <4>2. refused' \in BOOLEAN /\ (refused' <=> refused \/ ~closed)
        BY <4>1
      <4> QED
        BY <4>1, <4>2
    <3>2. CASE UNCHANGED <<failure, refused>>
      BY <3>2
    <3> QED
      BY <2>2, <3>1, <3>2
  <2>4. QED
    BY <2>1, <2>3
<1>4. ASSUME NEW trace \in Trace, FailTrace(trace)
      PROVE  FailureIsKept' /\ alive /\ UNCHANGED <<output, alive, request>>
  BY <1>4 DEF FailTrace, Callback, Fail
<1>5. ASSUME NEW trace \in Trace, NEW parent \in Span \union {NoSpan}, OnSpanStart(trace, parent)
      PROVE  FailureIsKept' /\ alive /\ UNCHANGED <<output, alive, request>>
  BY <1>5 DEF OnSpanStart, Callback, Fail
<1>6. ASSUME NEW trace \in Trace, NEW span \in Span, NEW data \in SpanKinds,
             OnSpanEnd(trace, span, data)
      PROVE  FailureIsKept' /\ alive /\ UNCHANGED <<output, alive, request>>
  BY <1>6 DEF OnSpanEnd, Callback
<1>7. CASE Shutdown
  BY <1>7 DEF Shutdown, Callback, Publishable
<1>8. CASE OpenFile
  BY <1>8 DEF OpenFile, Creatable, processor
<1>9. CASE WriteFile
  BY <1>9 DEF WriteFile
<1>10. CASE WriteFails
  BY <1>10 DEF WriteFails
<1> QED
  BY <1>1, <1>2, <1>3, <1>4, <1>5, <1>6, <1>7, <1>8, <1>9, <1>10 DEF ProcessorStep
\* A Python that starts has a configuration only below a launcher, or when it is
\* the target.
LEMMA NextCapture == CaptureInv /\ [CaptureNext]_captureVars => CaptureInv'
<1> SUFFICES ASSUME CaptureInv, [CaptureNext]_captureVars PROVE CaptureInv'
  OBVIOUS
<1> USE DEF CaptureInv, CommandAgrees, OnlyTracedRuns, FailureIsKept, processor, output
<1>0. request.target \in {"python", "launcher"}
  BY RequestsAssumption
<1>1. CASE Prepare
  BY <1>1 DEF Prepare
<1>2. CASE Launch
  BY <1>0, <1>2 DEF Launch
<1>3. CASE Bootstrap
  BY <1>3 DEF Bootstrap, Configured
<1>4. CASE Traced
  <2>1. ProcessorStep /\ UNCHANGED command
    BY <1>4 DEF Traced
  <2>2. UNCHANGED <<cli, born, launcher, other>>
    BY <2>1 DEF command
  <2>3. /\ FailureIsKept'
        /\ alive /\ alive' = alive /\ request' = request
        /\ \/ author' = author /\ file' = file
           \/ author' = author /\ file' = "whole" /\ author = "first"
           \/ author' = "first" /\ file = "absent" /\ file' = "partial" /\ ~failure
    BY <2>1, TracedOnlyWrites
  <2>4. OnlyTracedRuns'
    BY <2>2, <2>3
  <2>5. CommandAgrees'
    BY <2>2, <2>3
  <2> QED
    BY <2>3, <2>4, <2>5
<1>5. CASE Exit
  BY <1>5 DEF Exit, Die, command
<1>6. CASE StartOther
  BY <1>0, <1>6 DEF StartOther, Configured
<1>7. CASE OtherOpens
  BY <1>7 DEF OtherOpens, Creatable
<1>8. CASE OtherWrites
  BY <1>8 DEF OtherWrites
<1>9. CASE OtherEnds
  BY <1>9 DEF OtherEnds
<1>10. CASE LauncherExits
  BY <1>10 DEF LauncherExits
<1>11. CASE Timeout
  BY <1>11 DEF Timeout, Die
<1>12. CASE Collect
  BY <1>0, <1>12 DEF Collect, TargetRuns
<1>13. CASE UNCHANGED captureVars
  BY <1>13 DEF captureVars, command
<1> QED
  BY <1>1, <1>2, <1>3, <1>4, <1>5, <1>6, <1>7, <1>8, <1>9, <1>10, <1>11, <1>12, <1>13
  DEF CaptureNext

\* Hence CaptureInv holds throughout a capture.
LEMMA CaptureInvariance == CaptureSpec => []CaptureInv
<1> QED
  BY InitCapture, NextCapture, PTL DEF CaptureSpec

\* cli._capture: whatever is reported as captured was written to its end by
\* this capture's own processes, from arguments without a flaw; a Python target
\* has written it itself, with every callback of it in order until then.
THEOREM CapturedIsTheTargets == CaptureSpec => []CapturedIsOwn
<1>1. CaptureInv => CapturedIsOwn
  <2> SUFFICES ASSUME CaptureInv, cli = "captured" PROVE CapturedIsOwn
    BY DEF CapturedIsOwn
  <2> USE DEF CaptureInv, CommandAgrees, OnlyTracedRuns, FailureIsKept
  <2>1. file = "whole" /\ author \in {"first", "other"}
    OBVIOUS
  <2>2. request.flaw = "none"
    BY <2>1, RequestsAssumption
  <2>3. request.target = "python" => author = "first" /\ ~refused
    BY <2>1
  <2> QED
    BY <2>1, <2>2, <2>3 DEF CapturedIsOwn
<1> QED
  BY <1>1, CaptureInvariance, PTL

\* on_trace_end, shutdown: once the traced process has failed, late callbacks,
\* other traces or another Python do not make it begin the file.
THEOREM FailureStaysFinal == CaptureSpec => FailureIsFinal
<1>1. CaptureInv /\ [CaptureNext]_captureVars
          => [failure /\ author # "first" => author' # "first"]_captureVars
  <2> SUFFICES ASSUME CaptureInv, CaptureNext, failure, author # "first"
               PROVE  author' # "first"
    OBVIOUS
  <2> USE DEF CaptureInv, FailureIsKept, processor, output
  <2>1. CASE Traced
    BY <2>1, TracedOnlyWrites DEF Traced
  <2>2. CASE OtherOpens
    BY <2>2 DEF OtherOpens
  <2>3. CASE ~Traced /\ ~OtherOpens
    BY <2>3 DEF CaptureNext, Prepare, Launch, Bootstrap, Exit, StartOther, OtherWrites, OtherEnds,
                LauncherExits, Timeout, Collect, Die
  <2> QED
    BY <2>1, <2>2, <2>3
<1> QED
  BY <1>1, CaptureInvariance, PTL DEF CaptureSpec, FailureIsFinal

\* write_capsule: whichever processes capture to one path, and whenever they
\* die, the one that has begun the file is the only one that completes it.
THEOREM FilesHaveOneAuthor == CaptureSpec => OneAuthor
<1> DEFINE Kept == /\ file # "absent" => author' = author
                   /\ file = "whole" => file' = "whole"
                   /\ file = "partial" /\ file' = "whole" =>
                          (other = "writing" <=> author = "other")
<1>1. CaptureInv /\ [CaptureNext]_captureVars => [Kept]_captureVars
  <2> SUFFICES ASSUME CaptureInv, CaptureNext PROVE Kept
    OBVIOUS
  <2> USE DEF CaptureInv, OnlyTracedRuns, processor, output
  <2>1. CASE Traced
    BY <2>1, TracedOnlyWrites DEF Traced
  <2>2. CASE OtherOpens
    BY <2>2 DEF OtherOpens, Creatable
  <2>3. CASE OtherWrites
    BY <2>3 DEF OtherWrites
  <2>4. CASE ~Traced /\ ~OtherOpens /\ ~OtherWrites
    BY <2>4 DEF CaptureNext, Prepare, Launch, Bootstrap, Exit, StartOther, OtherEnds,
                LauncherExits, Timeout, Collect, Die
  <2> QED
    BY <2>1, <2>2, <2>3, <2>4
<1> QED
  BY <1>1, CaptureInvariance, PTL DEF CaptureSpec, OneAuthor
-------------------------------------------------------------------------------
(* What a capsule shows of the spans of a trace.                             *)

\* Every set of numbers with a member has a least one.
LEMMA LeastNumber ==
    ASSUME NEW T \in SUBSET Nat, T # {}
    PROVE  \E x \in T : \A y \in T : x <= y
<1> DEFINE Less == {pair \in Nat \X Nat : pair[1] < pair[2]}
<1>1. IsWellFoundedOn(Less, Nat)
  BY NatLessThanWellFounded DEF OpToRel
<1>2. PICK x \in T : \A y \in T : ~(<<y, x>> \in Less)
  BY <1>1, WFMin
<1>3. ASSUME NEW y \in T PROVE x <= y
  <2>1. <<y, x>> \in Nat \X Nat
    OBVIOUS
  <2>2. ~(y < x)
    BY <2>1, <1>2
  <2>3. QED
    BY <2>2
<1>4. QED
  BY <1>3

\* What holds of zero, and of the successor of each number it holds of, holds
\* of every number.
LEMMA Counting ==
    ASSUME NEW T, 0 \in T, \A n \in Nat : n \in T => n + 1 \in T
    PROVE  Nat \subseteq T
<1>1. SUFFICES ASSUME ~(Nat \subseteq T) PROVE FALSE
  OBVIOUS
<1>2. PICK x \in Nat \ T : \A y \in Nat \ T : x <= y
  BY <1>1, LeastNumber
<1>3. x # 0 /\ x - 1 \in Nat /\ x - 1 \in T
  BY <1>2
<1>4. QED
  BY <1>2, <1>3

SpanRecord == [id : Span, parent : Span \union {NoSpan}, data : SpanKinds \union {None}]

\* The function by which Build is defined.
Builds(f, spans) ==
    f = [n \in 0..Len(spans) |-> IF n = 0 THEN Blank ELSE AddSpan(f[n - 1], spans[n])]

\* There is such a function for every sequence of spans, and Build takes its
\* last value.
LEMMA BuildIs ==
    ASSUME NEW spans \in Seq(SpanRecord)
    PROVE  \E f : /\ Build(spans) = f[Len(spans)]
                  /\ f[0] = Blank
                  /\ \A n \in 1..Len(spans) : f[n] = AddSpan(f[n - 1], spans[n])
<1>0. Len(spans) \in Nat
  OBVIOUS
<1> DEFINE Go(f, m) == f = [n \in 0..m |-> IF n = 0 THEN Blank ELSE AddSpan(f[n - 1], spans[n])]
           Good == {m \in Nat : \E f : Go(f, m)}
<1>1. 0 \in Good
  <2>1. Go([n \in 0..0 |-> Blank], 0)
    OBVIOUS
  <2> QED
    BY <2>1
<1>2. ASSUME NEW m \in Nat, m \in Good PROVE m + 1 \in Good
  <2>1. PICK f : Go(f, m)
    BY <1>2
  <2>2. \A n \in 0..m : f[n] = IF n = 0 THEN Blank ELSE AddSpan(f[n - 1], spans[n])
    BY <2>1
  <2> DEFINE g == [n \in 0..(m + 1) |-> IF n <= m THEN f[n] ELSE AddSpan(f[m], spans[m + 1])]
  <2>3. \A n \in 0..(m + 1) : g[n] = IF n <= m THEN f[n] ELSE AddSpan(f[m], spans[m + 1])
    OBVIOUS
  <2>4. ASSUME NEW n \in 0..(m + 1)
        PROVE  g[n] = IF n = 0 THEN Blank ELSE AddSpan(g[n - 1], spans[n])
    <3> HIDE DEF g
    <3>1. CASE n = 0
      BY <2>2, <2>3, <3>1
    <3>2. CASE n \in 1..m
      <4>1. n \in 0..m /\ n - 1 \in 0..m /\ n # 0 /\ n <= m /\ n - 1 <= m /\ n - 1 \in 0..(m + 1)
        BY <3>2
      <4>2. g[n] = f[n] /\ g[n - 1] = f[n - 1]
        BY <2>3, <4>1
      <4> QED
        BY <2>2, <4>1, <4>2
    <3>3. CASE n = m + 1
      <4>1. m \in 0..(m + 1) /\ ~(n <= m) /\ n - 1 = m /\ n # 0
        BY <3>3
      <4>2. g[n] = AddSpan(f[m], spans[m + 1]) /\ g[m] = f[m]
        BY <2>3, <4>1
      <4> QED
        BY <3>3, <4>1, <4>2
    <3> QED
      BY <3>1, <3>2, <3>3
  <2>5. g = [n \in 0..(m + 1) |-> g[n]]
    OBVIOUS
  <2> HIDE DEF g
  <2>6. Go(g, m + 1)
    BY <2>4, <2>5
  <2> HIDE DEF Go
  <2>7. \E h : Go(h, m + 1)
    BY <2>6
  <2> QED
    BY <2>7
<1>3. PICK f : Go(f, Len(spans))
  <2> HIDE DEF Good
  <2>1. Len(spans) \in Good
    BY <1>0, <1>1, <1>2, Counting
  <2> QED
    BY <2>1 DEF Good
<1> DEFINE g == CHOOSE h : Builds(h, spans)
<1>4. Builds(g, spans)
  BY <1>3 DEF Builds
<1>5. Build(spans) = g[Len(spans)]
  BY DEF Build, Builds
<1> HIDE DEF g
<1>6. g[0] = Blank
  BY <1>0, <1>4 DEF Builds
<1>7. ASSUME NEW n \in 1..Len(spans) PROVE g[n] = AddSpan(g[n - 1], spans[n])
  <2>1. n \in 0..Len(spans) /\ n # 0
    BY <1>0
  <2> QED
    BY <1>4, <2>1 DEF Builds
<1> QED
  BY <1>5, <1>6, <1>7
\* What a list is made of.
LEMMA ListIs ==
    ASSUME NEW s, IsList(s)
    PROVE  /\ Len(s) \in Nat /\ DOMAIN s = 1..Len(s)
           /\ \A i \in 1..Len(s) : s[i] \in Range(s)
           /\ \A x \in Range(s) : \E i \in 1..Len(s) : x = s[i]
<1>1. Len(s) \in Nat /\ DOMAIN s = 1..Len(s)
  BY LenProperties DEF IsList
<1> QED
  BY <1>1 DEF Range

\* Two lists, one after the other.
LEMMA Joined ==
    ASSUME NEW s, IsList(s), NEW t, IsList(t)
    PROVE  /\ IsList(s \o t) /\ Len(s \o t) = Len(s) + Len(t)
           /\ \A i \in 1..Len(s) : (s \o t)[i] = s[i]
           /\ \A i \in 1..Len(t) : (s \o t)[Len(s) + i] = t[i]
<1>1. PICK R : R = Range(s) \union Range(t)
  OBVIOUS
<1>2. s \in Seq(R) /\ t \in Seq(R)
  <2>1. s \in Seq(Range(s)) /\ t \in Seq(Range(t)) /\ Range(s) \subseteq R /\ Range(t) \subseteq R
    BY <1>1 DEF IsList
  <2> QED
    BY <2>1
<1>3. PICK j : j = s \o t
  OBVIOUS
<1>4. /\ Len(s) \in Nat /\ Len(t) \in Nat /\ j \in Seq(R) /\ Len(j) = Len(s) + Len(t)
      /\ \A i \in 1..Len(s) : j[i] = s[i]
      /\ \A i \in 1..Len(t) : j[Len(s) + i] = t[i]
  BY <1>2, <1>3
<1>5. \A i \in 1..Len(j) : j[i] \in Range(j)
  BY <1>4 DEF Range
<1>6. IsList(j)
  BY <1>4, <1>5 DEF IsList
<1> QED
  BY <1>3, <1>4, <1>6

\* A span becomes one event for each of the kinds that stand for it.
LEMMA EventsOfSpan ==
    ASSUME NEW n, NEW span, span.data \in SpanKinds, NEW parent, NEW track,
           NEW new, new = SpanEvents(n, span, parent, track),
           NEW kinds, kinds = KindsOf(span.data)
    PROVE  /\ IsList(new) /\ Len(new) = Len(kinds)
           /\ Len(kinds) \in {1, 2} /\ DOMAIN kinds = 1..Len(kinds)
           /\ \A i \in 1..Len(new) : new[i].payload = span.id /\ new[i].kind = kinds[i]
<1> DEFINE Event(e, kind) == e.payload = span.id /\ e.kind = kind
<1>0. \A k, kind, deps : Event(NewEvent(k, kind, parent, deps, span.id), kind)
  BY DEF NewEvent
<1>1. ASSUME NEW a, NEW b, Event(a, kinds[1]), Event(b, kinds[2]), new = <<a, b>>,
             Len(kinds) = 2, DOMAIN kinds = 1..2
      PROVE  /\ IsList(new) /\ Len(new) = 2
             /\ \A i \in 1..2 : Event(new[i], kinds[i])
  BY <1>1 DEF IsList, Range
<1>2. ASSUME NEW a, Event(a, kinds[1]), new = <<a>>, Len(kinds) = 1, DOMAIN kinds = 1..1
      PROVE  /\ IsList(new) /\ Len(new) = 1
             /\ \A i \in 1..1 : Event(new[i], kinds[i])
  BY <1>2 DEF IsList, Range
<1>3. CASE span.data = "generation"
  <2>1. \E k, l, deps, d2 :
           new = <<NewEvent(k, "model_request", parent, deps, span.id),
                   NewEvent(l, "model_response", parent, d2, span.id)>>
    BY <1>3 DEF SpanEvents
  <2>2. kinds = <<"model_request", "model_response">>
    BY <1>3 DEF KindsOf
  <2>3. PICK a, b : new = <<a, b>> /\ Event(a, "model_request") /\ Event(b, "model_response")
    BY <1>0, <2>1
  <2>4. /\ Len(kinds) = 2 /\ DOMAIN kinds = 1..2
        /\ kinds[1] = "model_request" /\ kinds[2] = "model_response"
    BY <2>2
  <2> HIDE DEF Event
  <2>5. IsList(new) /\ Len(new) = 2 /\ \A i \in 1..2 : Event(new[i], kinds[i])
    BY <1>1, <2>3, <2>4
  <2> QED
    BY <2>4, <2>5 DEF Event
<1>4. CASE span.data = "function"
  <2>1. \E k, l, deps, d2 :
           new = <<NewEvent(k, "tool_call", parent, deps, span.id),
                   NewEvent(l, "tool_result", parent, d2, span.id)>>
    BY <1>4 DEF SpanEvents
  <2>2. kinds = <<"tool_call", "tool_result">>
    BY <1>4 DEF KindsOf
  <2>3. PICK a, b : new = <<a, b>> /\ Event(a, "tool_call") /\ Event(b, "tool_result")
    BY <1>0, <2>1
  <2>4. /\ Len(kinds) = 2 /\ DOMAIN kinds = 1..2
        /\ kinds[1] = "tool_call" /\ kinds[2] = "tool_result"
    BY <2>2
  <2> HIDE DEF Event
  <2>5. IsList(new) /\ Len(new) = 2 /\ \A i \in 1..2 : Event(new[i], kinds[i])
    BY <1>1, <2>3, <2>4
  <2> QED
    BY <2>4, <2>5 DEF Event
<1>5. CASE span.data = "turn"
  <2>1. \E k, deps : new = <<NewEvent(k, "message", parent, deps, span.id)>>
    BY <1>5 DEF SpanEvents
  <2>2. kinds = <<"message">>
    BY <1>5 DEF KindsOf
  <2>3. PICK a : new = <<a>> /\ Event(a, "message")
    BY <1>0, <2>1
  <2>4. Len(kinds) = 1 /\ DOMAIN kinds = 1..1 /\ kinds[1] = "message"
    BY <2>2
  <2> HIDE DEF Event
  <2>5. IsList(new) /\ Len(new) = 1 /\ \A i \in 1..1 : Event(new[i], kinds[i])
    BY <1>2, <2>3, <2>4
  <2> QED
    BY <2>4, <2>5 DEF Event
<1> QED
  BY <1>3, <1>4, <1>5 DEF SpanKinds

StandsFor(new, span, kinds) ==
    /\ IsList(new) /\ Len(new) = Len(kinds)
    /\ Len(kinds) \in {1, 2} /\ DOMAIN kinds = 1..Len(kinds)
    /\ \A i \in 1..Len(new) : new[i].payload = span.id /\ new[i].kind = kinds[i]

LEMMA EventsStand ==
    ASSUME NEW n, NEW span, span.data \in SpanKinds, NEW parent, NEW track
    PROVE  StandsFor(SpanEvents(n, span, parent, track), span, KindsOf(span.data))
<1>1. PICK new, kinds : new = SpanEvents(n, span, parent, track) /\ kinds = KindsOf(span.data)
  OBVIOUS
<1> QED
  BY <1>1, EventsOfSpan DEF StandsFor

\* The kinds of a span's events are a list.
LEMMA KindsListed ==
    ASSUME NEW data, data \in SpanKinds
    PROVE  Len(KindsOf(data)) \in Nat /\ DOMAIN KindsOf(data) = 1..Len(KindsOf(data))
<1>1. PICK kinds : kinds = KindsOf(data)
  OBVIOUS
<1>2. \/ kinds = <<"model_request", "model_response">>
      \/ kinds = <<"tool_call", "tool_result">>
      \/ kinds = <<"message">>
  BY <1>1 DEF KindsOf, SpanKinds
<1>3. PICK a, b, c : /\ a \in {"model_request", "tool_call"}
                     /\ b \in {"model_response", "tool_result"} /\ c = "message"
                     /\ kinds = <<a, b>> \/ kinds = <<c>>
  BY <1>2
<1>4. PICK T : T = {a, b, c}
  OBVIOUS
<1>5. <<a, b>> \in Seq(T)
  BY <1>4
<1>6. <<c>> \in Seq(T)
  BY <1>4
<1>7. kinds \in Seq(T)
  BY <1>3, <1>5, <1>6, Zenon
<1> QED
  BY <1>1, <1>7, LenProperties

IsBuilt(b) ==
    /\ b = [ok |-> b.ok, events |-> b.events, tail |-> b.tail, track |-> b.track]
    /\ b.ok \in BOOLEAN

\* c has the events of b and those of the span.
Adds(b, c, span) ==
    \E parent, track : c.events = b.events \o SpanEvents(Len(b.events), span, parent, track)

\* A span without data, or with a parent that has no events, fails the building.
LEMMA AddSpanAdds ==
    ASSUME NEW b, IsBuilt(b), NEW span \in SpanRecord, NEW c, c = AddSpan(b, span)
    PROVE  /\ IsBuilt(c)
           /\ c.ok => b.ok /\ span.data \in SpanKinds /\ Adds(b, c, span)
<1>1. CASE ~(b.ok /\ Placed(b, span))
  <2>1. c = [b EXCEPT !.ok = FALSE]
    BY <1>1 DEF AddSpan
  <2>2. c = [ok |-> FALSE, events |-> b.events, tail |-> b.tail, track |-> b.track]
    BY <2>1 DEF IsBuilt
  <2> QED
    BY <2>2 DEF IsBuilt
<1>2. CASE b.ok /\ Placed(b, span)
  <2>1. \E tail, track :
           c = [ok |-> TRUE,
                events |-> b.events \o SpanEvents(Len(b.events), span, b.tail[span.parent],
                                                  b.track[span.parent]),
                tail |-> tail, track |-> track]
    BY <1>2, ZenonT(30) DEF AddSpan
  <2>2. PICK tail, track, events, p, t :
           /\ c = [ok |-> TRUE, events |-> events, tail |-> tail, track |-> track]
           /\ events = b.events \o SpanEvents(Len(b.events), span, p, t)
    BY <2>1
  <2>3. IsBuilt(c) /\ c.events = events
    BY <2>2 DEF IsBuilt
  <2>4. span.data \in SpanKinds
    BY <1>2 DEF Placed, SpanRecord
  <2> QED
    BY <1>2, <2>2, <2>3, <2>4 DEF Adds
<1> QED
  BY <1>1, <1>2
\* What a sequence of events shows of the first m spans.
Shows(events, spans, m) ==
    /\ IsList(events)
    /\ \A j \in 1..Len(events) : \/ events[j].payload = NoSpan
                                 \/ \E i \in 1..m : events[j].payload = spans[i].id
    /\ \E j \in 1..Len(events) : events[j].payload = NoSpan
    /\ \A i \in 1..m : /\ spans[i].data \in SpanKinds
                       /\ SpanIsShown(events, spans[i].id, KindsOf(spans[i].data))

\* The events of a span stay what they are when those of another follow, and
\* those that follow show theirs.
LEMMA ShownStays ==
    ASSUME NEW s, IsList(s), NEW t, IsList(t), NEW id, \A i \in 1..Len(t) : t[i].payload # id,
           NEW kinds, Len(kinds) \in Nat, DOMAIN kinds = 1..Len(kinds), SpanIsShown(s, id, kinds)
    PROVE  SpanIsShown(s \o t, id, kinds)
<1>1. PICK j : j = s \o t
  OBVIOUS
<1>2. /\ Len(s) \in Nat /\ Len(t) \in Nat /\ DOMAIN s = 1..Len(s)
      /\ DOMAIN j = 1..(Len(s) + Len(t))
      /\ \A i \in 1..Len(s) : j[i] = s[i]
      /\ \A i \in 1..Len(t) : j[Len(s) + i] = t[i]
  <2>1. /\ IsList(j) /\ Len(j) = Len(s) + Len(t)
        /\ \A i \in 1..Len(s) : j[i] = s[i]
        /\ \A i \in 1..Len(t) : j[Len(s) + i] = t[i]
    BY <1>1, Joined
  <2> QED
    BY <2>1, ListIs
<1>3. PICK at \in DOMAIN s :
         /\ {i \in DOMAIN s : s[i].payload = id} = at..(at + Len(kinds) - 1)
         /\ \A i \in DOMAIN kinds : s[at + i - 1].kind = kinds[i]
  BY DEF SpanIsShown
<1>4. {i \in DOMAIN j : j[i].payload = id} = {i \in DOMAIN s : s[i].payload = id}
  <2>1. ASSUME NEW i \in DOMAIN j, j[i].payload = id PROVE i \in DOMAIN s
    <3>1. SUFFICES ASSUME i \notin 1..Len(s) PROVE FALSE
      BY <1>2
    <3>2. i - Len(s) \in 1..Len(t) /\ i = Len(s) + (i - Len(s))
      BY <1>2, <3>1
    <3> QED
      BY <1>2, <2>1, <3>2
  <2>2. ASSUME NEW i \in DOMAIN s PROVE i \in DOMAIN j /\ j[i] = s[i]
    BY <1>2
  <2> QED
    BY <2>1, <2>2
<1>5. ASSUME NEW i \in DOMAIN kinds PROVE j[at + i - 1].kind = kinds[i]
  <2>1. at + i - 1 \in at..(at + Len(kinds) - 1)
    BY <1>2
  <2>2. at + i - 1 \in DOMAIN s
    BY <1>3, <2>1
  <2>3. j[at + i - 1] = s[at + i - 1]
    BY <1>2, <2>2
  <2> QED
    BY <1>3, <2>3
<1>6. at \in DOMAIN j
  BY <1>2
<1> QED
  BY <1>1, <1>3, <1>4, <1>5, <1>6 DEF SpanIsShown

Joins(u, s, t) ==
    /\ IsList(u) /\ Len(u) = Len(s) + Len(t)
    /\ \A i \in 1..Len(s) : u[i] = s[i]
    /\ \A i \in 1..Len(t) : u[Len(s) + i] = t[i]

LEMMA JoinIs ==
    ASSUME NEW s, IsList(s), NEW t, IsList(t)
    PROVE  Joins(s \o t, s, t)
BY Joined DEF Joins

\* A span of which nothing was shown is shown by the events that follow.
LEMMA ShownAfter ==
    ASSUME NEW s, IsList(s), NEW id, \A i \in 1..Len(s) : s[i].payload # id,
           NEW kinds, DOMAIN kinds = 1..Len(kinds),
           NEW t, IsList(t), Len(t) = Len(kinds), Len(t) # 0,
           \A i \in 1..Len(t) : t[i].payload = id /\ t[i].kind = kinds[i]
    PROVE  SpanIsShown(s \o t, id, kinds)
<1>0. PICK j : j = s \o t /\ Joins(j, s, t)
  BY JoinIs
<1>1. PICK at : at = Len(s) + 1
  OBVIOUS
<1>2. /\ Len(s) \in Nat /\ Len(t) \in Nat
      /\ DOMAIN j = 1..(Len(s) + Len(t))
      /\ \A i \in 1..Len(s) : j[i] = s[i]
      /\ \A i \in 1..Len(t) : j[Len(s) + i] = t[i]
  <2>1. /\ IsList(j) /\ Len(j) = Len(s) + Len(t)
        /\ \A i \in 1..Len(s) : j[i] = s[i]
        /\ \A i \in 1..Len(t) : j[Len(s) + i] = t[i]
    BY <1>0 DEF Joins
  <2> QED
    BY <2>1, ListIs
<1>3. \A i \in 1..Len(t) : at + i - 1 = Len(s) + i
  BY <1>1, <1>2
<1>4. {i \in DOMAIN j : j[i].payload = id} = at..(at + Len(kinds) - 1)
  <2>1. ASSUME NEW i \in DOMAIN j, j[i].payload = id PROVE i \in at..(at + Len(kinds) - 1)
    <3>1. i \notin 1..Len(s)
      BY <1>2, <2>1
    <3> QED
      BY <1>1, <1>2, <3>1
  <2>2. ASSUME NEW i \in at..(at + Len(kinds) - 1) PROVE i \in DOMAIN j /\ j[i].payload = id
    <3>1. i - Len(s) \in 1..Len(t) /\ i = Len(s) + (i - Len(s)) /\ i \in DOMAIN j
      BY <1>1, <1>2
    <3>2. j[i] = t[i - Len(s)]
      BY <1>2, <3>1
    <3> QED
      BY <3>1, <3>2
  <2> QED
    BY <2>1, <2>2
<1>5. \A i \in DOMAIN kinds : j[at + i - 1].kind = kinds[i]
  BY <1>2, <1>3
<1>6. at \in DOMAIN j
  BY <1>1, <1>2
<1> QED
  BY <1>0, <1>1, <1>4, <1>5, <1>6 DEF SpanIsShown
\* One more span is added to what is shown.
LEMMA ShowsMore ==
    ASSUME NEW spans \in Seq(SpanRecord), NEW m \in Nat, m + 1 <= Len(spans),
           \A i, j \in 1..Len(spans) : spans[i].id = spans[j].id => i = j,
           NEW b, IsBuilt(b), Shows(b.events, spans, m),
           NEW c, c = AddSpan(b, spans[m + 1]), c.ok
    PROVE  Shows(c.events, spans, m + 1)
<1>0. /\ m + 1 \in 1..Len(spans) /\ \A i \in 1..m : i \in 1..Len(spans) /\ i # m + 1
      /\ \A i \in 1..(m + 1) : i \in 1..m \/ i = m + 1
  OBVIOUS
<1>1. PICK span : span = spans[m + 1]
  OBVIOUS
<1>2. span \in SpanRecord /\ span.id # NoSpan
  <2>1. span \in SpanRecord
    BY <1>0, <1>1
  <2> QED
    BY <2>1, LimitsAssumption DEF SpanRecord, Span, NoSpan
<1>3. PICK parent, track, s, t :
         /\ span.data \in SpanKinds
         /\ s = b.events /\ t = SpanEvents(Len(b.events), span, parent, track)
         /\ c.events = s \o t
  <2>1. c = AddSpan(b, span)
    BY <1>1
  <2>2. span.data \in SpanKinds /\ Adds(b, c, span)
    BY <1>2, <2>1, AddSpanAdds
  <2> QED
    BY <2>2 DEF Adds
<1>4. PICK kinds : kinds = KindsOf(span.data)
  OBVIOUS
<1>5. /\ IsList(t) /\ Len(t) = Len(kinds) /\ Len(t) \in {1, 2} /\ DOMAIN kinds = 1..Len(kinds)
      /\ \A i \in 1..Len(t) : t[i].payload = span.id /\ t[i].kind = kinds[i]
  <2>1. PICK n : n = Len(b.events)
    OBVIOUS
  <2>2. span.data \in SpanKinds /\ t = SpanEvents(n, span, parent, track)
    BY <1>3, <2>1
  <2>3. StandsFor(t, span, kinds)
    BY <1>4, <2>2, EventsStand
  <2> QED
    BY <2>3 DEF StandsFor
<1>6. Shows(s, spans, m)
  BY <1>3
<1>7. \A i \in 1..m : spans[i].id # span.id
  BY <1>0, <1>1
<1>8. \A j \in 1..Len(s) : s[j].payload # span.id
  BY <1>2, <1>6, <1>7 DEF Shows
<1>9. PICK e : e = s \o t
  OBVIOUS
<1>10. /\ Len(s) \in Nat /\ IsList(e) /\ Len(e) = Len(s) + Len(t)
       /\ \A i \in 1..Len(s) : e[i] = s[i]
       /\ \A i \in 1..Len(t) : e[Len(s) + i] = t[i]
  <2>1. IsList(s) /\ IsList(t)
    BY <1>5, <1>6 DEF Shows
  <2> QED
    BY <1>9, <2>1, Joined, ListIs
<1>11. ASSUME NEW j \in 1..Len(e)
       PROVE  e[j].payload = NoSpan \/ \E i \in 1..(m + 1) : e[j].payload = spans[i].id
  <2>1. CASE j \in 1..Len(s)
    <3>1. e[j] = s[j]
      BY <1>10, <2>1
    <3>2. s[j].payload = NoSpan \/ \E i \in 1..m : s[j].payload = spans[i].id
      BY <1>6, <2>1 DEF Shows
    <3>3. 1..m \subseteq 1..(m + 1)
      OBVIOUS
    <3> QED
      BY <3>1, <3>2, <3>3
  <2>2. CASE j \notin 1..Len(s)
    <3>1. j - Len(s) \in 1..Len(t) /\ j = Len(s) + (j - Len(s))
      BY <1>5, <1>10, <2>2
    <3>2. PICK k : k = j - Len(s)
      OBVIOUS
    <3>3. k \in 1..Len(t) /\ e[j] = t[k]
      BY <1>10, <3>1, <3>2
    <3>4. e[j].payload = span.id
      BY <1>5, <3>3
    <3>5. m + 1 \in 1..(m + 1)
      OBVIOUS
    <3> QED
      BY <1>1, <3>4, <3>5
  <2> QED
    BY <2>1, <2>2
<1>12. \E j \in 1..Len(e) : e[j].payload = NoSpan
  <2>1. PICK j \in 1..Len(s) : s[j].payload = NoSpan
    BY <1>6 DEF Shows
  <2>2. j \in 1..Len(e) /\ e[j] = s[j]
    BY <1>5, <1>10
  <2> QED
    BY <2>1, <2>2
<1>13. ASSUME NEW i \in 1..(m + 1)
       PROVE  /\ spans[i].data \in SpanKinds
              /\ SpanIsShown(e, spans[i].id, KindsOf(spans[i].data))
  <2>1. CASE i = m + 1
    <3>1. SpanIsShown(e, span.id, kinds)
      <4>1. PICK id : id = span.id
        OBVIOUS
      <4>2. IsList(s) /\ Len(t) # 0
        BY <1>5, <1>6 DEF Shows
      <4>3. /\ \A k \in 1..Len(s) : s[k].payload # id
            /\ \A k \in 1..Len(t) : t[k].payload = id /\ t[k].kind = kinds[k]
        BY <1>5, <1>8, <4>1
      <4>4. SpanIsShown(s \o t, id, kinds)
        BY <1>5, <4>2, <4>3, ShownAfter
      <4> QED
        BY <1>9, <4>1, <4>4
    <3> QED
      BY <1>1, <1>3, <1>4, <2>1, <3>1
  <2>2. CASE i \in 1..m
    <3>1. PICK old : old = KindsOf(spans[i].data)
      OBVIOUS
    <3>2. spans[i].data \in SpanKinds /\ SpanIsShown(s, spans[i].id, old)
      BY <1>6, <2>2, <3>1 DEF Shows
    <3>3. Len(old) \in Nat /\ DOMAIN old = 1..Len(old)
      BY <3>1, <3>2, KindsListed
    <3>4. \A j \in 1..Len(t) : t[j].payload # spans[i].id
      BY <1>5, <1>7, <2>2
    <3>5. SpanIsShown(e, spans[i].id, old)
      BY <1>5, <1>6, <1>9, <3>2, <3>3, <3>4, ShownStays DEF Shows
    <3> QED
      BY <3>1, <3>2, <3>5
  <2> QED
    BY <1>0, <2>1, <2>2
<1>14. Shows(e, spans, m + 1)
  BY <1>10, <1>11, <1>12, <1>13 DEF Shows
<1> QED
  BY <1>3, <1>9, <1>14

\* The capsule of a trace shows the run and each of its spans.
LEMMA BuildShows ==
    ASSUME NEW spans \in Seq(SpanRecord),
           \A i, j \in 1..Len(spans) : spans[i].id = spans[j].id => i = j,
           Build(spans).ok
    PROVE  Shows(Build(spans).events, spans, Len(spans))
<1>0. Len(spans) \in Nat
  OBVIOUS
<1>1. PICK f : /\ Build(spans) = f[Len(spans)]
               /\ f[0] = Blank
               /\ \A n \in 1..Len(spans) : f[n] = AddSpan(f[n - 1], spans[n])
  BY BuildIs
<1> DEFINE Good == {m \in Nat : m <= Len(spans) =>
                       IsBuilt(f[m]) /\ (f[m].ok => Shows(f[m].events, spans, m))}
<1>2. 0 \in Good
  <2>1. PICK e, rest, t :
           Blank = [ok |-> TRUE, events |-> <<e>>, tail |-> rest, track |-> t] /\ e.payload = NoSpan
    <3>1. PICK e : e = NewEvent(0, "run", None, {}, NoSpan)
      OBVIOUS
    <3>2. e.payload = NoSpan
      BY <3>1 DEF NewEvent
    <3> QED
      BY <3>1, <3>2, ZenonT(30) DEF Blank
  <2>2. IsBuilt(Blank) /\ Blank.events = <<e>>
    BY <2>1 DEF IsBuilt
  <2>3. Shows(<<e>>, spans, 0)
    BY <2>1 DEF Shows, IsList, Range
  <2> QED
    BY <1>1, <2>2, <2>3
<1>3. ASSUME NEW m \in Nat, m \in Good PROVE m + 1 \in Good
  <2>1. SUFFICES ASSUME m + 1 <= Len(spans)
                 PROVE  /\ IsBuilt(f[m + 1])
                        /\ f[m + 1].ok => Shows(f[m + 1].events, spans, m + 1)
    OBVIOUS
  <2>2. IsBuilt(f[m]) /\ (f[m].ok => Shows(f[m].events, spans, m))
    BY <1>0, <1>3, <2>1
  <2>3. m + 1 \in 1..Len(spans) /\ (m + 1) - 1 = m
    BY <1>0, <2>1
  <2>4. f[m + 1] = AddSpan(f[m], spans[m + 1]) /\ spans[m + 1] \in SpanRecord
    BY <1>1, <2>3
  <2>5. IsBuilt(f[m + 1]) /\ (f[m + 1].ok => f[m].ok)
    <3>1. PICK b, c, span : b = f[m] /\ c = f[m + 1] /\ span = spans[m + 1]
      OBVIOUS
    <3>2. IsBuilt(b) /\ span \in SpanRecord /\ c = AddSpan(b, span)
      BY <2>2, <2>4, <3>1
    <3>3. IsBuilt(c) /\ (c.ok => b.ok)
      BY <3>2, AddSpanAdds
    <3> QED
      BY <3>1, <3>3
  <2>6. f[m + 1].ok => Shows(f[m + 1].events, spans, m + 1)
    BY <2>1, <2>2, <2>4, <2>5, ShowsMore
  <2> QED
    BY <2>5, <2>6
<1> HIDE DEF Good
<1>4. Len(spans) \in Good
  BY <1>0, <1>2, <1>3, Counting
<1> QED
  BY <1>1, <1>4 DEF Good
-------------------------------------------------------------------------------
(* What the traced process has been told.                                    *)

TraceRecord == [spans : Seq(SpanRecord), failed : BOOLEAN]

\* The open traces; each of their spans has a number of its own.
TracesTyped ==
    /\ starts \in 0..MaxStarts
    /\ DOMAIN traces \subseteq Trace
    /\ traces \in [DOMAIN traces -> TraceRecord]
    /\ \A t \in DOMAIN traces :
          /\ traces[t].failed => failure
          /\ \A i \in 1..Len(traces[t].spans) : traces[t].spans[i].id <= starts
          /\ \A i, j \in 1..Len(traces[t].spans) :
                traces[t].spans[i].id = traces[t].spans[j].id => i = j

\* What was told of a trace is what it holds.
ToldOf(t) ==
    /\ <<t, NoSpan>> \in DOMAIN told <=> t \in DOMAIN traces
    /\ \A s \in Span : <<t, s>> \in DOMAIN told <=> Has(t, s)
    /\ t \in DOMAIN traces =>
          \A i \in 1..Len(traces[t].spans) :
              told[<<t, traces[t].spans[i].id>>] = traces[t].spans[i].data

\* Until a trace is completed, or something fails, all that was told is about
\* the open traces.
ToldIsOpen ==
    /\ DOMAIN told \subseteq Trace \X (Span \union {NoSpan})
    /\ ~failure /\ ~closed /\ completed = <<>> => \A t \in Trace : ToldOf(t)

\* After that, if nothing else is open, the completed capsule shows it all.
CompletedShows ==
    /\ ~failure /\ ~closed /\ completed # <<>> /\ DOMAIN traces = {} => ShowsAll(completed[1])
    /\ writing => ShowsAll(completed[1])

ShownInv == TracesTyped /\ ToldIsOpen /\ CompletedShows

\* on_span_start: the trace has one more span, with the next number.
LEMMA SpanStarts ==
    ASSUME TracesTyped, NEW trace \in Trace, NEW parent \in Span \union {NoSpan},
           OnSpanStart(trace, parent), NEW old, old = traces[trace].spans
    PROVE  \E new, flag :
               /\ trace \in DOMAIN traces /\ old \in Seq(SpanRecord)
               /\ traces' = [traces EXCEPT ![trace] = [spans |-> new, failed |-> flag]]
               /\ flag \in BOOLEAN /\ (flag => failure')
               /\ new \in Seq(SpanRecord) /\ Len(new) = Len(old) + 1
               /\ \A i \in 1..Len(old) : new[i] = old[i]
               /\ new[Len(new)].id = starts' /\ new[Len(new)].data = None
               /\ starts' = starts + 1 /\ starts' \in Span /\ starts' \in 0..MaxStarts
<1>1. trace \in DOMAIN traces /\ old \in Seq(SpanRecord) /\ traces[trace].failed \in BOOLEAN
  BY DEF OnSpanStart, TracesTyped, TraceRecord
<1>2. starts' = starts + 1 /\ starts' \in Span /\ starts' \in 0..MaxStarts
  BY LimitsAssumption DEF OnSpanStart, TracesTyped, Span
<1>3. PICK span : span = [id |-> starts', parent |-> parent, data |-> None]
  OBVIOUS
<1>4. span \in SpanRecord /\ span.id = starts' /\ span.data = None
  BY <1>2, <1>3 DEF SpanRecord
<1>5. PICK new : new = Append(old, span)
  OBVIOUS
<1>6. /\ new \in Seq(SpanRecord) /\ Len(new) = Len(old) + 1 /\ new[Len(old) + 1] = span
      /\ \A i \in 1..Len(old) : new[i] = old[i]
  BY <1>1, <1>4, <1>5, AppendProperties
<1>7. PICK flag : flag = (traces[trace].failed \/ OverBudget(Len(new)))
  OBVIOUS
<1>8. flag \in BOOLEAN
  BY <1>7
<1>9. traces' = [traces EXCEPT ![trace] = [spans |-> new, failed |-> flag]]
  BY <1>3, <1>5, <1>7 DEF OnSpanStart
<1>10. flag => failure'
  <2>1. CASE OverBudget(Len(new))
    BY <1>3, <1>5, <2>1 DEF OnSpanStart, Fail
  <2>2. CASE ~OverBudget(Len(new))
    <3>1. failure' = failure
      BY <1>3, <1>5, <2>2 DEF OnSpanStart
    <3> QED
      BY <1>1, <1>7, <2>2, <3>1 DEF TracesTyped
  <2> QED
    BY <2>1, <2>2
<1> QED
  BY <1>1, <1>2, <1>4, <1>6, <1>8, <1>9, <1>10

\* on_span_end: a span of the trace gets its data, the others stay.
LEMMA SpanEnds ==
    ASSUME TracesTyped, NEW trace \in Trace, NEW span \in Span, NEW data \in SpanKinds,
           OnSpanEnd(trace, span, data), NEW old, old = traces[trace].spans
    PROVE  \E new :
               /\ trace \in DOMAIN traces /\ old \in Seq(SpanRecord)
               /\ traces' = [traces EXCEPT ![trace].spans = new]
               /\ new \in Seq(SpanRecord) /\ Len(new) = Len(old)
               /\ \A i \in 1..Len(old) :
                     /\ new[i].id = old[i].id
                     /\ new[i].data = IF old[i].id = span THEN data ELSE old[i].data
<1>1. trace \in DOMAIN traces /\ old \in Seq(SpanRecord)
  BY DEF OnSpanEnd, Has, TracesTyped, TraceRecord
<1>2. PICK new : new = [i \in DOMAIN old |->
                           IF old[i].id = span THEN [old[i] EXCEPT !.data = data] ELSE old[i]]
  OBVIOUS
<1>3. Len(old) \in Nat /\ DOMAIN old = 1..Len(old)
  BY <1>1
<1>4. ASSUME NEW i \in 1..Len(old)
      PROVE  /\ new[i] \in SpanRecord /\ new[i].id = old[i].id
             /\ new[i].data = IF old[i].id = span THEN data ELSE old[i].data
  <2>1. PICK o : o = old[i] /\ o \in SpanRecord
    BY <1>1, <1>3
  <2>2. new[i] = IF o.id = span THEN [o EXCEPT !.data = data] ELSE o
    BY <1>2, <1>3, <2>1
  <2>3. PICK p : p = [o EXCEPT !.data = data]
    OBVIOUS
  <2>4. p \in SpanRecord /\ p.id = o.id /\ p.data = data
    BY <2>1, <2>3 DEF SpanRecord
  <2> QED
    BY <2>1, <2>2, <2>3, <2>4
<1>5. new \in [1..Len(old) -> SpanRecord]
  BY <1>2, <1>3, <1>4
<1>6. new \in Seq(SpanRecord) /\ Len(new) = Len(old)
  BY <1>3, <1>5
<1>7. traces' = [traces EXCEPT ![trace].spans = new]
  BY <1>2 DEF OnSpanEnd
<1> QED
  BY ZenonT(60), <1>1, <1>4, <1>6, <1>7
\* Every callback keeps the numbers of spans apart, and marks a trace as failed
\* only when it fails as a whole.
LEMMA StepTraces ==
    ASSUME TracesTyped, FailureIsKept, ProcessorStep
    PROVE  TracesTyped'
<1> DEFINE TraceOk(t, n, failed) ==
              /\ t.failed => failed
              /\ \A i \in 1..Len(t.spans) : t.spans[i].id <= n
              /\ \A i, j \in 1..Len(t.spans) : t.spans[i].id = t.spans[j].id => i = j
<1>0. /\ starts \in 0..MaxStarts /\ failure \in BOOLEAN
      /\ DOMAIN traces \subseteq Trace
      /\ traces \in [DOMAIN traces -> TraceRecord]
      /\ \A t \in DOMAIN traces : TraceOk(traces[t], starts, failure)
  BY DEF TracesTyped, FailureIsKept
<1>a. ASSUME starts' \in 0..MaxStarts, DOMAIN traces' \subseteq Trace,
             traces' \in [DOMAIN traces' -> TraceRecord],
             \A t \in DOMAIN traces' : TraceOk(traces'[t], starts', failure')
      PROVE  TracesTyped'
  BY <1>a DEF TracesTyped
<1> HIDE DEF TraceOk
<1>b. \A failed : (failure => failed) => \A t \in DOMAIN traces : TraceOk(traces[t], starts, failed)
  BY <1>0 DEF TraceOk
<1>1. CASE UNCHANGED <<traces, starts>> /\ (failure => failure')
  BY <1>0, <1>a, <1>b, <1>1
<1>2. CASE traces' = <<>> /\ UNCHANGED starts
  <2>1. DOMAIN traces' = {} /\ traces' \in [DOMAIN traces' -> TraceRecord]
    BY <1>2
  <2> QED
    BY <1>0, <1>2, <1>a, <2>1
<1>3. ASSUME NEW trace \in Trace, OnTraceStart(trace) PROVE TracesTyped'
  <2>1. PICK t : t = [spans |-> <<>>, failed |-> FALSE]
    OBVIOUS
  <2>2. /\ traces' = [k \in DOMAIN traces \union {trace} |-> IF k = trace THEN t ELSE traces[k]]
        /\ UNCHANGED <<starts, failure>>
    BY <1>3, <2>1 DEF OnTraceStart, With
  <2>3. t \in TraceRecord /\ TraceOk(t, starts, failure)
    BY <2>1 DEF TraceRecord, TraceOk
  <2> QED
    BY <1>0, <1>a, <2>2, <2>3
<1>4. ASSUME NEW trace \in Trace, OnTraceEnd(trace) PROVE TracesTyped'
  <2>1. /\ traces' = [k \in DOMAIN traces \ {trace} |-> traces[k]] /\ UNCHANGED starts
        /\ failure => failure'
    BY <1>4 DEF OnTraceEnd, Restrict, Fail
  <2> QED
    BY <1>0, <1>a, <1>b, <2>1
<1>5. ASSUME NEW trace \in Trace, FailTrace(trace) PROVE TracesTyped'
  <2>1. /\ trace \in DOMAIN traces /\ failure' = TRUE /\ UNCHANGED starts
        /\ traces' = [traces EXCEPT ![trace].failed = TRUE]
    BY <1>5 DEF FailTrace, Fail
  <2>2. PICK t, u : t = traces[trace] /\ u = [t EXCEPT !.failed = TRUE]
    OBVIOUS
  <2>3. t \in TraceRecord /\ TraceOk(t, starts, failure)
    BY <1>0, <2>1, <2>2
  <2>4. u \in TraceRecord /\ u.spans = t.spans /\ u.failed = TRUE
    BY <2>2, <2>3 DEF TraceRecord
  <2>5. TraceOk(u, starts, TRUE)
    BY <2>3, <2>4 DEF TraceOk
  <2>6. traces' = [traces EXCEPT ![trace] = u]
    BY <2>1, <2>2
  <2> QED
    BY <1>0, <1>a, <1>b, <2>1, <2>4, <2>5, <2>6
<1>6. ASSUME NEW trace \in Trace, NEW parent \in Span \union {NoSpan}, OnSpanStart(trace, parent)
      PROVE  TracesTyped'
  <2>1. PICK old : old = traces[trace].spans
    OBVIOUS
  <2>2. PICK new, flag :
               /\ trace \in DOMAIN traces /\ old \in Seq(SpanRecord)
               /\ traces' = [traces EXCEPT ![trace] = [spans |-> new, failed |-> flag]]
               /\ flag \in BOOLEAN /\ (flag => failure')
               /\ new \in Seq(SpanRecord) /\ Len(new) = Len(old) + 1
               /\ \A i \in 1..Len(old) : new[i] = old[i]
               /\ new[Len(new)].id = starts' /\ new[Len(new)].data = None
               /\ starts' = starts + 1 /\ starts' \in Span /\ starts' \in 0..MaxStarts
    BY <1>6, <2>1, SpanStarts
  <2>3. failure => failure'
    BY <1>6 DEF OnSpanStart, Fail
  <2>4. PICK u : u = [spans |-> new, failed |-> flag]
    OBVIOUS
  <2>5. u \in TraceRecord /\ u.spans = new /\ u.failed = flag
    BY <2>2, <2>4 DEF TraceRecord
  <2>6. /\ \A i \in 1..Len(old) : old[i].id \in Span /\ old[i].id <= starts
        /\ \A i, j \in 1..Len(old) : old[i].id = old[j].id => i = j
    <3>1. TraceOk(traces[trace], starts, failure)
      BY <1>0, <2>2
    <3>2. \A i \in 1..Len(old) : old[i] \in SpanRecord
      BY <2>2
    <3> QED
      BY <2>1, <3>1, <3>2 DEF TraceOk, SpanRecord
  <2>7. starts \in Int /\ Len(old) \in Nat /\ \A i \in 1..Len(new) : i \in 1..Len(old) \/ i = Len(new)
    BY <1>0, <2>2
  <2>8. ASSUME NEW i \in 1..Len(new) PROVE new[i].id <= starts'
    <3>1. CASE i \in 1..Len(old)
      BY <2>2, <2>6, <2>7, <3>1 DEF Span
    <3>2. CASE i = Len(new)
      BY <2>2, <3>2
    <3> QED
      BY <2>7, <3>1, <3>2
  <2>9. ASSUME NEW i \in 1..Len(old) PROVE new[i].id # new[Len(new)].id
    BY <2>2, <2>6, <2>7 DEF Span
  <2>10. ASSUME NEW i \in 1..Len(new), NEW j \in 1..Len(new), new[i].id = new[j].id PROVE i = j
    <3>1. CASE i \in 1..Len(old) /\ j \in 1..Len(old)
      BY <2>2, <2>6, <2>10, <3>1
    <3> QED
      BY <2>7, <2>9, <2>10, <3>1
  <2>11. TraceOk(u, starts', failure')
    BY <2>2, <2>5, <2>8, <2>10 DEF TraceOk
  <2>12. \A t \in DOMAIN traces : TraceOk(traces[t], starts', failure')
    <3> SUFFICES ASSUME NEW t \in DOMAIN traces PROVE TraceOk(traces[t], starts', failure')
      OBVIOUS
    <3>1. TraceOk(traces[t], starts, failure) /\ traces[t].spans \in Seq(SpanRecord)
      BY <1>0 DEF TraceRecord
    <3>2. PICK s : s = traces[t].spans
      OBVIOUS
    <3>3. \A i \in 1..Len(s) : s[i] \in SpanRecord
      BY <3>1, <3>2
    <3>4. \A i \in 1..Len(s) : s[i].id \in Int
      BY <3>3 DEF SpanRecord, Span
    <3> QED
      BY <2>2, <2>3, <2>7, <3>1, <3>2, <3>4 DEF TraceOk
  <2> QED
    BY <1>0, <1>a, <2>2, <2>4, <2>5, <2>11, <2>12
<1>7. ASSUME NEW trace \in Trace, NEW span \in Span, NEW data \in SpanKinds,
             OnSpanEnd(trace, span, data)
      PROVE  TracesTyped'
  <2>1. PICK old : old = traces[trace].spans
    OBVIOUS
  <2>2. PICK new :
               /\ trace \in DOMAIN traces /\ old \in Seq(SpanRecord)
               /\ traces' = [traces EXCEPT ![trace].spans = new]
               /\ new \in Seq(SpanRecord) /\ Len(new) = Len(old)
               /\ \A i \in 1..Len(old) :
                     /\ new[i].id = old[i].id
                     /\ new[i].data = IF old[i].id = span THEN data ELSE old[i].data
    BY <1>7, <2>1, SpanEnds
  <2>3. UNCHANGED <<starts, failure>>
    BY <1>7 DEF OnSpanEnd
  <2>4. PICK t, u : t = traces[trace] /\ u = [t EXCEPT !.spans = new]
    OBVIOUS
  <2>5. t \in TraceRecord /\ TraceOk(t, starts, failure)
    BY <1>0, <2>2, <2>4
  <2>6. u \in TraceRecord /\ u.spans = new /\ u.failed = t.failed
    BY <2>2, <2>4, <2>5 DEF TraceRecord
  <2>7. TraceOk(u, starts, failure)
    BY SMTT(60), <2>1, <2>2, <2>4, <2>5, <2>6 DEF TraceOk
  <2>8. traces' = [traces EXCEPT ![trace] = u]
    BY <2>2, <2>4
  <2> QED
    BY <1>0, <1>a, <2>3, <2>6, <2>7, <2>8
<1>8. CASE OutOfOrder \/ OpenFile \/ WriteFile \/ WriteFails
  <2>1. UNCHANGED <<traces, starts>> /\ (failure => failure')
    BY <1>8 DEF OutOfOrder, OpenFile, WriteFile, WriteFails, Fail, processor
  <2> QED
    BY <1>1, <2>1
<1>9. CASE Shutdown
  BY <1>2, <1>9 DEF Shutdown
<1> QED
  BY <1>3, <1>4, <1>5, <1>6, <1>7, <1>8, <1>9 DEF ProcessorStep
\* Nothing is told of the other traces.
LEMMA ToldOfOther ==
    ASSUME NEW t \in Trace, ToldOf(t),
           t \in DOMAIN traces' <=> t \in DOMAIN traces,
           t \in DOMAIN traces => traces'[t] = traces[t],
           \A s \in Span \union {NoSpan} : /\ <<t, s>> \in DOMAIN told' <=> <<t, s>> \in DOMAIN told
                                           /\ <<t, s>> \in DOMAIN told => told'[<<t, s>>] = told[<<t, s>>],
           TracesTyped
    PROVE  ToldOf(t)'
<1>1. ASSUME t \in DOMAIN traces, NEW i \in 1..Len(traces[t].spans)
      PROVE  traces[t].spans[i].id \in Span /\ <<t, traces[t].spans[i].id>> \in DOMAIN told
  <2>1. PICK s : s = traces[t].spans
    OBVIOUS
  <2>2. s \in Seq(SpanRecord)
    BY <1>1, <2>1 DEF TracesTyped, TraceRecord
  <2>3. s[i] \in SpanRecord /\ i \in DOMAIN s
    BY <1>1, <2>1, <2>2
  <2>4. s[i].id \in Span /\ Has(t, s[i].id)
    BY <1>1, <2>1, <2>3 DEF SpanRecord, Has
  <2> QED
    BY <2>1, <2>4 DEF ToldOf
<1>2. (<<t, NoSpan>> \in DOMAIN told <=> t \in DOMAIN traces)'
  BY DEF ToldOf
<1>3. (\A s \in Span : <<t, s>> \in DOMAIN told <=> Has(t, s))'
  BY DEF ToldOf, Has
<1>4. (t \in DOMAIN traces =>
          \A i \in 1..Len(traces[t].spans) :
              told[<<t, traces[t].spans[i].id>>] = traces[t].spans[i].data)'
  BY <1>1 DEF ToldOf
<1> QED
  BY <1>2, <1>3, <1>4 DEF ToldOf

\* Every callback that does not fail tells what it changes, and only that.
LEMMA StepTold ==
    ASSUME TracesTyped, FailureIsKept, ToldIsOpen, ProcessorStep
    PROVE  ToldIsOpen'
<1> DEFINE Keys == Trace \X (Span \union {NoSpan})
           Good == ~failure /\ ~closed /\ completed = <<>>
<1>0. DOMAIN told \subseteq Keys /\ (Good => \A t \in Trace : ToldOf(t)) /\ (~failure => ~refused)
  BY DEF ToldIsOpen, FailureIsKept
<1>a. ASSUME DOMAIN told' \subseteq Keys, Good' => \A t \in Trace : ToldOf(t)' PROVE ToldIsOpen'
  BY <1>a DEF ToldIsOpen
<1>b. ASSUME failure' \/ closed' \/ completed' # <<>>, told' = told \/ told' = <<>> PROVE ToldIsOpen'
  <2>1. DOMAIN told' \subseteq Keys
    BY <1>0, <1>b
  <2> QED
    BY <1>a, <1>b, <2>1
<1>1. CASE Fail
  BY <1>b, <1>1 DEF Fail
<1>2. CASE Shutdown \/ OpenFile \/ WriteFile \/ WriteFails
  <2>1. told' = told
    BY <1>2 DEF Shutdown, OpenFile, WriteFile, WriteFails, processor
  <2>2. closed' \/ failure'
    BY <1>2 DEF Shutdown, OpenFile, WriteFile, WriteFails, processor, FailureIsKept
  <2> QED
    BY <1>b, <2>1, <2>2
<1>3. ASSUME NEW trace \in Trace, OnTraceStart(trace) PROVE ToldIsOpen'
  <2>1. PICK key, u : key = <<trace, NoSpan>> /\ u = [spans |-> <<>>, failed |-> FALSE]
    OBVIOUS
  <2>2. /\ trace \notin DOMAIN traces /\ UNCHANGED <<failure, closed, completed>>
        /\ traces' = [k \in DOMAIN traces \union {trace} |-> IF k = trace THEN u ELSE traces[k]]
        /\ told' = IF closed \/ refused THEN told
                   ELSE [k \in DOMAIN told \union {key} |-> IF k = key THEN None ELSE told[k]]
    BY <1>3, <2>1 DEF OnTraceStart, With, Tell
  <2>3. key \in Keys
    BY <2>1
  <2>4. DOMAIN told' \subseteq Keys
    BY <1>0, <2>2, <2>3
  <2>5. ASSUME Good', NEW t \in Trace PROVE ToldOf(t)'
    <3>1. /\ ToldOf(t)
          /\ told' = [k \in DOMAIN told \union {key} |-> IF k = key THEN None ELSE told[k]]
      BY <1>0, <2>2, <2>5
    <3>2. CASE t # trace
      <4>1. \A s \in Span \union {NoSpan} : <<t, s>> # key
        BY <2>1, <3>2
      <4>2. \A s \in Span \union {NoSpan} : /\ <<t, s>> \in DOMAIN told' <=> <<t, s>> \in DOMAIN told
                                            /\ <<t, s>> \in DOMAIN told => told'[<<t, s>>] = told[<<t, s>>]
        BY <3>1, <4>1
      <4>3. (t \in DOMAIN traces' <=> t \in DOMAIN traces) /\ (t \in DOMAIN traces => traces'[t] = traces[t])
        BY <2>2, <3>2
      <4> QED
        BY <3>1, <4>2, <4>3, ToldOfOther
    <3>3. CASE t = trace
      <4>1. t \in DOMAIN traces' /\ traces'[t] = u /\ t \notin DOMAIN traces
        BY <2>2, <3>3
      <4>2. key \in DOMAIN told' /\ \A s \in Span : <<t, s>> \in DOMAIN told' <=> <<t, s>> \in DOMAIN told
        <5>1. \A s \in Span : <<t, s>> # key
          BY <2>1, LimitsAssumption DEF Span, NoSpan
        <5> QED
          BY <3>1, <5>1
      <4>3. \A s \in Span : <<t, s>> \notin DOMAIN told
        BY <3>1, <4>1 DEF ToldOf, Has
      <4>4. u.spans = <<>>
        BY <2>1
      <4> QED
        BY <2>1, <3>3, <4>1, <4>2, <4>3, <4>4 DEF ToldOf, Has
    <3> QED
      BY <3>2, <3>3
  <2> QED
    BY <1>a, <2>4, <2>5
<1>4. ASSUME NEW trace \in Trace, OnTraceEnd(trace) PROVE ToldIsOpen'
  <2>1. CASE Fail
    BY <1>1, <2>1
  <2>2. CASE traces[trace].failed /\ UNCHANGED told
    <3>1. failure
      BY <1>4, <2>2 DEF OnTraceEnd, TracesTyped
    <3>2. failure' \/ Fail
      BY <1>4, <3>1 DEF OnTraceEnd
    <3> QED
      BY <1>1, <1>b, <2>2, <3>2
  <2>3. CASE completed' # <<>> /\ UNCHANGED told
    BY <1>b, <2>3
  <2>4. \/ \E x : completed' = <<x>> /\ UNCHANGED told
        \/ traces[trace].failed /\ UNCHANGED told
        \/ Fail
    BY <1>4 DEF OnTraceEnd
  <2>5. \A x : <<x>> # <<>>
    OBVIOUS
  <2> QED
    BY <2>1, <2>2, <2>3, <2>4, <2>5
<1>5. ASSUME NEW trace \in Trace, FailTrace(trace) PROVE ToldIsOpen'
  BY <1>1, <1>5 DEF FailTrace
<1>6. ASSUME NEW trace \in Trace, NEW parent \in Span \union {NoSpan}, OnSpanStart(trace, parent)
      PROVE  ToldIsOpen'
  <2>1. PICK old, key : old = traces[trace].spans /\ key = <<trace, starts'>>
    OBVIOUS
  <2>2. PICK new, flag :
               /\ trace \in DOMAIN traces /\ old \in Seq(SpanRecord)
               /\ traces' = [traces EXCEPT ![trace] = [spans |-> new, failed |-> flag]]
               /\ flag \in BOOLEAN /\ (flag => failure')
               /\ new \in Seq(SpanRecord) /\ Len(new) = Len(old) + 1
               /\ \A i \in 1..Len(old) : new[i] = old[i]
               /\ new[Len(new)].id = starts' /\ new[Len(new)].data = None
               /\ starts' = starts + 1 /\ starts' \in Span /\ starts' \in 0..MaxStarts
    BY SMTT(60), <1>6, <2>1, SpanStarts
  <2>3. \/ Fail
        \/ UNCHANGED <<failure, refused>> /\ Tell(key, None)
    BY <1>6, <2>1 DEF OnSpanStart
  <2>4. UNCHANGED <<closed, completed>>
    BY <1>6 DEF OnSpanStart
  <2>5. CASE Fail
    BY <1>1, <2>5
  <2>6. CASE UNCHANGED <<failure, refused>> /\ Tell(key, None)
    <3>1. told' = IF closed \/ refused THEN told
                  ELSE [k \in DOMAIN told \union {key} |-> IF k = key THEN None ELSE told[k]]
      BY <2>6 DEF Tell, With
    <3>2. key \in Keys
      BY <2>1, <2>2
    <3>3. DOMAIN told' \subseteq Keys
      BY <1>0, <3>1, <3>2
    <3>4. ASSUME Good', NEW t \in Trace PROVE ToldOf(t)'
      <4>1. /\ ToldOf(t)
            /\ told' = [k \in DOMAIN told \union {key} |-> IF k = key THEN None ELSE told[k]]
        BY <1>0, <2>4, <2>6, <3>1, <3>4
      <4>2. DOMAIN traces' = DOMAIN traces
        BY <2>2
      <4>3. CASE t # trace
        <5>1. \A s \in Span \union {NoSpan} : <<t, s>> # key
          BY <2>1, <4>3
        <5>2. \A s \in Span \union {NoSpan} : /\ <<t, s>> \in DOMAIN told' <=> <<t, s>> \in DOMAIN told
                                              /\ <<t, s>> \in DOMAIN told => told'[<<t, s>>] = told[<<t, s>>]
          BY <4>1, <5>1
        <5>3. t \in DOMAIN traces => traces'[t] = traces[t]
          BY <2>2, <4>3
        <5> QED
          BY <4>1, <4>2, <5>2, <5>3, ToldOfOther
      <4>4. CASE t = trace
        <5>1. traces'[t].spans = new /\ t \in DOMAIN traces'
          BY <2>2, <4>2, <4>4 DEF TracesTyped
        <5>2. /\ Len(old) \in Nat /\ DOMAIN old = 1..Len(old) /\ DOMAIN new = 1..Len(new)
              /\ \A i \in 1..Len(new) : i \in 1..Len(old) \/ i = Len(new)
              /\ \A i \in 1..Len(old) : i \in 1..Len(new) /\ old[i] \in SpanRecord
              /\ Len(new) \in 1..Len(new)
          BY <2>2
        <5>3. \A i \in 1..Len(old) : old[i].id \in Span /\ old[i].id # starts'
          <6>1. \A i \in 1..Len(old) : old[i].id <= starts
            BY SMTT(60), <2>1, <2>2 DEF TracesTyped
          <6>2. \A i \in 1..Len(old) : old[i].id \in Span
            BY <5>2 DEF SpanRecord
          <6> QED
            BY SMTT(60), <2>2, <6>1, <6>2 DEF Span, TracesTyped
        <5>4. starts' # NoSpan
          BY <2>2, LimitsAssumption DEF Span, NoSpan
        <5>5. <<t, NoSpan>> \in DOMAIN told'
          BY <2>2, <4>1, <4>4 DEF ToldOf
        <5>6. ASSUME NEW s \in Span PROVE <<t, s>> \in DOMAIN told' <=> \E i \in DOMAIN new : new[i].id = s
          <6>1. <<t, s>> \in DOMAIN told' <=> (<<t, s>> \in DOMAIN told \/ s = starts')
            BY SMTT(60), <2>1, <4>1, <4>4
          <6>2. <<t, s>> \in DOMAIN told <=> \E i \in DOMAIN old : old[i].id = s
            BY SMTT(60), <2>1, <2>2, <4>1, <4>4 DEF ToldOf, Has
          <6> QED
            BY SMTT(60), <2>2, <5>2, <6>1, <6>2
        <5>7. ASSUME NEW i \in 1..Len(new) PROVE told'[<<t, new[i].id>>] = new[i].data
          <6>1. CASE i = Len(new)
            <7>1. <<t, new[i].id>> = key
              BY <2>1, <2>2, <4>4, <6>1
            <7> QED
              BY <2>2, <4>1, <6>1, <7>1
          <6>2. CASE i \in 1..Len(old)
            <7>1. PICK k : k = <<t, old[i].id>>
              OBVIOUS
            <7>2. k # key
              BY <2>1, <5>3, <6>2, <7>1
            <7>3. k \in DOMAIN told
              BY <2>1, <2>2, <4>1, <4>4, <5>2, <5>3, <6>2, <7>1 DEF ToldOf, Has
            <7>4. told[k] = old[i].data
              BY <2>1, <2>2, <4>1, <4>4, <6>2, <7>1 DEF ToldOf
            <7> QED
              BY <2>2, <4>1, <6>2, <7>1, <7>2, <7>3, <7>4
          <6> QED
            BY <5>2, <6>1, <6>2
        <5>8. (<<t, NoSpan>> \in DOMAIN told <=> t \in DOMAIN traces)'
          BY <5>1, <5>5
        <5>9. (\A s \in Span : <<t, s>> \in DOMAIN told <=> Has(t, s))'
          BY <5>1, <5>6 DEF Has
        <5> QED
          BY <5>1, <5>7, <5>8, <5>9 DEF ToldOf
      <4> QED
        BY <4>3, <4>4
    <3> QED
      BY <1>a, <3>3, <3>4
  <2> QED
    BY <2>3, <2>5, <2>6
<1>7. ASSUME NEW trace \in Trace, NEW span \in Span, NEW data \in SpanKinds,
             OnSpanEnd(trace, span, data)
      PROVE  ToldIsOpen'
  <2>1. PICK old, key : old = traces[trace].spans /\ key = <<trace, span>>
    OBVIOUS
  <2>2. PICK new :
               /\ trace \in DOMAIN traces /\ old \in Seq(SpanRecord)
               /\ traces' = [traces EXCEPT ![trace].spans = new]
               /\ new \in Seq(SpanRecord) /\ Len(new) = Len(old)
               /\ \A i \in 1..Len(old) :
                     /\ new[i].id = old[i].id
                     /\ new[i].data = IF old[i].id = span THEN data ELSE old[i].data
    BY SMTT(60), <1>7, <2>1, SpanEnds
  <2>3. /\ UNCHANGED <<failure, closed, completed>>
        /\ told' = IF closed \/ refused THEN told
                   ELSE [k \in DOMAIN told \union {key} |-> IF k = key THEN data ELSE told[k]]
    BY <1>7, <2>1 DEF OnSpanEnd, Tell, With
  <2>4. DOMAIN told' \subseteq Keys
    <3>1. key \in Keys
      BY <2>1
    <3> QED
      BY <1>0, <2>3, <3>1
  <2>5. ASSUME Good', NEW t \in Trace PROVE ToldOf(t)'
    <3>1. /\ ToldOf(t)
          /\ told' = [k \in DOMAIN told \union {key} |-> IF k = key THEN data ELSE told[k]]
      BY <1>0, <2>3, <2>5
    <3>2. DOMAIN traces' = DOMAIN traces
      BY <2>2
    <3>3. CASE t # trace
      <4>1. \A s \in Span \union {NoSpan} : <<t, s>> # key
        BY <2>1, <3>3
      <4>2. \A s \in Span \union {NoSpan} : /\ <<t, s>> \in DOMAIN told' <=> <<t, s>> \in DOMAIN told
                                            /\ <<t, s>> \in DOMAIN told => told'[<<t, s>>] = told[<<t, s>>]
        BY <3>1, <4>1
      <4>3. t \in DOMAIN traces => traces'[t] = traces[t]
        BY <2>2, <3>3
      <4> QED
        BY <3>1, <3>2, <4>2, <4>3, ToldOfOther
    <3>4. CASE t = trace
      <4>1. traces'[t].spans = new /\ t \in DOMAIN traces'
        <5>1. PICK u, v : u = traces[t] /\ v = [u EXCEPT !.spans = new]
          OBVIOUS
        <5>2. u \in TraceRecord
          BY <2>2, <3>4, <5>1 DEF TracesTyped
        <5>3. v.spans = new
          BY <5>1, <5>2 DEF TraceRecord
        <5> QED
          BY <2>2, <3>2, <3>4, <5>1, <5>3
      <4>2. DOMAIN old = 1..Len(old) /\ DOMAIN new = 1..Len(old)
        BY <2>2
      <4>3. \A i \in 1..Len(old) : old[i].id \in Span
        <5>1. \A i \in 1..Len(old) : old[i] \in SpanRecord
          BY <2>2
        <5> QED
          BY <5>1 DEF SpanRecord
      <4>4. span # NoSpan /\ \E i \in DOMAIN old : old[i].id = span
        BY <1>7, <2>1, LimitsAssumption DEF OnSpanEnd, Has, Span, NoSpan
      <4>5. <<t, NoSpan>> \in DOMAIN told'
        BY <2>2, <3>1, <3>4 DEF ToldOf
      <4>6. ASSUME NEW s \in Span PROVE <<t, s>> \in DOMAIN told' <=> \E i \in DOMAIN new : new[i].id = s
        <5>1. <<t, s>> \in DOMAIN told' <=> (<<t, s>> \in DOMAIN told \/ s = span)
          BY <2>1, <3>1, <3>4
        <5>2. <<t, s>> \in DOMAIN told <=> \E i \in DOMAIN old : old[i].id = s
          BY <2>1, <2>2, <3>1, <3>4 DEF ToldOf, Has
        <5> QED
          BY <2>2, <4>2, <4>4, <5>1, <5>2
      <4>7. ASSUME NEW i \in 1..Len(new) PROVE told'[<<t, new[i].id>>] = new[i].data
        <5>1. PICK k : k = <<t, old[i].id>>
          OBVIOUS
        <5>2. i \in 1..Len(old) /\ new[i].id = old[i].id
          BY <2>2
        <5>3. k \in DOMAIN told /\ told[k] = old[i].data
          BY <2>1, <2>2, <3>1, <3>4, <4>2, <4>3, <5>1, <5>2 DEF ToldOf, Has
        <5>4. k = key <=> old[i].id = span
          BY <2>1, <3>4, <5>1
        <5>5. new[i].data = IF old[i].id = span THEN data ELSE old[i].data
          BY <2>2, <5>2
        <5> QED
          BY <3>1, <5>1, <5>2, <5>3, <5>4, <5>5
      <4>8. (<<t, NoSpan>> \in DOMAIN told <=> t \in DOMAIN traces)'
        BY <4>1, <4>5
      <4>9. (\A s \in Span : <<t, s>> \in DOMAIN told <=> Has(t, s))'
        BY <4>1, <4>6 DEF Has
      <4> QED
        BY <4>1, <4>7, <4>8, <4>9 DEF ToldOf
    <3> QED
      BY <3>3, <3>4
  <2> QED
    BY <1>a, <2>4, <2>5
<1>8. CASE OutOfOrder
  BY <1>1, <1>8 DEF OutOfOrder
<1> QED
  BY <1>2, <1>3, <1>4, <1>5, <1>6, <1>7, <1>8 DEF ProcessorStep

\* A completed capsule, of the only trace that was open, shows what was told.
LEMMA CompletedShowsAll ==
    ASSUME TracesTyped, ToldIsOpen, ~failure, ~closed, completed = <<>>,
           NEW trace, DOMAIN traces = {trace}, NEW spans, spans = traces[trace].spans,
           Build(spans).ok, NEW capsule,
           capsule.trace = trace, capsule.events = Build(spans).events
    PROVE  ShowsAll(capsule)
<1>1. /\ trace \in Trace /\ spans \in Seq(SpanRecord)
      /\ \A i, j \in 1..Len(spans) : spans[i].id = spans[j].id => i = j
  BY DEF TracesTyped, TraceRecord
<1>2. PICK events : events = Build(spans).events
  OBVIOUS
<1>3. Shows(events, spans, Len(spans))
  BY <1>1, <1>2, BuildShows
<1>4. /\ DOMAIN told \subseteq Trace \X (Span \union {NoSpan})
      /\ \A t \in Trace : ToldOf(t)
  BY DEF ToldIsOpen
<1>5. /\ DOMAIN spans = 1..Len(spans) /\ Len(spans) \in Nat
      /\ \A i \in 1..Len(spans) : spans[i].id \in Span
  <2>1. \A i \in 1..Len(spans) : spans[i] \in SpanRecord
    BY <1>1
  <2> QED
    BY <1>1, <2>1 DEF SpanRecord
<1>6. /\ <<trace, NoSpan>> \in DOMAIN told
      /\ \A s \in Span : <<trace, s>> \in DOMAIN told <=> \E i \in 1..Len(spans) : spans[i].id = s
      /\ \A i \in 1..Len(spans) : told[<<trace, spans[i].id>>] = spans[i].data
  BY <1>1, <1>4, <1>5 DEF ToldOf, Has
<1>7. ASSUME NEW key \in DOMAIN told
      PROVE  /\ key = <<trace, key[2]>> /\ key[1] = trace
             /\ key[2] = NoSpan \/ \E i \in 1..Len(spans) : key[2] = spans[i].id
  <2>1. PICK t \in Trace, s \in Span \union {NoSpan} : key = <<t, s>>
    BY <1>4
  <2>2. t = trace
    <3>1. t \in DOMAIN traces
      <4>1. ToldOf(t)
        BY <1>4
      <4>2. CASE s = NoSpan
        BY <2>1, <4>1, <4>2 DEF ToldOf
      <4>3. CASE s \in Span
        BY <2>1, <4>1, <4>3 DEF ToldOf, Has
      <4> QED
        BY <4>2, <4>3
    <3> QED
      BY <3>1
  <2> QED
    BY <1>6, <2>1, <2>2
<1>8. {e.payload : e \in Range(events)} = {key[2] : key \in DOMAIN told}
  <2>1. /\ \A e \in Range(events) : \E j \in 1..Len(events) : e = events[j]
        /\ \A j \in 1..Len(events) : events[j] \in Range(events)
    BY <1>3, ListIs DEF Shows
  <2>2. ASSUME NEW e \in Range(events) PROVE \E key \in DOMAIN told : e.payload = key[2]
    <3>1. e.payload = NoSpan \/ \E i \in 1..Len(spans) : e.payload = spans[i].id
      BY <1>3, <2>1 DEF Shows
    <3>2. PICK k : k = <<trace, e.payload>>
      OBVIOUS
    <3>3. k \in DOMAIN told /\ k[2] = e.payload
      BY <1>5, <1>6, <3>1, <3>2
    <3> QED
      BY <3>3
  <2>3. ASSUME NEW key \in DOMAIN told PROVE \E e \in Range(events) : e.payload = key[2]
    <3>1. CASE key[2] = NoSpan
      BY <1>3, <2>1, <3>1 DEF Shows
    <3>2. CASE \E i \in 1..Len(spans) : key[2] = spans[i].id
      <4>1. PICK i \in 1..Len(spans) : key[2] = spans[i].id
        BY <3>2
      <4>2. SpanIsShown(events, spans[i].id, KindsOf(spans[i].data)) /\ spans[i].data \in SpanKinds
        BY <1>3 DEF Shows
      <4>3. Len(KindsOf(spans[i].data)) \in {1, 2}
        BY <4>2 DEF KindsOf, SpanKinds
      <4> PICK kinds : kinds = KindsOf(spans[i].data)
        OBVIOUS
      <4>4. /\ Len(kinds) \in {1, 2}
            /\ \E a \in DOMAIN events :
                  {j \in DOMAIN events : events[j].payload = spans[i].id} = a..(a + Len(kinds) - 1)
        BY <4>2, <4>3 DEF SpanIsShown
      <4> PICK at \in DOMAIN events :
             {j \in DOMAIN events : events[j].payload = spans[i].id} = at..(at + Len(kinds) - 1)
        BY <4>4
      <4>5. DOMAIN events = 1..Len(events) /\ Len(events) \in Nat
        BY <1>3, ListIs DEF Shows
      <4>6. at \in at..(at + Len(kinds) - 1)
        <5>1. PICK n : n = Len(kinds)
          OBVIOUS
        <5>2. n \in {1, 2} /\ at \in Int
          BY <4>4, <4>5, <5>1
        <5>3. at \in at..(at + n - 1)
          BY <5>2
        <5> QED
          BY <5>1, <5>3
      <4>7. events[at].payload = spans[i].id
        BY <4>4, <4>6
      <4> QED
        BY <2>1, <4>1, <4>5, <4>7
    <3> QED
      BY <1>7, <3>1, <3>2
  <2> QED
    BY <2>2, <2>3
<1>9. ASSUME NEW key \in DOMAIN told, key[2] # NoSpan
      PROVE  told[key] # None /\ SpanIsShown(events, key[2], KindsOf(told[key]))
  <2>1. PICK i \in 1..Len(spans) : key[2] = spans[i].id
    BY <1>7, <1>9
  <2>2. told[key] = spans[i].data
    BY <1>6, <1>7, <2>1
  <2>3. spans[i].data \in SpanKinds /\ SpanIsShown(events, spans[i].id, KindsOf(spans[i].data))
    BY <1>3 DEF Shows
  <2>4. None \notin SpanKinds
    BY DEF None, SpanKinds
  <2> QED
    BY <2>1, <2>2, <2>3, <2>4
<1> QED
  BY <1>2, <1>7, <1>8, <1>9 DEF ShowsAll
\* The completed capsule goes on showing all that was told, until another trace
\* is begun or shutdown has closed the history; and so it does while it is written.
LEMMA StepShows ==
    ASSUME TracesTyped, ToldIsOpen, CompletedShows, FailureIsKept, ProcessorStep
    PROVE  CompletedShows'
<1>a. ASSUME failure' \/ closed' \/ DOMAIN traces' # {}, ~writing' PROVE CompletedShows'
  BY <1>a DEF CompletedShows
<1>b. \A capsule : told' = told /\ ShowsAll(capsule) => ShowsAll(capsule)'
  BY DEF ShowsAll
<1>1. CASE OutOfOrder
  BY <1>a, <1>1 DEF OutOfOrder, Fail, Callback
<1>2. ASSUME NEW trace \in Trace, OnTraceStart(trace) PROVE CompletedShows'
  <2>1. DOMAIN traces' = DOMAIN traces \union {trace} /\ ~writing'
    BY <1>2 DEF OnTraceStart, With, Callback
  <2>2. DOMAIN traces' # {}
    BY <2>1
  <2> QED
    BY <1>a, <2>1, <2>2
<1>3. ASSUME NEW trace \in Trace, OnTraceEnd(trace) PROVE CompletedShows'
  <2>1. /\ trace \in DOMAIN traces /\ ~writing' /\ UNCHANGED closed
        /\ DOMAIN traces' = DOMAIN traces \ {trace}
    BY <1>3 DEF OnTraceEnd, Callback, Restrict
  <2>2. CASE Fail
    BY <1>a, <2>1, <2>2 DEF Fail
  <2>3. CASE traces[trace].failed /\ UNCHANGED failure
    BY <1>a, <2>1, <2>3 DEF TracesTyped
  <2>4. ASSUME NEW capsule, completed' = <<capsule>>, completed = <<>>, UNCHANGED <<failure, told>>,
               capsule.trace = trace, Build(traces[trace].spans).ok,
               capsule.events = Build(traces[trace].spans).events
        PROVE  CompletedShows'
    <3>1. SUFFICES ASSUME ~failure, ~closed, DOMAIN traces' = {} PROVE CompletedShows'
      BY <1>a, <2>1, <2>4
    <3>2. DOMAIN traces = {trace}
      BY <2>1, <3>1
    <3>3. PICK spans : spans = traces[trace].spans
      OBVIOUS
    <3>4. Build(spans).ok /\ capsule.events = Build(spans).events
      BY <2>4, <3>3
    <3>5. ShowsAll(capsule)
      BY <2>4, <3>1, <3>2, <3>3, <3>4, CompletedShowsAll
    <3>6. ShowsAll(capsule)'
      BY <1>b, <2>4, <3>5
    <3>7. completed'[1] = capsule
      BY <2>4
    <3>8. (ShowsAll(completed[1]))'
      BY <3>6, <3>7 DEF ShowsAll
    <3> QED
      BY <2>1, <3>8 DEF CompletedShows
  <2>5. \/ Fail
        \/ traces[trace].failed /\ UNCHANGED failure
        \/ \E capsule :
              /\ completed' = <<capsule>> /\ completed = <<>> /\ UNCHANGED <<failure, told>>
              /\ capsule.trace = trace /\ Build(traces[trace].spans).ok
              /\ capsule.events = Build(traces[trace].spans).events
    <3>1. CASE \E workspace \in {Workspace(disk) : disk \in Disks} :
                  /\ Completes(trace, workspace)
                  /\ completed' = <<[trace |-> trace, events |-> Build(traces[trace].spans).events,
                                     workspace |-> workspace.files, environment |-> Environment]>>
                  /\ UNCHANGED <<failure, refused, told>>
      <4>1. PICK workspace : /\ Completes(trace, workspace)
                             /\ completed' = <<[trace |-> trace, events |-> Build(traces[trace].spans).events,
                                                workspace |-> workspace.files, environment |-> Environment]>>
                             /\ UNCHANGED <<failure, refused, told>>
        BY <3>1
      <4>2. PICK capsule : capsule = [trace |-> trace, events |-> Build(traces[trace].spans).events,
                                      workspace |-> workspace.files, environment |-> Environment]
        OBVIOUS
      <4>3. capsule.trace = trace /\ capsule.events = Build(traces[trace].spans).events
        BY <4>2
      <4> QED
        BY <4>1, <4>2, <4>3 DEF Completes
    <3> QED
      BY <1>3, <3>1 DEF OnTraceEnd
  <2> QED
    BY <2>2, <2>3, <2>4, <2>5
<1>4. ASSUME NEW trace \in Trace, FailTrace(trace) PROVE CompletedShows'
  BY <1>a, <1>4 DEF FailTrace, Fail, Callback
<1>5. ASSUME NEW trace \in Trace, NEW parent \in Span \union {NoSpan}, OnSpanStart(trace, parent)
      PROVE  CompletedShows'
  <2>1. trace \in DOMAIN traces /\ ~writing' /\ DOMAIN traces' = DOMAIN traces
    BY <1>5 DEF OnSpanStart, Callback
  <2> QED
    BY <1>a, <2>1
<1>6. ASSUME NEW trace \in Trace, NEW span \in Span, NEW data \in SpanKinds,
             OnSpanEnd(trace, span, data)
      PROVE  CompletedShows'
  <2>1. trace \in DOMAIN traces /\ ~writing' /\ DOMAIN traces' = DOMAIN traces
    BY <1>6 DEF OnSpanEnd, Callback, Has
  <2> QED
    BY <1>a, <2>1
<1>7. CASE Shutdown
  <2>1. closed' /\ told' = told /\ writing' = Publishable /\ ~closed
    BY <1>7 DEF Shutdown
  <2>2. CASE ~Publishable
    BY <1>a, <2>1, <2>2
  <2>3. CASE Publishable
    <3>1. completed' = completed /\ ~failure /\ DOMAIN traces = {} /\ completed # <<>>
      BY <1>7, <2>3 DEF Shutdown, Publishable
    <3>2. PICK capsule : capsule = completed[1]
      OBVIOUS
    <3>3. ShowsAll(capsule)
      BY <2>1, <3>1, <3>2 DEF CompletedShows
    <3>4. (ShowsAll(completed[1]))'
      BY <2>1, <3>1, <3>2, <3>3 DEF ShowsAll
    <3> QED
      BY <2>1, <3>4 DEF CompletedShows
  <2> QED
    BY <2>2, <2>3
<1>8. CASE OpenFile
  BY <1>8 DEF OpenFile, processor, CompletedShows, ShowsAll
<1>9. CASE WriteFile
  BY <1>a, <1>9 DEF WriteFile, FailureIsKept
<1>10. CASE WriteFails
  BY <1>a, <1>10 DEF WriteFails
<1> QED
  BY <1>1, <1>2, <1>3, <1>4, <1>5, <1>6, <1>7, <1>8, <1>9, <1>10 DEF ProcessorStep

\* At first nothing was told.
LEMMA InitShown == CaptureInit => ShownInv
<1> SUFFICES ASSUME CaptureInit PROVE ShownInv
  OBVIOUS
<1>1. /\ traces = <<>> /\ told = <<>> /\ starts = 0 /\ completed = <<>> /\ writing = FALSE
  BY DEF CaptureInit, Start
<1>2. DOMAIN traces = {} /\ DOMAIN told = {} /\ traces \in [DOMAIN traces -> TraceRecord]
  BY <1>1
<1>3. TracesTyped
  BY <1>1, <1>2, LimitsAssumption DEF TracesTyped
<1> QED
  BY <1>1, <1>2, <1>3 DEF ShownInv, ToldIsOpen, ToldOf, Has, CompletedShows

\* The command and the other processes do not touch what the traced process
\* knows, which ends with it.
LEMMA NextShown == CaptureInv /\ ShownInv /\ [CaptureNext]_captureVars => ShownInv'
<1> SUFFICES ASSUME CaptureInv, ShownInv, [CaptureNext]_captureVars PROVE ShownInv'
  OBVIOUS
<1>1. CASE Traced
  BY <1>1, StepTraces, StepTold, StepShows DEF Traced, ShownInv, CaptureInv
<1>2. CASE Exit \/ Timeout
  <2>1. /\ traces' = <<>> /\ told' = <<>> /\ starts' = starts /\ completed' = <<>> /\ writing' = FALSE
    BY <1>2 DEF Exit, Timeout, Die
  <2>2. DOMAIN traces' = {} /\ DOMAIN told' = {} /\ traces' \in [DOMAIN traces' -> TraceRecord]
    BY <2>1
  <2>3. TracesTyped'
    BY <2>1, <2>2 DEF TracesTyped, ShownInv
  <2> QED
    BY <2>1, <2>2, <2>3 DEF ShownInv, ToldIsOpen, ToldOf, Has, CompletedShows
<1>3. CASE UNCHANGED processor
  BY ZenonT(90), <1>3 DEF processor, ShownInv, TracesTyped, ToldIsOpen, ToldOf, Has, CompletedShows, ShowsAll
<1>4. Traced \/ Exit \/ Timeout \/ UNCHANGED processor
  BY DEF CaptureNext, captureVars, Prepare, Launch, Bootstrap, StartOther, OtherOpens, OtherWrites,
         OtherEnds, LauncherExits, Collect, processor
<1> QED
  BY <1>1, <1>2, <1>3, <1>4

\* on_trace_end, shutdown, write_capsule: whatever the callbacks are, from any
\* thread and in any order, the file is begun only for a capsule that shows one
\* trace with each of its spans and its last data, and all that was told; and
\* what is reported as captured is that file.
THEOREM PublishedShowsEverything == CaptureSpec => []PublishedShowsAll
<1>1. CaptureSpec => []ShownInv
  BY InitShown, NextShown, CaptureInvariance, PTL DEF CaptureSpec
<1>2. CaptureInv /\ ShownInv => (writing => ~refused /\ ShowsAll(completed[1]))
  BY DEF CaptureInv, FailureIsKept, ShownInv, CompletedShows
<1>3. CaptureInv /\ ShownInv /\ CapturedIsOwn => PublishedShowsAll
  BY <1>2 DEF PublishedShowsAll
<1> QED
  BY <1>1, <1>3, CaptureInvariance, CapturedIsTheTargets, PTL

-------------------------------------------------------------------------------
(* What is built is valid.                                                   *)

\* An event and those it refers to, which come before it: its parent, those it
\* depends on, which have the same parent, and of a result the call.
ResultOf(events, k, prior) == \A call \in {"tool_call", "model_request"} :
    events[k].kind = (IF call = "tool_call" THEN "tool_result" ELSE "model_response") =>
        prior \in 1..prior /\ events[prior].kind = call /\ events[k].deps = {events[prior].id}

Depends(events, k, prior) == \A d \in events[k].deps :
    \E j \in 1..prior : d = events[j].id /\ events[j].parent = events[k].parent

LinkedTo(events, k, prior) ==
    /\ events[k].id = EventIds[prior] /\ events[k].seq = prior
    /\ events[k].parent = None \/ \E j \in 1..prior : events[k].parent = events[j].id
    /\ Depends(events, k, prior) /\ ResultOf(events, k, prior)

LinkedEvent(events, k) == LinkedTo(events, k, k - 1)

Linked(events) ==
    /\ IsList(events) /\ Len(events) >= 1
    /\ \A k \in 1..Len(events) : LinkedEvent(events, k)

\* The first k of a list.
LEMMA FirstAre ==
    ASSUME NEW s, IsList(s), NEW k \in 0..Len(s)
    PROVE  Range(SubSeq(s, 1, k)) = {s[j] : j \in 1..k}
<1>1. PICK t : t = SubSeq(s, 1, k)
  OBVIOUS
<1>2. DOMAIN t = 1..k /\ \A j \in 1..k : t[j] = s[j]
  <2>1. s \in Seq(Range(s)) /\ Len(s) \in Nat
    BY LenProperties DEF IsList
  <2>2. Len(t) = k /\ t \in Seq(Range(s)) /\ \A j \in 1..k : t[j] = s[j]
    BY <1>1, <2>1
  <2> QED
    BY <2>2
<1> QED
  BY <1>1, <1>2 DEF Range

\* A list of events that are linked is one of a valid capsule.
LEMMA LinkedIsWellBuilt ==
    ASSUME NEW capsule, NEW events, events = capsule.events, Linked(events),
           Len(events) <= MaxEvents, Len(events) <= 2 * MaxStarts + 1
    PROVE  WellBuilt(capsule)
<1>1. /\ Len(events) \in Nat /\ DOMAIN events = 1..Len(events) /\ Len(events) >= 1
      /\ \A e \in Range(events) : \E k \in 1..Len(events) : e = events[k]
      /\ \A k \in 1..Len(events) : events[k] \in Range(events)
  BY ListIs DEF Linked
<1>2. ASSUME NEW j \in 1..Len(events), NEW k \in 1..Len(events), events[j].id = events[k].id
      PROVE  j = k
  <2>1. events[j].id = EventIds[j - 1] /\ events[k].id = EventIds[k - 1]
    BY DEF Linked, LinkedEvent, LinkedTo
  <2>2. j - 1 \in DOMAIN EventIds /\ k - 1 \in DOMAIN EventIds
    BY SMTT(60), <1>1, EventIdsAssumption, LimitsAssumption
  <2>3. j - 1 = k - 1
    BY <1>2, <2>1, <2>2, EventIdsAssumption DEF IsInjective
  <2> QED
    BY <1>1, <2>3
<1>3. ASSUME NEW k \in 1..Len(events) PROVE ValidEvent(events[k], SubSeq(events, 1, k - 1))
  <2>1. PICK earlier : earlier = SubSeq(events, 1, k - 1)
    OBVIOUS
  <2>2. Range(earlier) = {events[j] : j \in 1..(k - 1)} /\ 1..(k - 1) \subseteq 1..Len(events)
    <3>1. k - 1 \in 0..Len(events) /\ 1..(k - 1) \subseteq 1..Len(events) /\ IsList(events)
      BY <1>1 DEF Linked
    <3> QED
      BY <2>1, <3>1, FirstAre
  <2>3. LinkedEvent(events, k) /\ \A j \in 1..(k - 1) : LinkedEvent(events, j)
    BY <2>2 DEF Linked
  <2>4. PICK e : e = events[k]
    OBVIOUS
  <2>5. e.id \notin {p.id : p \in Range(earlier)}
    <3>1. ASSUME NEW j \in 1..(k - 1) PROVE events[j].id # e.id
      <4>1. j \in 1..Len(events) /\ j # k
        BY <1>1
      <4> QED
        BY <1>2, <2>4, <4>1
    <3> QED
      BY <2>2, <3>1
  <2>6. \A p \in Range(earlier) : p.seq < e.seq
    <3>1. ASSUME NEW j \in 1..(k - 1) PROVE events[j].seq < e.seq
      <4>1. events[j].seq = j - 1 /\ e.seq = k - 1
        BY <2>3, <2>4 DEF LinkedEvent, LinkedTo
      <4> QED
        BY <1>1, <4>1
    <3> QED
      BY <2>2, <3>1
  <2>7. e.parent \in {p.id : p \in Range(earlier)} \union {None}
    BY <2>2, <2>3, <2>4 DEF LinkedEvent, LinkedTo
  <2>8. e.deps \subseteq {p.id : p \in Range(earlier)}
    <3>1. Depends(events, k, k - 1)
      BY <2>3 DEF LinkedEvent, LinkedTo
    <3>2. ASSUME NEW d \in e.deps PROVE \E p \in Range(earlier) : d = p.id
      <4>1. PICK j \in 1..(k - 1) : d = events[j].id
        BY <2>4, <3>1 DEF Depends
      <4> QED
        BY <2>2, <4>1
    <3> QED
      BY <3>2
  <2>9. ASSUME NEW call, NEW j, j = k - 1, j \in 1..(k - 1), events[j].kind = call,
               e.deps = {events[j].id}
        PROVE  Cardinality(Producers(e, earlier, call)) = 1
    <3>1. Producers(e, earlier, call) = {events[j]}
      <4>1. events[j] \in Producers(e, earlier, call)
        BY <2>2, <2>9 DEF Producers
      <4>2. ASSUME NEW p \in Producers(e, earlier, call) PROVE p = events[j]
        <5>1. PICK i \in 1..(k - 1) : p = events[i]
          BY <2>2 DEF Producers
        <5>2. events[i].id = events[j].id
          BY <2>9, <5>1 DEF Producers
        <5>3. i = j
          BY <1>2, <2>2, <2>9, <5>2
        <5> QED
          BY <5>1, <5>3
      <4> QED
        BY <4>1, <4>2
    <3> QED
      BY <3>1, FS_Singleton
  <2>10. ASSUME NEW call \in {"tool_call", "model_request"},
                e.kind = (IF call = "tool_call" THEN "tool_result" ELSE "model_response")
         PROVE  Cardinality(Producers(e, earlier, call)) = 1
    <3>1. /\ k - 1 \in 1..(k - 1) /\ events[k - 1].kind = call
          /\ e.deps = {events[k - 1].id}
      BY <2>3, <2>4, <2>10 DEF LinkedEvent, LinkedTo, ResultOf
    <3> QED
      BY <2>9, <3>1
  <2> QED
    BY <2>1, <2>4, <2>5, <2>6, <2>7, <2>8, <2>10 DEF ValidEvent
<1>4. Valid(capsule)
  <2>1. events # <<>>
    BY <1>1
  <2> QED
    BY <1>1, <1>3, <2>1 DEF Valid
<1>5. ASSUME NEW e \in Range(events)
      PROVE  e.deps \subseteq {f.id : f \in {g \in Range(events) : g.parent = e.parent /\ g.seq < e.seq}}
  <2>1. PICK k \in 1..Len(events) : e = events[k]
    BY <1>1
  <2>2. SUFFICES ASSUME NEW d \in e.deps
                 PROVE  \E g \in Range(events) : g.parent = e.parent /\ g.seq < e.seq /\ d = g.id
    OBVIOUS
  <2>3. PICK j \in 1..(k - 1) : d = events[j].id /\ events[j].parent = e.parent
    BY <2>1, <2>2 DEF Linked, LinkedEvent, LinkedTo, Depends
  <2>4. j \in 1..Len(events) /\ j - 1 < k - 1
    BY SMTT(60), <1>1
  <2>5. events[j].seq = j - 1 /\ e.seq = k - 1
    BY <2>1, <2>4 DEF Linked, LinkedEvent, LinkedTo
  <2> QED
    BY <1>1, <2>3, <2>4, <2>5
<1> QED
  BY <1>4, <1>5 DEF WellBuilt

\* What the builder has after some of the spans, those in `seen': events that are
\* linked; the tail of each is an event; and what the track of a scope remembers
\* are events below the tail of it.
TailWell(events, tail, seen) == \A s \in seen : \E j \in 1..Len(events) : tail[s] = events[j].id

TrackWell(events, tail, track, seen) ==
    \A s \in Span \union {NoSpan} : \A d \in track[s].response \union track[s].result :
        s \in seen /\ \E j \in 1..Len(events) : d = events[j].id /\ events[j].parent = tail[s]

BuiltWell(b, seen) ==
    /\ IsBuilt(b) /\ Linked(b.events)
    /\ seen \subseteq Span \union {NoSpan} /\ b.tail = [s \in seen |-> b.tail[s]]
    /\ TailWell(b.events, b.tail, seen)
    /\ b.track = [s \in Span \union {NoSpan} |-> b.track[s]]
    /\ TrackWell(b.events, b.tail, b.track, seen)

\* Events that refer to what is before them.
LEMMA LinkedOn ==
    ASSUME NEW s, Linked(s), NEW t, IsList(t), Len(t) >= 1, NEW e, e = s \o t,
           \A i \in 1..Len(t) : LinkedEvent(e, Len(s) + i)
    PROVE  /\ Linked(e) /\ Len(e) = Len(s) + Len(t)
           /\ \A j \in 1..Len(s) : j \in 1..Len(e) /\ e[j] = s[j]
<1>1. /\ Len(s) \in Nat /\ Len(t) \in Nat /\ IsList(e) /\ Len(e) = Len(s) + Len(t)
      /\ \A j \in 1..Len(s) : e[j] = s[j]
  BY ListIs, Joined DEF Linked
<1>2. \A j \in 1..Len(s) : j \in 1..Len(e) /\ e[j] = s[j]
  BY <1>1
<1>3. ASSUME NEW k \in 1..Len(e) PROVE LinkedEvent(e, k)
  <2>1. CASE k \in 1..Len(s)
    <3>1. LinkedEvent(s, k) /\ e[k] = s[k]
      BY <1>1, <2>1 DEF Linked
    <3>2. \A j \in 1..(k - 1) : j \in 1..Len(s) /\ e[j] = s[j]
      BY <1>1, <2>1
    <3>3. k - 1 \in 1..(k - 1) => e[k - 1] = s[k - 1]
      BY <3>2
    <3> QED
      BY <3>1, <3>2, <3>3 DEF LinkedEvent, LinkedTo, ResultOf, Depends
  <2>2. CASE k \notin 1..Len(s)
    <3>1. k - Len(s) \in 1..Len(t) /\ k = Len(s) + (k - Len(s))
      BY <1>1, <2>2
    <3> QED
      BY <3>1
  <2> QED
    BY <2>1, <2>2
<1>4. Len(e) >= 1
  BY <1>1
<1> QED
  BY <1>1, <1>2, <1>3, <1>4 DEF Linked

IsNew(a, n, kind, parent, deps) ==
    a.id = EventIds[n] /\ a.seq = n /\ a.kind = kind /\ a.parent = parent /\ a.deps = deps

\* Events of one parent, and that parent.
Precede(s, parent, deps) ==
    /\ \E j \in 1..Len(s) : parent = s[j].id
    /\ \A d \in deps : \E j \in 1..Len(s) : d = s[j].id /\ s[j].parent = parent

Follow(s, u, more, parent) ==
    /\ Linked(u) /\ Len(u) = Len(s) + more
    /\ u[Len(s) + more].parent = parent /\ u[Len(s) + more].id = EventIds[Len(s) + more - 1]
    /\ \A j \in 1..Len(s) : u[j] = s[j]

\* An event that is no result.
LEMMA OneFollows ==
    ASSUME NEW s, Linked(s), NEW a, NEW kind, kind \in {"tool_call", "model_request", "message"},
           NEW parent, NEW deps, IsNew(a, Len(s), kind, parent, deps), Precede(s, parent, deps),
           NEW w, w = <<a>>
    PROVE  Follow(s, s \o w, 1, parent) /\ (s \o w)[Len(s) + 1] = a
<1>1. PICK u, n : u = s \o w /\ n = Len(s)
  OBVIOUS
<1>2. IsList(w) /\ Len(w) = 1 /\ w[1] = a /\ IsList(s) /\ n \in Nat
  BY <1>1, ListIs DEF IsList, Range, Linked
<1>3. u[n + 1] = a /\ \A j \in 1..n : u[j] = s[j]
  BY <1>1, <1>2, Joined
<1>4. a.id = EventIds[n] /\ a.seq = n /\ a.kind = kind /\ a.parent = parent /\ a.deps = deps
  BY <1>1 DEF IsNew
<1>5. LinkedEvent(u, n + 1)
  <2>1. n + 1 - 1 = n
    BY <1>2
  <2>2. \E j \in 1..n : u[n + 1].parent = u[j].id
    BY <1>1, <1>3, <1>4 DEF Precede
  <2>3. Depends(u, n + 1, n)
    <3>1. \A d \in a.deps : \E j \in 1..n : d = u[j].id /\ u[j].parent = a.parent
      BY <1>1, <1>3, <1>4 DEF Precede
    <3> QED
      BY <1>3, <3>1 DEF Depends
  <2>4. a.kind \notin {"tool_result", "model_response"}
    BY <1>4
  <2> QED
    <3>1. ResultOf(u, n + 1, n)
      BY <1>3, <2>4 DEF ResultOf
    <3>2. LinkedTo(u, n + 1, n)
      <4>1. u[n + 1].id = EventIds[n] /\ u[n + 1].seq = n
        BY <1>3, <1>4
      <4> QED
        BY <2>2, <2>3, <3>1, <4>1 DEF LinkedTo
    <3> QED
      BY <1>2, <2>1, <3>2 DEF LinkedEvent
<1>6. \A i \in 1..Len(w) : LinkedEvent(u, Len(s) + i)
  BY <1>1, <1>2, <1>5
<1>7. Len(w) >= 1
  BY <1>2
<1>8. Linked(u) /\ Len(u) = Len(s) + Len(w)
  BY <1>1, <1>2, <1>6, <1>7, LinkedOn
<1>9. n + 1 - 1 = n
  BY <1>2
<1> QED
  BY <1>1, <1>2, <1>3, <1>4, <1>8, <1>9 DEF Follow

\* A call and its result.
LEMMA TwoFollow ==
    ASSUME NEW s, Linked(s), NEW call \in {"tool_call", "model_request"},
           NEW result, result = (IF call = "tool_call" THEN "tool_result" ELSE "model_response"),
           NEW parent, NEW deps, Precede(s, parent, deps),
           NEW a, IsNew(a, Len(s), call, parent, deps),
           NEW c, IsNew(c, Len(s) + 1, result, parent, {EventIds[Len(s)]}),
           NEW w, w = <<a, c>>
    PROVE  Follow(s, s \o w, 2, parent)
<1>1. PICK u, n : u = s \o w /\ n = Len(s)
  OBVIOUS
<1>2. /\ IsList(w) /\ Len(w) = 2 /\ w[1] = a /\ w[2] = c /\ IsList(s) /\ n \in Nat
  BY <1>1, ListIs DEF IsList, Range, Linked
<1>3. u[n + 1] = a /\ u[n + 2] = c /\ \A j \in 1..n : u[j] = s[j]
  BY <1>1, <1>2, Joined
<1>4. PICK w1, v : w1 = <<a>> /\ v = s \o w1
  OBVIOUS
<1>5. Linked(v) /\ Len(v) = n + 1 /\ v[n + 1] = a /\ \A j \in 1..n : v[j] = s[j]
  <2>1. call \in {"tool_call", "model_request", "message"}
    OBVIOUS
  <2>2. Follow(s, v, 1, parent) /\ v[Len(s) + 1] = a
    BY <1>4, <2>1, OneFollows
  <2> QED
    BY <1>1, <2>2 DEF Follow
<1>6. LinkedEvent(u, n + 1)
  <2>1. LinkedEvent(v, n + 1)
    BY <1>2, <1>5 DEF Linked
  <2>2. n + 1 - 1 = n /\ u[n + 1] = v[n + 1] /\ \A j \in 1..n : u[j] = v[j]
    BY <1>2, <1>3, <1>5
  <2>3. n \in 1..n => u[n] = v[n]
    BY <2>2
  <2> QED
    <3>1. LinkedTo(v, n + 1, n)
      BY <1>2, <2>1, <2>2 DEF LinkedEvent
    <3>2. ResultOf(u, n + 1, n)
      BY <2>2, <2>3, <3>1 DEF ResultOf, LinkedTo
    <3>3. LinkedTo(u, n + 1, n)
      <4>1. Depends(u, n + 1, n)
        BY <2>2, <3>1 DEF LinkedTo, Depends
      <4>2. \A j \in 1..n : u[j].id = v[j].id
        BY <2>2
      <4>3. v[n + 1].parent = None \/ \E j \in 1..n : v[n + 1].parent = v[j].id
        BY <3>1 DEF LinkedTo
      <4>4. u[n + 1].parent = None \/ \E j \in 1..n : u[n + 1].parent = u[j].id
        BY <2>2, <4>2, <4>3
      <4>5. u[n + 1].id = EventIds[n] /\ u[n + 1].seq = n
        BY <2>2, <3>1 DEF LinkedTo
      <4> QED
        BY <3>2, <4>1, <4>4, <4>5 DEF LinkedTo
    <3> QED
      BY <1>2, <2>2, <3>3 DEF LinkedEvent
<1>7. /\ c.id = EventIds[n + 1] /\ c.seq = n + 1 /\ c.deps = {EventIds[n]} /\ c.parent = parent
      /\ c.kind = result /\ a.id = EventIds[n] /\ a.kind = call /\ a.parent = parent
  BY <1>1 DEF IsNew
<1>8. LinkedEvent(u, n + 2)
  <2>1. n + 2 - 1 = n + 1 /\ n + 1 \in 1..(n + 1) /\ \A j \in 1..n : j \in 1..(n + 1)
    BY <1>2
  <2>2. \E j \in 1..(n + 1) : u[n + 2].parent = u[j].id
    BY <1>1, <1>3, <1>7, <2>1 DEF Precede
  <2>3. Depends(u, n + 2, n + 1)
    <3>1. \A d \in c.deps : d = u[n + 1].id /\ u[n + 1].parent = c.parent
      BY <1>3, <1>7
    <3> QED
      BY <1>3, <2>1, <3>1 DEF Depends
  <2>4. ASSUME NEW sort \in {"tool_call", "model_request"},
               c.kind = (IF sort = "tool_call" THEN "tool_result" ELSE "model_response")
        PROVE  u[n + 1].kind = sort /\ c.deps = {u[n + 1].id}
    BY <1>3, <1>7, <2>4
  <2> QED
    <3>1. PICK m : m = n + 1
      OBVIOUS
    <3>2. m \in 1..m /\ u[m] = a /\ n + 2 - 1 = m
      BY <1>3, <2>1, <3>1
    <3>3. ResultOf(u, n + 2, m)
      BY <1>3, <2>4, <3>1, <3>2 DEF ResultOf
    <3>4. LinkedTo(u, n + 2, m)
      <4>1. u[n + 2].id = EventIds[m] /\ u[n + 2].seq = m
        BY <1>3, <1>7, <3>1
      <4> QED
        BY <2>2, <2>3, <3>1, <3>3, <4>1 DEF LinkedTo
    <3> QED
      BY <1>2, <3>1, <3>2, <3>4 DEF LinkedEvent
<1>9. \A i \in 1..Len(w) : LinkedEvent(u, Len(s) + i)
  <2>1. \A i \in 1..2 : i = 1 \/ i = 2
    OBVIOUS
  <2> QED
    BY <1>1, <1>2, <1>6, <1>8, <2>1
<1>10. Len(w) >= 1
  BY <1>2
<1>11. Linked(u) /\ Len(u) = Len(s) + Len(w)
  BY <1>1, <1>2, <1>9, <1>10, LinkedOn
<1>12. n + 2 - 1 = n + 1
  BY <1>2
<1> QED
  BY <1>1, <1>2, <1>3, <1>7, <1>11, <1>12 DEF Follow

\* The events of a span are linked to what its parent and its track name.
LEMMA SpanEventsFollow ==
    ASSUME NEW s, Linked(s), NEW span, span.data \in SpanKinds,
           NEW parent, NEW track, Precede(s, parent, track.response \union track.result),
           NEW t, t = SpanEvents(Len(s), span, parent, track)
    PROVE  Len(t) \in {1, 2} /\ Follow(s, s \o t, Len(t), parent)
<1>1. PICK n : n = Len(s)
  OBVIOUS
<1>2. \A k, kind, deps : IsNew(NewEvent(k, kind, parent, deps, span.id), k, kind, parent, deps)
  BY DEF NewEvent, EventId, IsNew
<1>3. /\ Precede(s, parent, track.response) /\ Precede(s, parent, track.result)
      /\ Precede(s, parent, {})
  BY DEF Precede
<1>4. ASSUME NEW call \in {"tool_call", "model_request"}, NEW deps, Precede(s, parent, deps),
             NEW result, result = (IF call = "tool_call" THEN "tool_result" ELSE "model_response"),
             t = <<NewEvent(n, call, parent, deps, span.id),
                   NewEvent(n + 1, result, parent, {EventId(n)}, span.id)>>
      PROVE  Len(t) \in {1, 2} /\ Follow(s, s \o t, Len(t), parent)
  <2>1. PICK a, c : /\ a = NewEvent(n, call, parent, deps, span.id)
                    /\ c = NewEvent(n + 1, result, parent, {EventIds[n]}, span.id)
    OBVIOUS
  <2>2. t = <<a, c>>
    BY <1>4, <2>1 DEF EventId
  <2>3. IsNew(a, n, call, parent, deps) /\ IsNew(c, n + 1, result, parent, {EventIds[n]})
    BY <1>2, <2>1
  <2>4. IsNew(a, Len(s), call, parent, deps) /\ IsNew(c, Len(s) + 1, result, parent, {EventIds[Len(s)]})
    BY <1>1, <2>3
  <2>5. Follow(s, s \o t, 2, parent)
    BY <1>4, <2>2, <2>4, TwoFollow
  <2>6. Len(t) = 2
    BY <2>2
  <2> QED
    BY <2>5, <2>6
<1>5. CASE span.data = "generation"
  <2>1. t = <<NewEvent(n, "model_request", parent, track.result, span.id),
              NewEvent(n + 1, "model_response", parent, {EventId(n)}, span.id)>>
    BY <1>1, <1>5 DEF SpanEvents
  <2> QED
    BY <1>3, <1>4, <2>1
<1>6. CASE span.data = "function"
  <2>1. t = <<NewEvent(n, "tool_call", parent, track.response, span.id),
              NewEvent(n + 1, "tool_result", parent, {EventId(n)}, span.id)>>
    BY <1>1, <1>6 DEF SpanEvents
  <2> QED
    BY <1>3, <1>4, <2>1
<1>7. CASE span.data = "turn"
  <2>1. PICK a : a = NewEvent(n, "message", parent, {}, span.id) /\ t = <<a>>
    BY <1>1, <1>7 DEF SpanEvents
  <2>2. IsNew(a, Len(s), "message", parent, {})
    BY <1>1, <1>2, <2>1
  <2>3. Follow(s, s \o t, 1, parent)
    BY <1>3, <2>1, <2>2, OneFollows
  <2>4. Len(t) = 1
    BY <2>1
  <2> QED
    BY <2>3, <2>4
<1> QED
  BY <1>5, <1>6, <1>7 DEF SpanKinds

\* What is built with one more span, if there is no failure: more events, of
\* which the last is the tail of the span, and perhaps all in the track.
OneMore(b, span, c, t, final, next) ==
    /\ t = SpanEvents(Len(b.events), span, b.tail[span.parent], b.track[span.parent])
    /\ final = EventId(Len(b.events) + Len(t) - 1)
    /\ next.response \in {b.track[span.parent].response, {final}}
    /\ next.result \in {b.track[span.parent].result, {final}}
    /\ c = [ok |-> TRUE, events |-> b.events \o t, tail |-> With(b.tail, span.id, final),
            track |-> [b.track EXCEPT ![span.parent] = next]]

LEMMA AddSpanIs ==
    ASSUME NEW b, b.ok, NEW span, Placed(b, span), NEW c, c = AddSpan(b, span)
    PROVE  \E t, final, next : OneMore(b, span, c, t, final, next)
<1>1. PICK t : t = SpanEvents(Len(b.events), span, b.tail[span.parent], b.track[span.parent])
  OBVIOUS
<1>2. PICK final : final = EventId(Len(b.events) + Len(t) - 1)
  OBVIOUS
<1>3. PICK scope : scope = b.track[span.parent]
  OBVIOUS
<1>4. PICK next : next = [response |-> IF span.data = "generation" THEN {final} ELSE scope.response,
                          result |-> IF span.data = "function" THEN {final} ELSE scope.result]
  OBVIOUS
<1>5. next.response \in {scope.response, {final}} /\ next.result \in {scope.result, {final}}
  BY <1>4
<1>6. c = [ok |-> TRUE, events |-> b.events \o t,
           tail |-> With(b.tail, span.id, final),
           track |-> [b.track EXCEPT ![span.parent] = next]]
  BY ZenonT(60), <1>1, <1>2, <1>3, <1>4 DEF AddSpan
<1>7. OneMore(b, span, c, t, final, next)
  BY <1>1, <1>2, <1>3, <1>5, <1>6 DEF OneMore
<1> QED
  BY <1>7

LEMMA AddSpanWell ==
    ASSUME NEW b, NEW seen, BuiltWell(b, seen), b.ok,
           NEW span \in SpanRecord, span.id \notin seen, Placed(b, span),
           NEW c, c = AddSpan(b, span)
    PROVE  BuiltWell(c, seen \union {span.id}) /\ Len(c.events) <= Len(b.events) + 2
<1>1. PICK t, final, next : OneMore(b, span, c, t, final, next)
  BY AddSpanIs
<1>a. PICK scope : scope = b.track[span.parent]
  BY SMTT(60)
<1>b. /\ t = SpanEvents(Len(b.events), span, b.tail[span.parent], scope)
      /\ final = EventId(Len(b.events) + Len(t) - 1)
      /\ next.response \in {scope.response, {final}} /\ next.result \in {scope.result, {final}}
      /\ c = [ok |-> TRUE, events |-> b.events \o t, tail |-> With(b.tail, span.id, final),
              track |-> [b.track EXCEPT ![span.parent] = next]]
  BY <1>1, <1>a DEF OneMore
<1>2. PICK s, n, p, id, parent, e : /\ s = b.events /\ n = Len(s) /\ p = span.parent /\ id = span.id
                                    /\ parent = b.tail[p] /\ e = s \o t
  OBVIOUS
<1>3. /\ Linked(s) /\ n \in Nat /\ seen \subseteq Span \union {NoSpan} /\ DOMAIN b.tail = seen
      /\ DOMAIN b.track = Span \union {NoSpan}
  BY <1>2, ListIs DEF BuiltWell, Linked
<1>4. p \in seen /\ id \in Span /\ id \notin seen /\ span.data \in SpanKinds /\ p # id
  BY <1>2, <1>3 DEF Placed, SpanRecord
<1>c. TailWell(s, b.tail, seen) /\ TrackWell(s, b.tail, b.track, seen)
  BY <1>2 DEF BuiltWell
<1>5. /\ \A x \in seen : \E j \in 1..n : b.tail[x] = s[j].id
      /\ \A x \in Span \union {NoSpan} : \A d \in b.track[x].response \union b.track[x].result :
            x \in seen /\ \E j \in 1..n : d = s[j].id /\ s[j].parent = b.tail[x]
  BY <1>2, <1>c DEF TailWell, TrackWell
<1>6. Precede(s, parent, scope.response \union scope.result)
  <2>1. \E j \in 1..Len(s) : parent = s[j].id
    BY <1>2, <1>4, <1>5
  <2>2. p \in Span \union {NoSpan} /\ scope = b.track[p]
    BY <1>a, <1>2, <1>3, <1>4
  <2>3. ASSUME NEW d \in scope.response \union scope.result
        PROVE  \E j \in 1..Len(s) : d = s[j].id /\ s[j].parent = parent
    BY <1>2, <1>5, <2>2
  <2> QED
    BY <2>1, <2>3 DEF Precede
<1>7. Len(t) \in {1, 2} /\ Follow(s, e, Len(t), parent)
  <2>1. t = SpanEvents(Len(s), span, parent, scope)
    BY <1>b, <1>2
  <2> QED
    BY SMTT(60), <1>2, <1>3, <1>4, <1>6, <2>1, SpanEventsFollow
<1>8. PICK k : k = n + Len(t)
  OBVIOUS
<1>9. /\ Linked(e) /\ Len(e) = k /\ k \in Nat /\ k \in 1..k /\ k <= n + 2
      /\ e[k].parent = parent /\ e[k].id = final
      /\ \A j \in 1..n : j \in 1..k /\ e[j] = s[j]
  <2>1. /\ Linked(e) /\ Len(e) = n + Len(t) /\ e[n + Len(t)].parent = parent
        /\ e[n + Len(t)].id = EventIds[n + Len(t) - 1] /\ \A j \in 1..n : e[j] = s[j]
    <3>1. Linked(e) /\ e[Len(s) + Len(t)].parent = parent
      BY <1>7 DEF Follow
    <3>2. Len(e) = Len(s) + Len(t) /\ \A j \in 1..Len(s) : e[j] = s[j]
      BY <1>7 DEF Follow
    <3>3. e[Len(s) + Len(t)].id = EventIds[Len(s) + Len(t) - 1]
      BY <1>7 DEF Follow
    <3> QED
      BY <1>2, <3>1, <3>2, <3>3
  <2>2. k \in Nat /\ k \in 1..k /\ k <= n + 2 /\ \A j \in 1..n : j \in 1..k
    <3>1. ASSUME NEW m \in {1, 2}, k = n + m
          PROVE  k \in Nat /\ k \in 1..k /\ k <= n + 2 /\ \A j \in 1..n : j \in 1..k
      <4>1. n \in Nat
        BY <1>3
      <4> QED
        BY <3>1, <4>1
    <3> QED
      BY <1>7, <1>8, <3>1
  <2>3. final = EventIds[n + Len(t) - 1]
    BY <1>b, <1>2 DEF EventId
  <2> QED
    BY <1>8, <2>1, <2>2, <2>3
<1>10. PICK tail, track : /\ tail = With(b.tail, id, final)
                          /\ track = [b.track EXCEPT ![p] = next]
  OBVIOUS
<1>11. c = [ok |-> TRUE, events |-> e, tail |-> tail, track |-> track]
  BY <1>b, <1>2, <1>10
<1>d. c.ok = TRUE /\ c.events = e /\ c.tail = tail /\ c.track = track
  BY <1>11
<1>12. IsBuilt(c)
  BY <1>11, <1>d DEF IsBuilt
<1>13. PICK more : more = seen \union {id}
  OBVIOUS
<1>14. /\ tail = [x \in more |-> tail[x]] /\ tail[id] = final /\ \A x \in seen : tail[x] = b.tail[x]
  BY <1>3, <1>4, <1>10, <1>13 DEF With
<1>15. /\ track = [x \in Span \union {NoSpan} |-> track[x]] /\ track[p] = next
       /\ \A x \in Span \union {NoSpan} : x # p => track[x] = b.track[x]
  <2>1. b.track = [x \in Span \union {NoSpan} |-> b.track[x]]
    BY DEF BuiltWell
  <2> QED
    BY <1>3, <1>4, <1>10, <2>1
<1>16. ASSUME NEW x \in more PROVE \E j \in 1..k : tail[x] = e[j].id
  <2>1. CASE x = id
    BY <1>9, <1>14, <2>1
  <2>2. CASE x \in seen
    <3>1. PICK j \in 1..n : b.tail[x] = s[j].id
      BY <1>5, <2>2
    <3> QED
      BY <1>9, <1>14, <2>2, <3>1
  <2> QED
    BY <1>13, <2>1, <2>2
<1>17. ASSUME NEW x \in Span \union {NoSpan}, NEW d \in track[x].response \union track[x].result
       PROVE  x \in more /\ \E j \in 1..k : d = e[j].id /\ e[j].parent = tail[x]
  <2>1. ASSUME d \in b.track[x].response \union b.track[x].result
        PROVE  x \in more /\ \E j \in 1..k : d = e[j].id /\ e[j].parent = tail[x]
    <3>1. x \in seen
      BY <1>5, <2>1
    <3>2. PICK j \in 1..n : d = s[j].id /\ s[j].parent = b.tail[x]
      BY <1>5, <2>1
    <3> QED
      BY <1>9, <1>13, <1>14, <3>1, <3>2
  <2>2. CASE x # p
    BY <1>15, <2>1, <2>2
  <2>3. CASE x = p /\ d = final
    <3>1. tail[p] = parent /\ p \in more
      BY <1>2, <1>4, <1>13, <1>14
    <3> QED
      BY <1>9, <2>3, <3>1
  <2>4. x = p => d = final \/ d \in scope.response \union scope.result
    BY <1>b, <1>15, <1>17
  <2>5. scope = b.track[p]
    BY <1>a, <1>2
  <2> QED
    BY <2>1, <2>2, <2>3, <2>4, <2>5
<1>18. more \subseteq Span \union {NoSpan}
  BY <1>3, <1>4, <1>13
<1>19. TailWell(e, tail, more) /\ TrackWell(e, tail, track, more)
  BY <1>9, <1>16, <1>17 DEF TailWell, TrackWell
<1>20. BuiltWell(c, more)
  BY <1>9, <1>d, <1>12, <1>14, <1>15, <1>18, <1>19 DEF BuiltWell
<1> QED
  BY <1>2, <1>9, <1>d, <1>13, <1>20

\* At first there is the run.
LEMMA BlankIsWell ==
    BuiltWell(Blank, {NoSpan}) /\ Blank.ok /\ Len(Blank.events) = 1
<1>1. PICK e : e = NewEvent(0, "run", None, {}, NoSpan)
  OBVIOUS
<1>2. PICK tail, track :
         /\ tail = [span \in {NoSpan} |-> EventId(0)]
         /\ track = [scope \in Span \union {NoSpan} |-> [response |-> {}, result |-> {}]]
  OBVIOUS
<1>3. Blank = [ok |-> TRUE, events |-> <<e>>, tail |-> tail, track |-> track]
  BY ZenonT(60), <1>1, <1>2 DEF Blank
<1>4. PICK s : s = <<e>>
  OBVIOUS
<1>5. /\ Blank.ok = TRUE /\ Blank.events = s /\ Blank.tail = tail /\ Blank.track = track
      /\ IsBuilt(Blank)
  BY <1>3, <1>4 DEF IsBuilt
<1>6. /\ e.id = EventIds[0] /\ e.kind = "run" /\ e.parent = None /\ e.seq = 0 /\ e.deps = {}
  BY <1>1 DEF NewEvent, EventId
<1>7. IsList(s) /\ Len(s) = 1 /\ s[1] = e
  BY <1>4 DEF IsList, Range
<1>8. LinkedEvent(s, 1)
  <2>1. ResultOf(s, 1, 0) /\ Depends(s, 1, 0)
    BY <1>6, <1>7 DEF ResultOf, Depends
  <2>2. LinkedTo(s, 1, 0)
    BY <1>6, <1>7, <2>1 DEF LinkedTo
  <2> QED
    BY <2>2 DEF LinkedEvent
<1>9. Linked(s)
  BY <1>7, <1>8 DEF Linked
<1>10. /\ tail = [x \in {NoSpan} |-> tail[x]] /\ tail[NoSpan] = s[1].id
       /\ track = [x \in Span \union {NoSpan} |-> track[x]]
       /\ \A x \in Span \union {NoSpan} : track[x].response \union track[x].result = {}
  BY <1>2, <1>6, <1>7 DEF EventId
<1>11. TailWell(s, tail, {NoSpan}) /\ TrackWell(s, tail, track, {NoSpan})
  BY <1>7, <1>10 DEF TailWell, TrackWell
<1> QED
  BY <1>5, <1>7, <1>9, <1>10, <1>11 DEF BuiltWell

\* No two of the spans of a trace are the same: there are not more than MaxStarts.
LEMMA SpansAreFew ==
    ASSUME NEW spans \in Seq(SpanRecord),
           \A i, j \in 1..Len(spans) : spans[i].id = spans[j].id => i = j
    PROVE  Len(spans) <= MaxStarts
<1>1. Len(spans) \in Nat /\ MaxStarts \in Nat
  BY LimitsAssumption
<1> DEFINE f == [i \in 1..Len(spans) |-> spans[i].id]
<1>2. f \in [1..Len(spans) -> Span]
  <2>1. \A i \in 1..Len(spans) : spans[i] \in SpanRecord
    OBVIOUS
  <2> QED
    BY <2>1 DEF SpanRecord
<1>3. f \in Injection(1..Len(spans), Span)
  <2>1. \A i, j \in 1..Len(spans) : f[i] = f[j] => i = j
    OBVIOUS
  <2> QED
    BY <1>2, <2>1 DEF Injection, IsInjective
<1>4. /\ IsFiniteSet(Span) /\ Cardinality(Span) = MaxStarts
      /\ IsFiniteSet(1..Len(spans)) /\ Cardinality(1..Len(spans)) = Len(spans)
  <2>1. \A m \in Nat : IsFiniteSet(1..m) /\ Cardinality(1..m) = m
    <3>1. ASSUME NEW m \in Nat PROVE IsFiniteSet(1..m) /\ Cardinality(1..m) = m
      <4>1. 1 \in Int /\ m \in Int /\ (IF 1 > m THEN 0 ELSE m - 1 + 1) = m
        OBVIOUS
      <4> QED
        BY <4>1, FS_Interval
    <3> QED
      BY <3>1
  <2> QED
    BY <1>1, <2>1 DEF Span
<1> HIDE DEF f
<1>5. Cardinality(1..Len(spans)) <= Cardinality(Span)
  BY <1>3, <1>4, FS_Injection
<1> QED
  BY <1>4, <1>5

\* Whatever spans there are, what is built of them is well built.
LEMMA BuildIsWell ==
    ASSUME NEW spans \in Seq(SpanRecord),
           \A i, j \in 1..Len(spans) : spans[i].id = spans[j].id => i = j,
           Build(spans).ok
    PROVE  Linked(Build(spans).events) /\ Len(Build(spans).events) <= 2 * Len(spans) + 1
<1>0. Len(spans) \in Nat
  OBVIOUS
<1>1. PICK f : /\ Build(spans) = f[Len(spans)]
               /\ f[0] = Blank
               /\ \A n \in 1..Len(spans) : f[n] = AddSpan(f[n - 1], spans[n])
  BY BuildIs
<1> DEFINE Seen(m) == {NoSpan} \union {spans[i].id : i \in 1..m}
           Good == {m \in Nat : m <= Len(spans) =>
                       IsBuilt(f[m]) /\ (f[m].ok => /\ BuiltWell(f[m], Seen(m))
                                                   /\ Len(f[m].events) <= 2 * m + 1)}
<1>2. 0 \in Good
  <2>1. Seen(0) = {NoSpan}
    OBVIOUS
  <2>2. IsBuilt(f[0]) /\ BuiltWell(f[0], {NoSpan}) /\ Len(f[0].events) <= 2 * 0 + 1
    BY <1>1, BlankIsWell DEF BuiltWell
  <2> QED
    BY <2>1, <2>2
<1>3. ASSUME NEW m \in Nat, m \in Good PROVE m + 1 \in Good
  <2>1. SUFFICES ASSUME m + 1 <= Len(spans)
                 PROVE  IsBuilt(f[m + 1]) /\ (f[m + 1].ok => /\ BuiltWell(f[m + 1], Seen(m + 1))
                                                   /\ Len(f[m + 1].events) <= 2 * (m + 1) + 1)
    OBVIOUS
  <2>2. PICK b, c, span : b = f[m] /\ c = f[m + 1] /\ span = spans[m + 1]
    OBVIOUS
  <2>3. /\ m + 1 \in 1..Len(spans) /\ (m + 1) - 1 = m
        /\ IsBuilt(b) /\ (b.ok => BuiltWell(b, Seen(m)) /\ Len(b.events) <= 2 * m + 1)
    BY <1>0, <1>3, <2>1, <2>2
  <2>4. c = AddSpan(b, span) /\ span \in SpanRecord
    BY <1>1, <2>2, <2>3
  <2>5. span.id \notin Seen(m) /\ Seen(m + 1) = Seen(m) \union {span.id}
    <3>1. span.id # NoSpan
      BY <2>4, LimitsAssumption DEF SpanRecord, Span, NoSpan
    <3>2. ASSUME NEW i \in 1..m PROVE spans[i].id # span.id
      <4>1. i \in 1..Len(spans) /\ i # m + 1
        BY <1>0, <2>1
      <4> QED
        BY <2>2, <2>3, <4>1
    <3>3. 1..(m + 1) = 1..m \union {m + 1}
      OBVIOUS
    <3> QED
      BY <2>2, <3>1, <3>2, <3>3
  <2> HIDE DEF Seen
  <2>6. IsBuilt(c) /\ (c.ok => b.ok)
    BY <2>3, <2>4, AddSpanAdds
  <2>7. ASSUME c.ok PROVE BuiltWell(c, Seen(m + 1)) /\ Len(c.events) <= 2 * (m + 1) + 1
    <3>1. Placed(b, span)
      <4>1. SUFFICES ASSUME ~Placed(b, span) PROVE FALSE
        OBVIOUS
      <4>2. c = [b EXCEPT !.ok = FALSE]
        BY <2>4, <4>1 DEF AddSpan
      <4>3. c = [ok |-> FALSE, events |-> b.events, tail |-> b.tail, track |-> b.track]
        BY <2>3, <4>2 DEF IsBuilt
      <4> QED
        BY <2>7, <4>3
    <3>2. BuiltWell(b, Seen(m)) /\ Len(b.events) <= 2 * m + 1 /\ b.ok
      BY <2>3, <2>6, <2>7
    <3>3. BuiltWell(c, Seen(m) \union {span.id}) /\ Len(c.events) <= Len(b.events) + 2
      BY <2>4, <2>5, <3>1, <3>2, AddSpanWell
    <3>4. BuiltWell(c, Seen(m + 1))
      BY <2>5, <3>3
    <3>5. Len(b.events) \in Nat /\ Len(c.events) \in Nat
      BY <3>2, <3>3, ListIs DEF BuiltWell, Linked
    <3>6. Len(c.events) <= 2 * (m + 1) + 1
      BY <3>2, <3>3, <3>5
    <3> QED
      BY <3>4, <3>6
  <2> QED
    BY <2>2, <2>6, <2>7
<1> HIDE DEF Good
<1>4. Len(spans) \in Good
  BY <1>0, <1>2, <1>3, Counting
<1>5. f[Len(spans)].ok
  BY <1>1
<1> QED
  BY <1>1, <1>4, <1>5 DEF Good, BuiltWell

-------------------------------------------------------------------------------
(* The declared files.                                                       *)

NoFiles == [ok |-> TRUE, total |-> 0, files |-> <<>>]

Reads(f, disk, files) ==
    f = [n \in 0..Len(files) |-> IF n = 0 THEN NoFiles ELSE AddFile(disk, f[n - 1], files[n])]

\* There is such a function for every list of files, and Workspace takes its
\* last value.
LEMMA WorkspaceIs ==
    ASSUME NEW disk, NEW files, files = request.files, files \in Seq(Range(files))
    PROVE  \E f : /\ Workspace(disk) = f[Len(files)]
                  /\ f[0] = NoFiles
                  /\ \A n \in 1..Len(files) : f[n] = AddFile(disk, f[n - 1], files[n])
<1>0. Len(files) \in Nat
  OBVIOUS
<1> DEFINE Go(f, m) == f = [n \in 0..m |-> IF n = 0 THEN NoFiles ELSE AddFile(disk, f[n - 1], files[n])]
           Good == {m \in Nat : \E f : Go(f, m)}
<1>1. 0 \in Good
  <2>1. Go([n \in 0..0 |-> NoFiles], 0)
    OBVIOUS
  <2> QED
    BY <2>1
<1>2. ASSUME NEW m \in Nat, m \in Good PROVE m + 1 \in Good
  <2>1. PICK f : Go(f, m)
    BY <1>2
  <2>2. \A n \in 0..m : f[n] = IF n = 0 THEN NoFiles ELSE AddFile(disk, f[n - 1], files[n])
    BY <2>1
  <2> DEFINE g == [n \in 0..(m + 1) |-> IF n <= m THEN f[n] ELSE AddFile(disk, f[m], files[m + 1])]
  <2>3. \A n \in 0..(m + 1) : g[n] = IF n <= m THEN f[n] ELSE AddFile(disk, f[m], files[m + 1])
    OBVIOUS
  <2>4. ASSUME NEW n \in 0..(m + 1)
        PROVE  g[n] = IF n = 0 THEN NoFiles ELSE AddFile(disk, g[n - 1], files[n])
    <3> HIDE DEF g
    <3>1. CASE n = 0
      BY <2>2, <2>3, <3>1
    <3>2. CASE n \in 1..m
      <4>1. n \in 0..m /\ n - 1 \in 0..m /\ n # 0 /\ n <= m /\ n - 1 <= m /\ n - 1 \in 0..(m + 1)
        BY <3>2
      <4>2. g[n] = f[n] /\ g[n - 1] = f[n - 1]
        BY <2>3, <4>1
      <4> QED
        BY <2>2, <4>1, <4>2
    <3>3. CASE n = m + 1
      <4>1. m \in 0..(m + 1) /\ ~(n <= m) /\ n - 1 = m /\ n # 0
        BY <3>3
      <4>2. g[n] = AddFile(disk, f[m], files[m + 1]) /\ g[m] = f[m]
        BY <2>3, <4>1
      <4> QED
        BY <3>3, <4>1, <4>2
    <3> QED
      BY <3>1, <3>2, <3>3
  <2>5. g = [n \in 0..(m + 1) |-> g[n]]
    OBVIOUS
  <2> HIDE DEF g
  <2>6. Go(g, m + 1)
    BY <2>4, <2>5
  <2> HIDE DEF Go
  <2>7. \E h : Go(h, m + 1)
    BY <2>6
  <2> QED
    BY <2>7
<1>3. PICK f : Go(f, Len(files))
  <2> HIDE DEF Good
  <2>1. Len(files) \in Good
    BY <1>0, <1>1, <1>2, Counting
  <2> QED
    BY <2>1 DEF Good
<1> DEFINE g == CHOOSE h : Reads(h, disk, files)
<1>4. Reads(g, disk, files)
  BY <1>3 DEF Reads
<1>5. Workspace(disk) = g[Len(files)]
  <2>1. Workspace(disk) = (CHOOSE h : Reads(h, disk, request.files))[Len(request.files)]
    BY DEF Workspace, Reads, NoFiles
  <2> QED
    BY <2>1
<1> HIDE DEF g
<1>6. g[0] = NoFiles
  BY <1>0, <1>4 DEF Reads
<1>7. ASSUME NEW n \in 1..Len(files) PROVE g[n] = AddFile(disk, g[n - 1], files[n])
  <2>1. n \in 0..Len(files) /\ n # 0
    BY <1>0
  <2> QED
    BY <1>4, <2>1 DEF Reads
<1> QED
  BY <1>5, <1>6, <1>7

IsRead(w) ==
    w = [ok |-> w.ok, total |-> w.total, files |-> w.files] /\ w.ok \in BOOLEAN

\* What w has of the first m of the files: each of them under its safe name.
HasRead(w, disk, files, m) ==
    /\ w.total \in 0..MaxBytes
    /\ DOMAIN w.files = {SafeName(files[i]) : i \in 1..m}
    /\ \A i \in 1..m : files[i] \in DOMAIN disk /\ w.files[SafeName(files[i])] = disk[files[i]]
    /\ \A i, j \in 1..m : SafeName(files[i]) = SafeName(files[j]) => i = j

\* One more file, if there is no failure.
OneMoreFile(w, disk, name, c) ==
    /\ w.ok /\ name \in DOMAIN disk /\ SafeName(name) \notin DOMAIN w.files
    /\ w.total + disk[name] <= MaxBytes
    /\ c.total = w.total + disk[name]
    /\ c.files = With(w.files, SafeName(name), disk[name])

LEMMA AddFileIs ==
    ASSUME NEW disk, NEW w, IsRead(w), NEW name, NEW c, c = AddFile(disk, w, name)
    PROVE  IsRead(c) /\ (c.ok => OneMoreFile(w, disk, name, c))
<1>1. PICK safe, total, files, taken :
         /\ safe = SafeName(name) /\ total = w.total + disk[name]
         /\ files = With(w.files, safe, disk[name])
         /\ taken = (/\ w.ok /\ name \in DOMAIN disk
                     /\ w.total + disk[name] <= MaxBytes
                     /\ safe \notin DOMAIN w.files)
  OBVIOUS
<1>2. CASE taken
  <2>1. c = [ok |-> TRUE, total |-> total, files |-> files]
    BY <1>1, <1>2, ZenonT(30) DEF AddFile
  <2>2. c.ok = TRUE /\ c.total = total /\ c.files = files
    BY <2>1
  <2>3. IsRead(c)
    BY <2>1, <2>2 DEF IsRead
  <2> QED
    BY <1>1, <1>2, <2>2, <2>3 DEF OneMoreFile
<1>3. CASE ~taken
  <2>1. c = [w EXCEPT !.ok = FALSE]
    BY <1>1, <1>3, ZenonT(30) DEF AddFile
  <2>2. c = [ok |-> FALSE, total |-> w.total, files |-> w.files]
    BY <2>1 DEF IsRead
  <2> QED
    BY <2>2 DEF IsRead
<1> QED
  BY <1>2, <1>3

\* _capture_workspace: what is read after one more file.
LEMMA ReadsOneMore ==
    ASSUME NEW disk, \A name \in DOMAIN disk : disk[name] \in Nat, NEW files, NEW m \in Nat,
           NEW w, HasRead(w, disk, files, m), NEW c, OneMoreFile(w, disk, files[m + 1], c)
    PROVE  HasRead(c, disk, files, m + 1)
<1>1. PICK name, safe : name = files[m + 1] /\ safe = SafeName(name)
  OBVIOUS
<1>2. /\ name \in DOMAIN disk /\ safe \notin DOMAIN w.files
      /\ w.total + disk[name] <= MaxBytes /\ c.total = w.total + disk[name]
      /\ c.files = With(w.files, safe, disk[name])
  BY <1>1 DEF OneMoreFile
<1>3. c.total \in 0..MaxBytes
  <2>1. w.total \in 0..MaxBytes /\ disk[name] \in Nat /\ MaxBytes \in Nat
    BY <1>2, LimitsAssumption DEF HasRead
  <2> QED
    BY <1>2, <2>1
<1>4. 1..(m + 1) = 1..m \union {m + 1}
  OBVIOUS
<1>5. DOMAIN w.files = {SafeName(files[i]) : i \in 1..m}
  BY DEF HasRead
<1>6. /\ DOMAIN c.files = DOMAIN w.files \union {safe}
      /\ c.files[safe] = disk[name] /\ \A n \in DOMAIN w.files : c.files[n] = w.files[n]
  BY <1>2 DEF With
<1>7. DOMAIN c.files = {SafeName(files[i]) : i \in 1..(m + 1)}
  BY <1>1, <1>4, <1>5, <1>6
<1>8. ASSUME NEW i \in 1..(m + 1)
      PROVE  files[i] \in DOMAIN disk /\ c.files[SafeName(files[i])] = disk[files[i]]
  <2>1. CASE i = m + 1
    BY <1>1, <1>2, <1>6, <2>1
  <2>2. CASE i \in 1..m
    <3>1. files[i] \in DOMAIN disk /\ w.files[SafeName(files[i])] = disk[files[i]]
      BY <2>2 DEF HasRead
    <3>2. SafeName(files[i]) \in DOMAIN w.files
      BY <1>5, <2>2
    <3> QED
      BY <1>6, <3>1, <3>2
  <2> QED
    BY <1>4, <2>1, <2>2
<1>9. ASSUME NEW i \in 1..(m + 1), NEW j \in 1..(m + 1),
             SafeName(files[i]) = SafeName(files[j])
      PROVE  i = j
  <2>1. \A k \in 1..m : SafeName(files[k]) # safe
    BY <1>2, <1>5
  <2>2. CASE i \in 1..m /\ j \in 1..m
    BY <1>9, <2>2 DEF HasRead
  <2>3. CASE i = m + 1 \/ j = m + 1
    BY <1>1, <1>4, <1>9, <2>1, <2>3
  <2> QED
    BY <1>4, <2>2, <2>3
<1> QED
  BY <1>3, <1>7, <1>8, <1>9 DEF HasRead

\* What has been read when there was no failure, and how the total grew.
LEMMA WorkspaceHasRead ==
    ASSUME NEW disk \in Disks, NEW files, files = request.files, files \in Seq(Range(files)),
           NEW w, w = Workspace(disk), w.ok
    PROVE  /\ HasRead(w, disk, files, Len(files))
           /\ \E f : /\ f[0] = 0 /\ f[Len(files)] = w.total
                     /\ \A n \in 1..Len(files) : f[n] = f[n - 1] + disk[files[n]]
<1>0. Len(files) \in Nat /\ \A name \in DOMAIN disk : disk[name] \in Nat
  BY DisksAssumption
<1>1. PICK f : /\ w = f[Len(files)]
               /\ f[0] = NoFiles
               /\ \A n \in 1..Len(files) : f[n] = AddFile(disk, f[n - 1], files[n])
  BY WorkspaceIs
<1> DEFINE Good == {m \in Nat : m <= Len(files) =>
                       IsRead(f[m]) /\ (f[m].ok => HasRead(f[m], disk, files, m))}
<1>2. 0 \in Good
  <2>1. IsRead(NoFiles) /\ NoFiles.total = 0 /\ DOMAIN NoFiles.files = {} /\ 1..0 = {}
    BY DEF IsRead, NoFiles
  <2>2. HasRead(NoFiles, disk, files, 0)
    BY <2>1, LimitsAssumption DEF HasRead
  <2> QED
    BY <1>1, <2>1, <2>2
<1>3. ASSUME NEW m \in Nat, m + 1 <= Len(files), IsRead(f[m])
      PROVE  IsRead(f[m + 1]) /\ (f[m + 1].ok => OneMoreFile(f[m], disk, files[m + 1], f[m + 1]))
  <2>1. m + 1 \in 1..Len(files) /\ (m + 1) - 1 = m
    BY <1>0, <1>3
  <2>2. f[m + 1] = AddFile(disk, f[m], files[m + 1])
    BY <1>1, <2>1
  <2> QED
    BY <1>3, <2>2, AddFileIs
<1>4. ASSUME NEW m \in Nat, m \in Good PROVE m + 1 \in Good
  <2>1. SUFFICES ASSUME m + 1 <= Len(files)
                 PROVE  IsRead(f[m + 1]) /\ (f[m + 1].ok => HasRead(f[m + 1], disk, files, m + 1))
    OBVIOUS
  <2>2. IsRead(f[m]) /\ (f[m].ok => HasRead(f[m], disk, files, m))
    BY <1>0, <1>4, <2>1
  <2>3. IsRead(f[m + 1]) /\ (f[m + 1].ok => OneMoreFile(f[m], disk, files[m + 1], f[m + 1]))
    BY <1>3, <2>1, <2>2
  <2>4. ASSUME f[m + 1].ok PROVE HasRead(f[m + 1], disk, files, m + 1)
    <3>1. OneMoreFile(f[m], disk, files[m + 1], f[m + 1])
      BY <2>3, <2>4
    <3>2. HasRead(f[m], disk, files, m)
      BY <2>2, <3>1 DEF OneMoreFile
    <3> QED
      BY <1>0, <3>1, <3>2, ReadsOneMore
  <2> QED
    BY <2>3, <2>4
<1>5. \A m \in Nat : m \in Good
  <2> HIDE DEF Good
  <2> QED
    BY <1>2, <1>4, Counting
<1>6. HasRead(w, disk, files, Len(files))
  BY <1>0, <1>1, <1>5
\* No failure at the end, none before.
<1>a. PICK len \in Nat : len = Len(files)
  BY <1>0
<1> DEFINE Fine == {m \in Nat : \A k \in Nat : k + m = len => f[k].ok = TRUE}
<1>7. \A m \in Nat : m \in Fine
  <2> HIDE DEF Good
  <2>1. 0 \in Fine
    <3>1. f[Len(files)].ok = TRUE
      BY <1>0, <1>1, <1>5 DEF Good, IsRead
    <3> QED
      BY <1>a, <3>1
  <2>2. ASSUME NEW m \in Nat, m \in Fine PROVE m + 1 \in Fine
    <3>1. PICK y \in Nat : y = m + 1
      OBVIOUS
    <3>a. SUFFICES ASSUME NEW k \in Nat, k + y = len PROVE f[k].ok = TRUE
      BY <3>1
    <3>2. (k + 1) + m = len /\ k + 1 \in Nat /\ k + 1 <= Len(files) /\ k <= Len(files)
      BY <1>a, <3>1, <3>a
    <3>3. f[k + 1].ok = TRUE
      BY <2>2, <3>2
    <3>4. IsRead(f[k])
      BY <1>5, <3>2 DEF Good
    <3>5. OneMoreFile(f[k], disk, files[k + 1], f[k + 1])
      BY <1>3, <3>2, <3>3, <3>4
    <3> QED
      BY <3>4, <3>5 DEF OneMoreFile, IsRead
  <2> HIDE DEF Fine
  <2> QED
    BY <2>1, <2>2, Counting
<1> HIDE DEF Good, Fine
<1>8. ASSUME NEW n \in 1..Len(files) PROVE f[n].total = f[n - 1].total + disk[files[n]]
  <2>1. PICK m \in Nat : m = n - 1
    BY <1>0
  <2>2. n = m + 1 /\ m + 1 <= Len(files) /\ m <= Len(files)
    BY <1>0, <2>1
  <2>3. PICK k : k = len - n
    OBVIOUS
  <2>4. f[n].ok
    <3>1. n + k = len /\ n \in Nat /\ k \in Nat
      BY <1>a, <2>3
    <3>2. k \in Fine
      BY <1>7, <3>1
    <3> QED
      BY <3>1, <3>2 DEF Fine
  <2>5. IsRead(f[m])
    BY <1>5, <2>2 DEF Good
  <2>6. OneMoreFile(f[m], disk, files[m + 1], f[m + 1])
    BY <1>3, <2>2, <2>4, <2>5
  <2> QED
    BY <2>1, <2>2, <2>6 DEF OneMoreFile
<1>9. PICK g : g = [n \in 0..Len(files) |-> f[n].total]
  OBVIOUS
<1>10. /\ g[0] = 0 /\ g[Len(files)] = w.total
       /\ \A n \in 1..Len(files) : g[n] = g[n - 1] + disk[files[n]]
  <2>1. \A n \in 0..Len(files) : g[n] = f[n].total
    BY <1>9
  <2>2. \A n \in 1..Len(files) : n \in 0..Len(files) /\ n - 1 \in 0..Len(files)
    BY <1>0
  <2>3. 0 \in 0..Len(files) /\ Len(files) \in 0..Len(files) /\ f[0].total = 0
    BY <1>0, <1>1 DEF NoFiles
  <2> QED
    BY <1>1, <1>8, <2>1, <2>2, <2>3
<1> QED
  BY <1>6, <1>10

Sums(g, files, held) == g = [n \in 0..Len(files) |->
                               IF n = 0 THEN 0 ELSE g[n - 1] + held[SafeName(files[n])]]

TotalOf(files, held) == CHOOSE g : Sums(g, files, held)

\* What is counted while the files are read one after the other.
Counts(f, disk, files) ==
    /\ Len(files) \in Nat /\ f[0] = 0
    /\ \A n \in 1..Len(files) : f[n] = f[n - 1] + disk[files[n]]

\* The total that is asked for is the one that was counted.
LEMMA TotalIs ==
    ASSUME NEW disk, NEW files, NEW held, NEW f, Counts(f, disk, files),
           \A n \in 1..Len(files) : held[SafeName(files[n])] = disk[files[n]]
    PROVE  TotalOf(files, held)[Len(files)] = f[Len(files)]
<1>0. /\ Len(files) \in Nat /\ f[0] = 0
      /\ \A n \in 1..Len(files) : f[n] = f[n - 1] + disk[files[n]]
  BY DEF Counts
<1>a. PICK total : total = TotalOf(files, held)
  OBVIOUS
<1>1. PICK h : h = [n \in 0..Len(files) |-> f[n]]
  OBVIOUS
<1>2. Sums(h, files, held)
  <2>1. \A n \in 0..Len(files) : n # 0 => n \in 1..Len(files) /\ n - 1 \in 0..Len(files)
    BY <1>0
  <2>2. ASSUME NEW n \in 0..Len(files)
        PROVE  h[n] = IF n = 0 THEN 0 ELSE h[n - 1] + held[SafeName(files[n])]
    BY <1>0, <1>1, <2>1
  <2>3. h = [n \in 0..Len(files) |-> h[n]]
    BY <1>1
  <2> QED
    BY <2>2, <2>3 DEF Sums
<1>3. Sums(total, files, held)
  BY <1>a, <1>2 DEF TotalOf
<1>4. \A n \in 0..Len(files) : total[n] = IF n = 0 THEN 0 ELSE total[n - 1] + held[SafeName(files[n])]
  BY <1>3 DEF Sums
<1> DEFINE Good == {m \in Nat : m <= Len(files) => total[m] = f[m]}
<1>5. 0 \in Good
  BY <1>0, <1>4
<1>6. ASSUME NEW m \in Nat, m \in Good PROVE m + 1 \in Good
  <2>1. SUFFICES ASSUME m + 1 <= Len(files) PROVE total[m + 1] = f[m + 1]
    OBVIOUS
  <2>2. /\ m + 1 \in 0..Len(files) /\ m + 1 \in 1..Len(files) /\ m + 1 # 0 /\ (m + 1) - 1 = m
        /\ m <= Len(files)
    BY <1>0, <2>1
  <2>3. total[m] = f[m]
    BY <1>6, <2>2
  <2> QED
    BY <1>0, <1>4, <2>2, <2>3
<1> HIDE DEF Good
<1>7. Len(files) \in Good
  BY <1>0, <1>5, <1>6, Counting
<1> QED
  BY <1>a, <1>7 DEF Good

\* Names that fold to different words: there are as many words as files.
LEMMA WordsOfFiles ==
    ASSUME NEW files, Len(files) \in Nat, NEW names,
           names = {SafeName(files[i]) : i \in 1..Len(files)}, Portable(names),
           \A i, j \in 1..Len(files) : SafeName(files[i]) = SafeName(files[j]) => i = j
    PROVE  Cardinality({name.word : name \in names}) = Len(files)
<1> DEFINE words == {name.word : name \in names}
           f == [i \in 1..Len(files) |-> SafeName(files[i]).word]
<1>1. \A i \in 1..Len(files) : SafeName(files[i]) \in names
  OBVIOUS
<1>2. f \in [1..Len(files) -> words]
  BY <1>1
<1>3. f \in Surjection(1..Len(files), words)
  <2>1. \A word \in words : \E i \in 1..Len(files) : f[i] = word
    OBVIOUS
  <2> QED
    BY <1>2, <2>1 DEF Surjection
<1>4. f \in Injection(1..Len(files), words)
  <2>1. ASSUME NEW i \in 1..Len(files), NEW j \in 1..Len(files), f[i] = f[j] PROVE i = j
    <3>1. SafeName(files[i]).word = SafeName(files[j]).word
      BY <2>1
    <3>2. SafeName(files[i]) = SafeName(files[j])
      BY <1>1, <3>1 DEF Portable
    <3> QED
      BY <3>2
  <2> QED
    BY <1>2, <2>1 DEF Injection, IsInjective
<1> HIDE DEF f, words
<1>5. IsFiniteSet(1..Len(files)) /\ Cardinality(1..Len(files)) = Len(files)
  <2>1. PICK n \in Nat : n = Len(files)
    OBVIOUS
  <2>2. 1 \in Int /\ n \in Int /\ (IF 1 > n THEN 0 ELSE n - 1 + 1) = n
    OBVIOUS
  <2> QED
    BY <2>1, <2>2, FS_Interval
<1>6. Cardinality(words) = Cardinality(1..Len(files))
  BY <1>3, <1>4, <1>5, FS_Surjection
<1> QED
  BY <1>5, <1>6 DEF words

\* No name that is kept holds a secret.
LEMMA SafeNamesAre ==
    ASSUME NEW name, name.secret \in BOOLEAN PROVE ~SafeName(name).secret
<1>1. CASE name.secret
  BY <1>1 DEF SafeName
<1>2. CASE ~name.secret
  BY <1>2 DEF SafeName
<1> QED
  BY <1>1, <1>2

\* What becomes of the files of a request in a capsule.
LEMMA FilesAreHeld ==
    ASSUME request \in Requests, NEW disk \in Disks, NEW w, w = Workspace(disk), w.ok,
           Portable(DOMAIN w.files), NEW capsule, capsule.workspace = w.files,
           capsule.environment = Environment
    PROVE  HasTheFiles(capsule)
<1>1. PICK files, names : files = request.files /\ names = DOMAIN capsule.workspace
  OBVIOUS
<1>2. files \in Seq(Range(files)) /\ Len(files) \in Nat /\ DOMAIN files = 1..Len(files)
  <2>1. files \in Seq(Range(files))
    BY <1>1, RequestsAssumption
  <2> QED
    BY <2>1, LenProperties
<1>3. /\ HasRead(w, disk, files, Len(files))
      /\ \E f : /\ f[0] = 0 /\ f[Len(files)] = w.total
                /\ \A n \in 1..Len(files) : f[n] = f[n - 1] + disk[files[n]]
  BY <1>1, <1>2, WorkspaceHasRead
<1>4. names = {SafeName(files[i]) : i \in 1..Len(files)}
  BY <1>1, <1>3 DEF HasRead
<1>5. names = {SafeName(name) : name \in Range(files)}
  BY <1>2, <1>4 DEF Range
<1>6. Cardinality({name.word : name \in names}) = Len(files)
  <2>1. \A i, j \in 1..Len(files) : SafeName(files[i]) = SafeName(files[j]) => i = j
    BY <1>3 DEF HasRead
  <2>2. Portable(names)
    BY <1>1
  <2> QED
    BY <1>2, <1>4, <2>1, <2>2, WordsOfFiles
<1>7. \A name \in names \union capsule.environment : ~name.secret
  <2>1. \A name \in Range(files) \union Range(request.names) : name.secret \in BOOLEAN
    BY <1>1, RequestsAssumption
  <2>2. \A name \in Range(files) \union Range(request.names) : ~SafeName(name).secret
    BY <2>1, SafeNamesAre
  <2> QED
    BY <1>5, <2>2 DEF Environment
<1>8. TotalOf(files, capsule.workspace)[Len(files)] <= MaxBytes
  <2>1. PICK f : /\ f[0] = 0 /\ f[Len(files)] = w.total
                 /\ \A n \in 1..Len(files) : f[n] = f[n - 1] + disk[files[n]]
    BY <1>3
  <2>2. PICK held : held = capsule.workspace
    OBVIOUS
  <2>3. \A n \in 1..Len(files) : held[SafeName(files[n])] = disk[files[n]]
    BY <1>3, <2>2 DEF HasRead
  <2>4. Counts(f, disk, files)
    BY <1>2, <2>1 DEF Counts
  <2>5. TotalOf(files, held)[Len(files)] = f[Len(files)]
    BY <2>3, <2>4, TotalIs
  <2>6. w.total <= MaxBytes
    BY <1>3, LimitsAssumption DEF HasRead
  <2> QED
    BY <2>1, <2>2, <2>5, <2>6
<1>9. TotalOf(request.files, capsule.workspace)[Len(request.files)] <= MaxBytes
  BY <1>1, <1>8
<1> QED
  BY <1>1, <1>5, <1>6, <1>7, <1>9 DEF HasTheFiles, TotalOf, Sums

-------------------------------------------------------------------------------
(* Whatever is completed is valid.                                           *)

\* A trace that has not failed is within the budget of events.
Budget == \A t \in DOMAIN traces : traces[t].failed \/ ~OverBudget(Len(traces[t].spans))

BuiltInv == request \in Requests /\ Budget /\ CompletedIsValid

\* on_trace_end: what it completes.
LEMMA EndIsValid ==
    ASSUME TracesTyped, request \in Requests, Budget, NEW trace, OnTraceEnd(trace)
    PROVE  \/ completed' \in {completed, <<>>}
           \/ \E capsule : completed' = <<capsule>> /\ WellBuilt(capsule) /\ HasTheFiles(capsule)
<1>1. trace \in DOMAIN traces
  BY DEF OnTraceEnd
<1>2. ASSUME NEW w \in {Workspace(disk) : disk \in Disks}, Completes(trace, w),
             NEW capsule, capsule = [trace |-> trace, events |-> Build(traces[trace].spans).events,
                                     workspace |-> w.files, environment |-> Environment]
      PROVE  WellBuilt(capsule) /\ HasTheFiles(capsule)
  <2>1. PICK disk \in Disks : w = Workspace(disk)
    BY <1>2
  <2>2. PICK spans, events : spans = traces[trace].spans /\ events = Build(spans).events
    OBVIOUS
  <2>3. /\ w.ok /\ Portable(DOMAIN w.files) /\ Build(spans).ok /\ ~traces[trace].failed
        /\ capsule.events = events /\ capsule.workspace = w.files
        /\ capsule.environment = Environment
    BY <1>2, <2>2 DEF Completes
  <2>4. /\ spans \in Seq(SpanRecord) /\ Len(spans) \in Nat
        /\ \A i, j \in 1..Len(spans) : spans[i].id = spans[j].id => i = j
    BY <1>1, <2>2 DEF TracesTyped, TraceRecord
  <2>5. Linked(events) /\ Len(events) <= 2 * Len(spans) + 1
    BY <2>2, <2>3, <2>4, BuildIsWell
  <2>6. Len(spans) * 2 + 1 <= MaxEvents
    <3>1. Len(spans) * 2 + 1 \in Int /\ MaxEvents \in Int
      BY <2>4, LimitsAssumption
    <3>2. ~OverBudget(Len(spans))
      BY <1>1, <2>2, <2>3 DEF Budget
    <3> QED
      BY <3>1, <3>2 DEF OverBudget
  <2>7. Len(spans) <= MaxStarts
    BY <2>4, SpansAreFew
  <2>8. Len(events) \in Nat /\ MaxStarts \in Nat /\ MaxEvents \in Nat
    BY <2>5, ListIs, LimitsAssumption DEF Linked
  <2>9. Len(events) <= MaxEvents /\ Len(events) <= 2 * MaxStarts + 1
    BY <2>4, <2>5, <2>6, <2>7, <2>8
  <2>10. WellBuilt(capsule)
    BY <2>3, <2>5, <2>9, LinkedIsWellBuilt
  <2>11. HasTheFiles(capsule)
    BY <2>1, <2>3, FilesAreHeld
  <2> QED
    BY <2>10, <2>11
<1>3. CASE \E w \in {Workspace(disk) : disk \in Disks} :
              /\ Completes(trace, w)
              /\ completed' = <<[trace |-> trace, events |-> Build(traces[trace].spans).events,
                                 workspace |-> w.files, environment |-> Environment]>>
  <2>1. PICK w \in {Workspace(disk) : disk \in Disks} :
              /\ Completes(trace, w)
              /\ completed' = <<[trace |-> trace, events |-> Build(traces[trace].spans).events,
                                 workspace |-> w.files, environment |-> Environment]>>
    BY <1>3
  <2>2. PICK capsule : capsule = [trace |-> trace, events |-> Build(traces[trace].spans).events,
                                  workspace |-> w.files, environment |-> Environment]
    OBVIOUS
  <2>3. WellBuilt(capsule) /\ HasTheFiles(capsule)
    BY <1>2, <2>1, <2>2
  <2> QED
    BY <2>1, <2>2, <2>3
<1>4. CASE completed' \in {completed, <<>>}
  BY <1>4
<1> QED
  BY <1>3, <1>4 DEF OnTraceEnd

\* What is within the budget stays so, or fails.
LEMMA StepBudget ==
    ASSUME TracesTyped, Budget, ProcessorStep
    PROVE  Budget'
<1> DEFINE Fits(t) == t.failed \/ ~OverBudget(Len(t.spans))
<1>0. /\ \A t \in DOMAIN traces : Fits(traces[t]) /\ traces[t] \in TraceRecord
      /\ DOMAIN traces \subseteq Trace
  BY DEF Budget, TracesTyped
<1>a. ASSUME \A t \in DOMAIN traces' : Fits(traces'[t]) PROVE Budget'
  BY <1>a DEF Budget, OverBudget
<1>1. CASE UNCHANGED traces
  BY <1>0, <1>a, <1>1
<1>2. CASE traces' = <<>>
  <2>1. DOMAIN traces' = {}
    BY <1>2
  <2> QED
    BY <1>a, <2>1
<1>3. ASSUME NEW trace \in Trace, OnTraceStart(trace) PROVE Budget'
  <2>1. PICK t : t = [spans |-> <<>>, failed |-> FALSE]
    OBVIOUS
  <2>2. traces' = [k \in DOMAIN traces \union {trace} |-> IF k = trace THEN t ELSE traces[k]]
    BY <1>3, <2>1 DEF OnTraceStart, With
  <2>3. Fits(t)
    <3>1. Len(t.spans) = 0
      BY <2>1
    <3>2. ~OverBudget(0)
      BY LimitsAssumption DEF OverBudget
    <3> QED
      BY <3>1, <3>2
  <2> HIDE DEF Fits
  <2> QED
    BY <1>0, <1>a, <2>2, <2>3
<1>4. ASSUME NEW trace \in Trace, OnTraceEnd(trace) PROVE Budget'
  <2>1. traces' = [k \in DOMAIN traces \ {trace} |-> traces[k]]
    BY <1>4 DEF OnTraceEnd, Restrict
  <2> HIDE DEF Fits
  <2> QED
    BY <1>0, <1>a, <2>1
<1>5. ASSUME NEW trace \in Trace, FailTrace(trace) PROVE Budget'
  <2>1. trace \in DOMAIN traces /\ traces' = [traces EXCEPT ![trace].failed = TRUE]
    BY <1>5 DEF FailTrace
  <2>2. PICK t, u : t = traces[trace] /\ u = [t EXCEPT !.failed = TRUE]
    OBVIOUS
  <2>3. u.failed = TRUE
    BY <1>0, <2>1, <2>2 DEF TraceRecord
  <2>4. traces' = [traces EXCEPT ![trace] = u] /\ Fits(u)
    BY <2>1, <2>2, <2>3
  <2> HIDE DEF Fits
  <2> QED
    BY <1>0, <1>a, <2>1, <2>4
<1>6. ASSUME NEW trace \in Trace, NEW parent \in Span \union {NoSpan}, OnSpanStart(trace, parent)
      PROVE  Budget'
  <2>1. PICK spans, u :
           /\ spans = Append(traces[trace].spans, [id |-> starts', parent |-> parent, data |-> None])
           /\ u = [spans |-> spans, failed |-> traces[trace].failed \/ OverBudget(Len(spans))]
    OBVIOUS
  <2>2. trace \in DOMAIN traces /\ traces' = [traces EXCEPT ![trace] = u]
    BY <1>6, <2>1 DEF OnSpanStart
  <2>3. Fits(u)
    BY <2>1
  <2> HIDE DEF Fits
  <2> QED
    BY <1>0, <1>a, <2>2, <2>3
<1>7. ASSUME NEW trace \in Trace, NEW span \in Span, NEW data \in SpanKinds,
             OnSpanEnd(trace, span, data)
      PROVE  Budget'
  <2>1. PICK old : old = traces[trace].spans
    OBVIOUS
  <2>2. PICK new :
               /\ trace \in DOMAIN traces /\ old \in Seq(SpanRecord)
               /\ traces' = [traces EXCEPT ![trace].spans = new]
               /\ new \in Seq(SpanRecord) /\ Len(new) = Len(old)
               /\ \A i \in 1..Len(old) :
                     /\ new[i].id = old[i].id
                     /\ new[i].data = IF old[i].id = span THEN data ELSE old[i].data
    BY <1>7, <2>1, SpanEnds
  <2>3. PICK t, u : t = traces[trace] /\ u = [t EXCEPT !.spans = new]
    OBVIOUS
  <2>4. u.spans = new /\ u.failed = t.failed /\ Len(u.spans) = Len(t.spans) /\ Fits(t)
    BY <1>0, <2>1, <2>2, <2>3 DEF TraceRecord
  <2>5. traces' = [traces EXCEPT ![trace] = u] /\ Fits(u)
    BY <2>2, <2>3, <2>4
  <2> HIDE DEF Fits
  <2> QED
    BY <1>0, <1>a, <2>2, <2>5
<1>8. CASE OutOfOrder \/ OpenFile \/ WriteFile \/ WriteFails
  BY <1>1, <1>8 DEF OutOfOrder, OpenFile, WriteFile, WriteFails, processor
<1>9. CASE Shutdown
  BY <1>2, <1>9 DEF Shutdown
<1> QED
  BY <1>3, <1>4, <1>5, <1>6, <1>7, <1>8, <1>9 DEF ProcessorStep

\* At first nothing is completed.
LEMMA InitBuilt == CaptureInit => BuiltInv
<1> SUFFICES ASSUME CaptureInit PROVE BuiltInv
  OBVIOUS
<1>1. request \in Requests /\ DOMAIN traces = {} /\ Range(completed) = {}
  BY DEF CaptureInit, Start, Range
<1> QED
  BY <1>1 DEF BuiltInv, Budget, CompletedIsValid

\* Only the end of a trace completes a capsule; it is valid then, and what it
\* is valid for, the request, does not change.
LEMMA NextBuilt == ShownInv /\ BuiltInv /\ [CaptureNext]_captureVars => BuiltInv'
<1> SUFFICES ASSUME ShownInv, BuiltInv, [CaptureNext]_captureVars PROVE BuiltInv'
  OBVIOUS
<1>0. TracesTyped /\ request \in Requests /\ Budget /\ CompletedIsValid
  BY DEF ShownInv, BuiltInv
<1>1. request' = request
  BY DEF CaptureNext, captureVars, Prepare, Launch, Bootstrap, Traced, Exit, Die, StartOther,
         OtherOpens, OtherWrites, OtherEnds, LauncherExits, Timeout, Collect, ProcessorStep,
         OutOfOrder, OnTraceStart, OnTraceEnd, FailTrace, OnSpanStart, OnSpanEnd, Shutdown,
         OpenFile, WriteFile, WriteFails
<1>2. ASSUME NEW capsule, WellBuilt(capsule), HasTheFiles(capsule)
      PROVE  (WellBuilt(capsule) /\ HasTheFiles(capsule))'
  BY <1>1, <1>2 DEF HasTheFiles
<1>3. ASSUME \A capsule \in Range(completed') : WellBuilt(capsule) /\ HasTheFiles(capsule)
      PROVE  CompletedIsValid'
  <2>1. \A capsule \in Range(completed') : (WellBuilt(capsule) /\ HasTheFiles(capsule))'
    BY <1>2, <1>3
  <2> QED
    BY <2>1 DEF CompletedIsValid
<1>4. ASSUME completed' \in {completed, <<>>} PROVE CompletedIsValid'
  <2>1. Range(completed') \subseteq Range(completed)
    BY <1>4 DEF Range
  <2>2. \A capsule \in Range(completed) : WellBuilt(capsule) /\ HasTheFiles(capsule)
    BY <1>0 DEF CompletedIsValid
  <2>3. \A capsule \in Range(completed') : WellBuilt(capsule) /\ HasTheFiles(capsule)
    BY <2>1, <2>2
  <2> QED
    BY <1>3, <2>3
<1>5. ASSUME NEW capsule, completed' = <<capsule>>, WellBuilt(capsule), HasTheFiles(capsule)
      PROVE  CompletedIsValid'
  <2>1. Range(completed') = {capsule}
    BY <1>5 DEF Range
  <2> QED
    BY <1>3, <1>5, <2>1
<1>6. CASE Traced
  <2>1. ProcessorStep
    BY <1>6 DEF Traced
  <2>2. Budget'
    BY <1>0, <2>1, StepBudget
  <2>3. CASE \E trace \in Trace : OnTraceEnd(trace)
    <3>1. PICK trace \in Trace : OnTraceEnd(trace)
      BY <2>3
    <3>2. \/ completed' \in {completed, <<>>}
          \/ \E capsule : completed' = <<capsule>> /\ WellBuilt(capsule) /\ HasTheFiles(capsule)
      BY <1>0, <3>1, EndIsValid
    <3>3. CompletedIsValid'
      <4>1. CASE completed' \in {completed, <<>>}
        BY <1>4, <4>1
      <4>2. ASSUME NEW capsule, completed' = <<capsule>>, WellBuilt(capsule), HasTheFiles(capsule)
            PROVE  CompletedIsValid'
        BY <1>5, <4>2
      <4> QED
        BY <3>2, <4>1, <4>2
    <3> QED
      BY <1>0, <1>1, <2>2, <3>3 DEF BuiltInv
  <2>4. CASE ~\E trace \in Trace : OnTraceEnd(trace)
    <3>1. completed' \in {completed, <<>>}
      BY <2>1, <2>4 DEF ProcessorStep, OutOfOrder, OnTraceStart, FailTrace, OnSpanStart, OnSpanEnd,
         Shutdown, OpenFile, WriteFile, WriteFails, processor
    <3> QED
      BY <1>0, <1>1, <1>4, <2>2, <3>1 DEF BuiltInv
  <2> QED
    BY <2>3, <2>4
<1>7. CASE Exit \/ Timeout
  <2>1. traces' = <<>> /\ completed' = <<>>
    BY <1>7 DEF Exit, Timeout, Die
  <2>2. DOMAIN traces' = {}
    BY <2>1
  <2>3. Budget'
    BY <2>2 DEF Budget
  <2> QED
    BY <1>0, <1>1, <1>4, <2>1, <2>3 DEF BuiltInv
<1>8. CASE UNCHANGED processor
  <2>1. UNCHANGED <<traces, completed>>
    BY <1>8 DEF processor
  <2>2. Budget'
    BY <1>0, <2>1 DEF Budget
  <2> QED
    BY <1>0, <1>1, <1>4, <2>1, <2>2 DEF BuiltInv
<1>9. Traced \/ Exit \/ Timeout \/ UNCHANGED processor
  BY DEF CaptureNext, captureVars, Prepare, Launch, Bootstrap, StartOther, OtherOpens, OtherWrites,
         OtherEnds, LauncherExits, Collect, processor
<1> QED
  BY <1>6, <1>7, <1>8, <1>9

\* _build_capsule, _capture_workspace, validate_capsule: whatever the callbacks
\* and the files are, a capsule that is completed is a valid one within the
\* limits, in which what an event refers to comes before it, and it has every
\* declared file once, under a name without secrets.
THEOREM CompletedStaysValid == CaptureSpec => []CompletedIsValid
<1>1. CaptureSpec => []ShownInv
  BY InitShown, NextShown, CaptureInvariance, PTL DEF CaptureSpec
<1>2. CaptureSpec => []BuiltInv
  BY <1>1, InitBuilt, NextBuilt, PTL DEF CaptureSpec
<1>3. BuiltInv => CompletedIsValid
  BY DEF BuiltInv
<1> QED
  BY <1>2, <1>3, PTL

===============================================================================
