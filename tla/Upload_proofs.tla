--------------------------- MODULE Upload_proofs ---------------------------
(***************************************************************************)
(* Proofs about Upload: for any number of uploads, over SFTP and locally,  *)
(* the destination is never a part of an upload, an upload without leave   *)
(* to replace never does, and nothing is published behind the back of a    *)
(* caller that is still there and was not told of a lost connection.       *)
(*                                                                         *)
(* The argument: an upload has at most one operation with the server, at   *)
(* its pc or left behind as its orphan, and an orphan means that its       *)
(* context was cancelled or its connection lost, and that it issues no     *)
(* operation any more (Left).  So nothing writes the payload any more once *)
(* it is to be published (Whole), and a rename was the caller's choice     *)
(* (Choice).                                                               *)
(***************************************************************************)
EXTENDS Upload, TLAPS

Publishing == {"close", "link", "rename"}

Left ==
    \A u \in Uploads :
        /\ orphan[u] # "none" =>
              /\ cancelled[u] \/ ~Works(u)
              /\ outcome[u] # "created"
              /\ \/ pc[u] \in {"leaving", "done"}
                 \/ ~Works(u) /\ pc[u] = "probe"
                 \/ ~Works(u) /\ pc[u] = orphan[u] /\ reply[u] = "refused"
        /\ outcome[u] # "none" => pc[u] \in {"leaving", "done"}

Whole ==
    /\ NeverTorn
    /\ \A u \in Uploads :
          pc[u] \in Publishing \/ orphan[u] \in Publishing => payload[u] # "part"

Choice == \A u \in Uploads : pc[u] = "rename" \/ orphan[u] = "rename" => overwrite[u]

IInv == TypeOK /\ Left /\ Whole /\ Choice

-----------------------------------------------------------------------------
(***************************************************************************)
(* What an operation does to the files.                                    *)
(***************************************************************************)
\* Types of the files, and the frame: an operation touches its own upload.
LEMMA EffectFrame ==
    ASSUME TypeOK, NEW u \in Uploads, NEW op, Effect(op, u)
    PROVE  /\ dest' \in Uploads \union {Other, Nobody}
           /\ torn' \in BOOLEAN
           /\ payload' \in [Uploads -> {"none", "part", "all"}]
           /\ stage' \in [Uploads -> BOOLEAN]
           /\ \A v \in Uploads : v # u => payload'[v] = payload[v]
<1> USE DEF TypeOK
<1>1. CASE CreatePayload(u)
  BY <1>1, UploadAssumption DEF CreatePayload
<1>2. CASE WritePayload(u)
  BY <1>2 DEF WritePayload
<1>3. CASE ClosePayload(u)
  BY <1>3 DEF ClosePayload, server
<1>4. CASE LinkPayload(u)
  BY <1>4 DEF LinkPayload
<1>5. CASE RenamePayload(u)
  BY <1>5 DEF RenamePayload
<1>6. CASE RemovePayload(u)
  BY <1>6 DEF RemovePayload
<1>7. CASE RemoveStage(u)
  BY <1>7 DEF RemoveStage
<1>8. QED
  BY <1>1, <1>2, <1>3, <1>4, <1>5, <1>6, <1>7 DEF Effect

\* Only a write leaves a part where there was none, and only a publication
\* changes the destination: a link if there is nothing.
LEMMA EffectPublishes ==
    ASSUME TypeOK, NEW u \in Uploads, NEW op, Effect(op, u)
    PROVE  /\ op \in Ops
           /\ op \in Publishing => payload'[u] \in {payload[u], "none"}
           /\ <<dest, torn>>' # <<dest, torn>> =>
                 /\ op \in {"link", "rename"}
                 /\ dest' = u
                 /\ torn' = (payload[u] = "part")
           /\ op = "link" => dest = Nobody
  BY DEF TypeOK, Ops, Publishing, Effect, CreatePayload, WritePayload, ClosePayload,
     LinkPayload, RenamePayload, RemovePayload, RemoveStage, server

-----------------------------------------------------------------------------
(***************************************************************************)
(* The invariant.                                                          *)
(***************************************************************************)
LEMMA InitIInv == Init => IInv
<1> SUFFICES ASSUME Init PROVE IInv
  OBVIOUS
<1> USE DEF Init
<1>1. TypeOK
  BY DEF TypeOK, Ops, Places
<1>2. Left
  BY DEF Left
<1>3. Whole
  BY DEF Whole, NeverTorn, Publishing
<1>4. Choice
  BY DEF Choice
<1>5. QED
  BY <1>1, <1>2, <1>3, <1>4 DEF IInv

\* Every action keeps the types.
LEMMA TypeStep == IInv /\ [Next]_vars => TypeOK'
<1> SUFFICES ASSUME IInv, [Next]_vars PROVE TypeOK'
  OBVIOUS
<1> USE UploadAssumption DEF IInv, TypeOK, Ops, Places, server, local, Left, Works
<1>1. ASSUME NEW u \in Uploads, Check(u)
      PROVE  TypeOK'
  BY <1>1 DEF Check, GoTo
<1>2. ASSUME NEW u \in Uploads, Issue(u)
      PROVE  TypeOK'
  BY <1>2 DEF Issue
<1>3. ASSUME NEW u \in Uploads, Serve(u)
      PROVE  TypeOK'
  BY <1>3, EffectFrame, EffectPublishes DEF Serve
<1>4. ASSUME NEW u \in Uploads, ConnectionLost(u)
      PROVE  TypeOK'
  BY <1>4 DEF ConnectionLost
<1>5. ASSUME NEW u \in Uploads, Proceed(u)
      PROVE  TypeOK'
  BY <1>5 DEF Proceed, NextOp, Finish, GoTo
<1>6. ASSUME NEW u \in Uploads, Refused(u)
      PROVE  TypeOK'
  BY <1>6 DEF Refused, Finish, GoTo
<1>7. ASSUME NEW u \in Uploads, Probe(u)
      PROVE  TypeOK'
  BY <1>7 DEF Probe, Finish, GoTo
<1>8. ASSUME NEW u \in Uploads, Abandon(u)
      PROVE  TypeOK'
  BY <1>8 DEF Abandon, Finish, GoTo
<1>9. ASSUME NEW u \in Uploads, Return(u)
      PROVE  TypeOK'
  BY <1>9 DEF Return, GoTo
<1>10. ASSUME NEW u \in Uploads, SourceFails(u)
      PROVE  TypeOK'
  BY <1>10 DEF SourceFails, Finish, GoTo
<1>11. ASSUME NEW u \in Uploads, ServeOrphan(u)
      PROVE  TypeOK'
  BY <1>11, EffectFrame, EffectPublishes DEF ServeOrphan
<1>12. ASSUME NEW u \in Uploads, CleanRemove(u)
      PROVE  TypeOK'
  BY <1>12 DEF CleanRemove, RemovePayload
<1>13. ASSUME NEW u \in Uploads, CleanStage(u)
      PROVE  TypeOK'
  <2>1. stage' \in [Uploads -> BOOLEAN] /\ UNCHANGED <<dest, torn, payload>>
    <3>1. CASE RemoveStage(u)
      BY <3>1 DEF RemoveStage
    <3>2. CASE UNCHANGED server
      BY <3>2
    <3>3. QED
      BY <1>13, <3>1, <3>2 DEF CleanStage
  <2>2. cleaner' \in [Uploads -> {"none", "remove", "rmdir"}] /\ UNCHANGED <<pc, reply>>
    BY <1>13 DEF CleanStage
  <2>3. \A v \in Uploads : cleaner'[v] # "none" => cleaner[v] # "none"
    BY <1>13 DEF CleanStage
  <2>4. QED
    BY <1>13, <2>1, <2>2, <2>3 DEF CleanStage
<1>14. ASSUME NEW u \in Uploads, Cancel(u)
      PROVE  TypeOK'
  BY <1>14 DEF Cancel
<1>15. ASSUME NEW u \in Uploads, NEW ow \in BOOLEAN, NEW s \in BOOLEAN, Start(u, ow, s)
      PROVE  TypeOK'
  BY <1>15 DEF Start, GoTo
<1>16. CASE OtherCreates
  BY <1>16 DEF OtherCreates
<1>17. CASE OtherRemoves
  BY <1>17 DEF OtherRemoves
<1>18. CASE Disconnect
  BY <1>18 DEF Disconnect
<1>19. CASE UNCHANGED vars
  BY <1>19 DEF vars
<1>20. QED
  BY <1>1, <1>2, <1>3, <1>4, <1>5, <1>6, <1>7, <1>8, <1>9, <1>10, <1>11, <1>12, <1>13, <1>14, <1>15, <1>16, <1>17, <1>18, <1>19 DEF Next, Step, Clean

\* Only a caller whose context is done, or whose connection is lost, leaves an
\* operation behind.
LEMMA LeftStep == IInv /\ [Next]_vars => Left'
<1> SUFFICES ASSUME IInv, [Next]_vars PROVE Left'
  OBVIOUS
<1> USE UploadAssumption DEF IInv, TypeOK, Ops, Places, server, local, Left, Works
<1>1. ASSUME NEW u \in Uploads, Check(u)
      PROVE  Left'
  BY <1>1 DEF Check, GoTo
<1>2. ASSUME NEW u \in Uploads, Issue(u)
      PROVE  Left'
  BY <1>2 DEF Issue
<1>3. ASSUME NEW u \in Uploads, Serve(u)
      PROVE  Left'
  BY <1>3, EffectFrame, EffectPublishes DEF Serve
<1>4. ASSUME NEW u \in Uploads, ConnectionLost(u)
      PROVE  Left'
  BY <1>4 DEF ConnectionLost
<1>5. ASSUME NEW u \in Uploads, Proceed(u)
      PROVE  Left'
  BY <1>5 DEF Proceed, NextOp, Finish, GoTo
<1>6. ASSUME NEW u \in Uploads, Refused(u)
      PROVE  Left'
  BY <1>6 DEF Refused, Finish, GoTo
<1>7. ASSUME NEW u \in Uploads, Probe(u)
      PROVE  Left'
  BY <1>7 DEF Probe, Finish, GoTo
<1>8. ASSUME NEW u \in Uploads, Abandon(u)
      PROVE  Left'
  BY <1>8 DEF Abandon, Finish, GoTo
<1>9. ASSUME NEW u \in Uploads, Return(u)
      PROVE  Left'
  BY <1>9 DEF Return, GoTo
<1>10. ASSUME NEW u \in Uploads, SourceFails(u)
      PROVE  Left'
  BY <1>10 DEF SourceFails, Finish, GoTo
<1>11. ASSUME NEW u \in Uploads, ServeOrphan(u)
      PROVE  Left'
  BY <1>11, EffectFrame, EffectPublishes DEF ServeOrphan
<1>12. ASSUME NEW u \in Uploads, CleanRemove(u)
      PROVE  Left'
  BY <1>12 DEF CleanRemove, RemovePayload
<1>13. ASSUME NEW u \in Uploads, CleanStage(u)
      PROVE  Left'
  BY <1>13 DEF CleanStage, RemoveStage
<1>14. ASSUME NEW u \in Uploads, Cancel(u)
      PROVE  Left'
  BY <1>14 DEF Cancel
<1>15. ASSUME NEW u \in Uploads, NEW ow \in BOOLEAN, NEW s \in BOOLEAN, Start(u, ow, s)
      PROVE  Left'
  BY <1>15 DEF Start, GoTo
<1>16. CASE OtherCreates
  BY <1>16 DEF OtherCreates
<1>17. CASE OtherRemoves
  BY <1>17 DEF OtherRemoves
<1>18. CASE Disconnect
  BY <1>18 DEF Disconnect
<1>19. CASE UNCHANGED vars
  BY <1>19 DEF vars
<1>20. QED
  BY <1>1, <1>2, <1>3, <1>4, <1>5, <1>6, <1>7, <1>8, <1>9, <1>10, <1>11, <1>12, <1>13, <1>14, <1>15, <1>16, <1>17, <1>18, <1>19 DEF Next, Step, Clean

\* What is to be published is not written any more.
LEMMA WholeStep == IInv /\ [Next]_vars => Whole'
<1> SUFFICES ASSUME IInv, [Next]_vars PROVE Whole'
  OBVIOUS
<1> USE UploadAssumption DEF IInv, TypeOK, Ops, Places, server, local, Left, Whole, NeverTorn, Publishing
<1>1. ASSUME NEW u \in Uploads, Check(u)
      PROVE  Whole'
  BY <1>1 DEF Check, GoTo
<1>2. ASSUME NEW u \in Uploads, Issue(u)
      PROVE  Whole'
  BY <1>2 DEF Issue
<1>3. ASSUME NEW u \in Uploads, Serve(u)
      PROVE  Whole'
  BY <1>3, EffectFrame, EffectPublishes DEF Serve
<1>4. ASSUME NEW u \in Uploads, ConnectionLost(u)
      PROVE  Whole'
  BY <1>4 DEF ConnectionLost
<1>5. ASSUME NEW u \in Uploads, Proceed(u)
      PROVE  Whole'
  BY <1>5 DEF Proceed, NextOp, Finish, GoTo
<1>6. ASSUME NEW u \in Uploads, Refused(u)
      PROVE  Whole'
  BY <1>6 DEF Refused, Finish, GoTo
<1>7. ASSUME NEW u \in Uploads, Probe(u)
      PROVE  Whole'
  BY <1>7 DEF Probe, Finish, GoTo
<1>8. ASSUME NEW u \in Uploads, Abandon(u)
      PROVE  Whole'
  BY <1>8 DEF Abandon, Finish, GoTo
<1>9. ASSUME NEW u \in Uploads, Return(u)
      PROVE  Whole'
  BY <1>9 DEF Return, GoTo
<1>10. ASSUME NEW u \in Uploads, SourceFails(u)
      PROVE  Whole'
  BY <1>10 DEF SourceFails, Finish, GoTo
<1>11. ASSUME NEW u \in Uploads, ServeOrphan(u)
      PROVE  Whole'
  BY <1>11, EffectFrame, EffectPublishes DEF ServeOrphan
<1>12. ASSUME NEW u \in Uploads, CleanRemove(u)
      PROVE  Whole'
  BY <1>12 DEF CleanRemove, RemovePayload
<1>13. ASSUME NEW u \in Uploads, CleanStage(u)
      PROVE  Whole'
  BY <1>13 DEF CleanStage, RemoveStage
<1>14. ASSUME NEW u \in Uploads, Cancel(u)
      PROVE  Whole'
  BY <1>14 DEF Cancel
<1>15. ASSUME NEW u \in Uploads, NEW ow \in BOOLEAN, NEW s \in BOOLEAN, Start(u, ow, s)
      PROVE  Whole'
  BY <1>15 DEF Start, GoTo
<1>16. CASE OtherCreates
  BY <1>16 DEF OtherCreates
<1>17. CASE OtherRemoves
  BY <1>17 DEF OtherRemoves
<1>18. CASE Disconnect
  BY <1>18 DEF Disconnect
<1>19. CASE UNCHANGED vars
  BY <1>19 DEF vars
<1>20. QED
  BY <1>1, <1>2, <1>3, <1>4, <1>5, <1>6, <1>7, <1>8, <1>9, <1>10, <1>11, <1>12, <1>13, <1>14, <1>15, <1>16, <1>17, <1>18, <1>19 DEF Next, Step, Clean

\* A rename is the choice of the caller.
LEMMA ChoiceStep == IInv /\ [Next]_vars => Choice'
<1> SUFFICES ASSUME IInv, [Next]_vars PROVE Choice'
  OBVIOUS
<1> USE UploadAssumption DEF IInv, TypeOK, Ops, Places, server, local, Left, Choice
<1>1. ASSUME NEW u \in Uploads, Check(u)
      PROVE  Choice'
  BY <1>1 DEF Check, GoTo
<1>2. ASSUME NEW u \in Uploads, Issue(u)
      PROVE  Choice'
  BY <1>2 DEF Issue
<1>3. ASSUME NEW u \in Uploads, Serve(u)
      PROVE  Choice'
  BY <1>3, EffectFrame, EffectPublishes DEF Serve
<1>4. ASSUME NEW u \in Uploads, ConnectionLost(u)
      PROVE  Choice'
  BY <1>4 DEF ConnectionLost
<1>5. ASSUME NEW u \in Uploads, Proceed(u)
      PROVE  Choice'
  BY <1>5 DEF Proceed, NextOp, Finish, GoTo
<1>6. ASSUME NEW u \in Uploads, Refused(u)
      PROVE  Choice'
  BY <1>6 DEF Refused, Finish, GoTo
<1>7. ASSUME NEW u \in Uploads, Probe(u)
      PROVE  Choice'
  BY <1>7 DEF Probe, Finish, GoTo
<1>8. ASSUME NEW u \in Uploads, Abandon(u)
      PROVE  Choice'
  BY <1>8 DEF Abandon, Finish, GoTo
<1>9. ASSUME NEW u \in Uploads, Return(u)
      PROVE  Choice'
  BY <1>9 DEF Return, GoTo
<1>10. ASSUME NEW u \in Uploads, SourceFails(u)
      PROVE  Choice'
  BY <1>10 DEF SourceFails, Finish, GoTo
<1>11. ASSUME NEW u \in Uploads, ServeOrphan(u)
      PROVE  Choice'
  BY <1>11, EffectFrame, EffectPublishes DEF ServeOrphan
<1>12. ASSUME NEW u \in Uploads, CleanRemove(u)
      PROVE  Choice'
  BY <1>12 DEF CleanRemove, RemovePayload
<1>13. ASSUME NEW u \in Uploads, CleanStage(u)
      PROVE  Choice'
  BY <1>13 DEF CleanStage, RemoveStage
<1>14. ASSUME NEW u \in Uploads, Cancel(u)
      PROVE  Choice'
  BY <1>14 DEF Cancel
<1>15. ASSUME NEW u \in Uploads, NEW ow \in BOOLEAN, NEW s \in BOOLEAN, Start(u, ow, s)
      PROVE  Choice'
  BY <1>15 DEF Start, GoTo
<1>16. CASE OtherCreates
  BY <1>16 DEF OtherCreates
<1>17. CASE OtherRemoves
  BY <1>17 DEF OtherRemoves
<1>18. CASE Disconnect
  BY <1>18 DEF Disconnect
<1>19. CASE UNCHANGED vars
  BY <1>19 DEF vars
<1>20. QED
  BY <1>1, <1>2, <1>3, <1>4, <1>5, <1>6, <1>7, <1>8, <1>9, <1>10, <1>11, <1>12, <1>13, <1>14, <1>15, <1>16, <1>17, <1>18, <1>19 DEF Next, Step, Clean

-----------------------------------------------------------------------------
(***************************************************************************)
(* The theorems.                                                           *)
(***************************************************************************)
\* The invariant is inductive.
LEMMA Inductive == Spec => []IInv
<1>1. IInv /\ [Next]_vars => IInv'
  BY TypeStep, LeftStep, WholeStep, ChoiceStep DEF IInv
<1>2. QED
  BY InitIInv, <1>1, PTL DEF Spec

\* The types of the uploads and of what is stored.
THEOREM TypeCorrect == Spec => []TypeOK
<1>1. IInv => TypeOK
  BY DEF IInv
<1>2. QED
  BY Inductive, <1>1, PTL

\* The staged payload is complete when it is published.
THEOREM DestinationWhole == Spec => []NeverTorn
<1>1. IInv => NeverTorn
  BY DEF IInv, Whole
<1>2. QED
  BY Inductive, <1>1, PTL

\* Only a served operation publishes, and it is the one at its upload's pc or
\* the one its upload has left behind.
LEMMA PublishedBy ==
    ASSUME IInv, [Next]_vars, NEW u \in Uploads, dest' = u, dest # u
    PROVE  \/ pc[u] = "rename" \/ orphan[u] = "rename"
           \/ dest = Nobody /\ (pc[u] = "link" \/ orphan[u] = "link")
<1> USE UploadAssumption DEF IInv, TypeOK, server, local
<1>1. ASSUME NEW v \in Uploads, Serve(v)
      PROVE  dest' = dest \/ (v = u /\ (pc[v] = "rename" \/ (pc[v] = "link" /\ dest = Nobody)))
  BY <1>1, EffectPublishes DEF Serve
<1>2. ASSUME NEW v \in Uploads, ServeOrphan(v)
      PROVE  dest' = dest \/ (v = u /\ (orphan[v] = "rename" \/ (orphan[v] = "link" /\ dest = Nobody)))
  BY <1>2, EffectPublishes DEF ServeOrphan
<1>3. ASSUME NEW v \in Uploads, Check(v) \/ Issue(v) \/ ConnectionLost(v) \/ Proceed(v)
                \/ Refused(v) \/ Probe(v) \/ Abandon(v) \/ Return(v) \/ SourceFails(v) \/ Cancel(v)
      PROVE  dest' = dest
  BY <1>3 DEF Check, Issue, ConnectionLost, Proceed, Refused, Probe, Abandon, Return, SourceFails, Cancel
<1>4. ASSUME NEW v \in Uploads, CleanRemove(v) \/ CleanStage(v)
      PROVE  dest' = dest
  BY <1>4 DEF CleanRemove, CleanStage, RemovePayload, RemoveStage
<1>5. ASSUME NEW v \in Uploads, NEW ow \in BOOLEAN, NEW s \in BOOLEAN, Start(v, ow, s)
      PROVE  dest' = dest
  BY <1>5 DEF Start
<1>6. dest' # dest
  OBVIOUS
<1>7. ~(OtherCreates \/ OtherRemoves \/ Disconnect \/ UNCHANGED vars)
  BY <1>6 DEF OtherCreates, OtherRemoves, Disconnect, vars
<1>8. QED
  BY <1>1, <1>2, <1>3, <1>4, <1>5, <1>6, <1>7 DEF Next, Step, Clean

\* An upload without leave to replace never does: the late link of a cancelled
\* one is refused if the name is taken, and a rename was the caller's choice.
THEOREM NeverClobbers == Spec => NoClobber
<1>1. IInv /\ [Next]_vars
        => [\A u \in Uploads : dest' = u /\ dest \notin {u, Nobody} => overwrite[u]]_vars
  BY PublishedBy DEF IInv, Choice
<1>2. QED
  BY Inductive, <1>1, PTL DEF Spec, NoClobber

\* A caller that was told of a failure sees nothing published later, unless it
\* had cancelled before or its connection was lost; one that was told of a
\* success sees nothing published ever again.
THEOREM NeverLate == Spec => NoLatePublication
<1>1. IInv /\ [Next]_vars
        => [\A u \in Uploads : dest' = u /\ dest # u =>
              /\ outcome[u] # "created"
              /\ pc[u] \in {"link", "rename"} \/ cancelled[u] \/ ~Works(u)]_vars
  BY PublishedBy DEF IInv, Left
<1>2. QED
  BY Inductive, <1>1, PTL DEF Spec, NoLatePublication

\* Both.
THEOREM PublishesWhatIsTold == Spec => PublishesAsTold
BY NeverClobbers, NeverLate DEF PublishesAsTold
=============================================================================
