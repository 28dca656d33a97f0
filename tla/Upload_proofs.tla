---------------------------- MODULE Upload_proofs ----------------------------
(***************************************************************************)
(* Theorems about Upload, for sources of any length, every destination and *)
(* every interleaving of failures, a signal and a kill.                    *)
(*                                                                         *)
(* That a commit publishes everything depends on how much of the temporary *)
(* could be read, which depends on how gzip was left; IInv follows the     *)
(* temporary and the destination from point to point.                      *)
(***************************************************************************)
EXTENDS Upload, TLAPS

\* Points before the destination is touched.
Before == {"open", "temp", "gzip", "seek", "resolve", "begin"}

\* How far the temporary is.
TempInv ==
  /\ pc \in {"open", "temp"} => temp = None
  /\ pc \in {"temp", "gzip", "seek"} => opt.compress
  /\ pc = "gzip" => temp \in 0 .. opt.pieces
  /\ pc = "seek" => temp = Total

\* How far the destination is.
DestInv ==
  /\ pc \in Before => sent = 0 /\ dest \in {None, Old}
  /\ pc \in Before \cup {"send", "finish", "done"} => ~readError
  /\ pc = "send" => IF Remote THEN dest \in {None, Old} ELSE dest = sent

IInv == TypeOK /\ TempManaged /\ TempInv /\ DestInv /\ WholeOrNothing

USE DEF Terminal, Before

\* The content has a length.
LEMMA TotalNat == ASSUME opt \in Opt
                  PROVE  /\ opt.pieces \in Nat /\ Total \in Nat /\ opt.compress \in BOOLEAN
                         /\ Total = IF opt.compress THEN opt.pieces + 1 ELSE opt.pieces
  BY OptAssumption DEF Total

\* IInv holds at first.
LEMMA InitInv == Init => IInv
<1>. SUFFICES ASSUME Init PROVE IInv
  OBVIOUS
<1>1. opt \in Opt /\ opt.compress \in BOOLEAN /\ Total \in Nat
  BY TotalNat DEF Init
<1>b. {cancelled, readError} \subseteq BOOLEAN
  BY Zenon DEF Init
<1>2. TypeOK
  BY <1>1, <1>b DEF Init, TypeOK
<1>3. TempManaged /\ TempInv /\ DestInv
  BY DEF Init, TempManaged, TempInv, DestInv
<1>4. WholeOrNothing
  BY DEF Init, WholeOrNothing, SuccessIsWhole, RemoteAllOrNothing
<1>. QED
  BY <1>2, <1>3, <1>4 DEF IInv

\* Preparing the source leaves the destination alone.
LEMMA PrepareStep ==
  ASSUME IInv, Open \/ CreateTemp \/ Gzip \/ CloseGzip \/ Seek \/ PrepareFails \/ Resolve
  PROVE  IInv'
<1>. USE DEF IInv, TypeOK, TempManaged, TempInv, DestInv, WholeOrNothing, SuccessIsWhole,
             RemoteAllOrNothing, Remote
<1>0. opt \in Opt
  OBVIOUS
<1>t. /\ opt.pieces \in Nat /\ Total \in Nat /\ opt.compress \in BOOLEAN
      /\ Total = IF opt.compress THEN opt.pieces + 1 ELSE opt.pieces
  BY <1>0, TotalNat
<1>1. CASE Open
  BY <1>t, <1>1 DEF Open, Total
<1>2. CASE CreateTemp
  BY <1>t, <1>2 DEF CreateTemp, Total
<1>3. CASE Gzip
  BY <1>t, <1>3 DEF Gzip, Total
<1>4. CASE CloseGzip
  BY <1>t, <1>4 DEF CloseGzip, Total
<1>5. CASE Seek
  BY <1>t, <1>5 DEF Seek, Total
<1>6. CASE PrepareFails
  BY <1>t, <1>6 DEF PrepareFails, Total
<1>7. CASE Resolve
  BY <1>t, <1>7 DEF Resolve, Total
<1>. QED
  BY <1>1, <1>2, <1>3, <1>4, <1>5, <1>6, <1>7

\* While the source is being sent all of it is there to be read.
LEMMA AllAvailable == ASSUME IInv, pc = "send"
                      PROVE  Available = Total /\ sent \in 0 .. Total /\ Total \in Nat
  BY TotalNat, OptAssumption DEF IInv, TypeOK, TempManaged, Available, Total

\* Sending, committing and cleaning up keep IInv.
LEMMA TransferStep ==
  ASSUME IInv, Begin \/ Send \/ SendFails \/ ReadFails \/ Commit \/ Cleanup
  PROVE  IInv'
<1>. USE DEF IInv, TypeOK, TempManaged, TempInv, DestInv, WholeOrNothing, SuccessIsWhole,
             RemoteAllOrNothing, Remote
<1>0. opt \in Opt /\ opt.kind \in {"local", "gcs", "azblob"} /\ opt.lateErrors \in BOOLEAN
  BY OptAssumption
<1>t. /\ opt.pieces \in Nat /\ Total \in Nat /\ opt.compress \in BOOLEAN
      /\ Total = IF opt.compress THEN opt.pieces + 1 ELSE opt.pieces
  BY <1>0, TotalNat
<1>1. CASE Begin
  BY <1>0, <1>t, <1>1 DEF Begin, Begun, Total
<1>2. CASE Send
  BY <1>0, <1>t, <1>2, AllAvailable, MarkersAssumption DEF Send, Total
<1>3. CASE SendFails
  BY <1>0, <1>t, <1>3 DEF SendFails, Total
<1>4. CASE ReadFails
  BY <1>0, <1>t, <1>4 DEF ReadFails, AfterReadError, Total
<1>5. CASE Commit
  BY <1>0, <1>t, <1>5, AllAvailable DEF Commit, AllSent, Total
<1>6. CASE Cleanup
  BY <1>0, <1>t, <1>6 DEF Cleanup, Total
<1>. QED
  BY <1>1, <1>2, <1>3, <1>4, <1>5, <1>6

\* The environment, and steps that change nothing.
LEMMA OtherStep ==
  ASSUME IInv, Cancel \/ Crash \/ Ended \/ UNCHANGED vars
  PROVE  IInv'
<1>. USE DEF IInv, TypeOK, TempManaged, TempInv, DestInv, WholeOrNothing, SuccessIsWhole,
             RemoteAllOrNothing, Remote, Total
<1>1. CASE Cancel
  BY <1>1 DEF Cancel
<1>2. CASE Crash
  BY <1>2 DEF Crash
<1>3. CASE Ended \/ UNCHANGED vars
  BY <1>3 DEF Ended, vars
<1>. QED
  BY <1>1, <1>2, <1>3

\* Every upload is where IInv says.
THEOREM Invariance == Spec => []IInv
<1>1. IInv /\ [Next]_vars => IInv'
  BY PrepareStep, TransferStep, OtherStep DEF Next, Process
<1>. QED
  BY InitInv, <1>1, PTL DEF Spec

\* The variables keep their shapes, and nothing grows beyond the content.
THEOREM TypeCorrect == Spec => []TypeOK
<1>1. IInv => TypeOK
  BY DEF IInv
<1>. QED
  BY Invariance, <1>1, PTL

\* Success means that all pieces and the trailer are at the destination, and a
\* cloud object is never seen in part, except on GCS after a failed read.
THEOREM AllOrNothing == Spec => []WholeOrNothing
<1>1. IInv => WholeOrNothing
  BY DEF IInv
<1>. QED
  BY Invariance, <1>1, PTL

\* The gzip temporary is whole while it is sent, and gone in the end.
THEOREM TempCorrect == Spec => []TempManaged
<1>1. IInv => TempManaged
  BY DEF IInv
<1>. QED
  BY Invariance, <1>1, PTL
==============================================================================
