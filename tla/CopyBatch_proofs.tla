--------------------------- MODULE CopyBatch_proofs ----------------------------
(***************************************************************************)
(* Theorems about CopyBatch, for every plan, every set of options, every   *)
(* content of the locations and every interleaving of failures, a signal   *)
(* and a kill.                                                             *)
(*                                                                         *)
(* What a batch has done depends on how far it is: IInv says, for every    *)
(* point of a run, how the counters add up (CountInv), what each location  *)
(* holds (CopiedInv, PlannedInv) and what became of the landing files      *)
(* (KeptInv, RemovedInv).  It holds initially, each action keeps it, and   *)
(* the theorems follow from it.                                            *)
(***************************************************************************)
EXTENDS CopyBatch, SequenceTheorems, FiniteSetTheorems, WellFoundedInduction, TLAPS

Working == pc \notin {"validate", "rejected", "crashed"}

\* The transfers whose destination has been written.
Moved == IF pc = "putDone" THEN item ELSE transferred

\* No two sources share a basename.
Distinct == \A j, k \in DOMAIN Plan : Land[Plan[j].src] = Land[Plan[k].src] => j = k

\* Every transfer that was begun has been counted, but the one in progress.
CountInv ==
  /\ pc \in {"validate", "rejected"} => item = 0 /\ transferred = 0 /\ errors = <<>>
  /\ pc # "crashed" =>
       transferred + Len(errors) = IF pc \in {"get", "put", "send", "putDone"} THEN item - 1 ELSE item
  /\ Working => Valid
  /\ pc \in {"get", "put", "send", "putDone", "putFailed", "failed"} => item >= 1
  /\ pc \in {"putFailed", "failed", "summary"} => errors # <<>>
  /\ ~job.continueOnError /\ errors # <<>> =>
       pc \in {"putFailed", "failed", "summary", "done", "crashed"}
  /\ pc = "done" => /\ exit = BatchExit
                    /\ errors = <<>> => item = Len(Plan)

\* As long as nothing has failed, the locations are those of plain copies.
CopiedInv ==
  Apart /\ errors = <<>> /\ Working =>
    /\ \A l \in Loc \ Landings :
         (pc = "send" /\ l = Dst) \/ (file[l] = Copies(job)[Moved][l] /\ file[l] # Torn)
    /\ pc \in {"put", "send"} =>
         /\ file[LandingPath] = Copies(job)[Moved][Src]
         /\ file[LandingPath] \notin {None, Torn}
    /\ \A k \in 1 .. Moved : file[Plan[k].dst] = Copies(job)[k - 1][Plan[k].src]

\* What is not planned, or not yet, has not happened; what is done stays.
PlannedInv ==
  /\ pc = "validate" => file = Start
  /\ Apart =>
       /\ \A l \in Loc \ (Targets \cup Landings) : file[l] = Start[l]
       /\ \A k \in DOMAIN Plan : k > item => file[Plan[k].dst] = Start[Plan[k].dst]
       /\ ~job.continueOnError =>
            \A k \in DOMAIN Plan : k < item \/ (k = item /\ pc \in {"putDone", "next"}) =>
              file[Plan[k].dst] \notin {None, Torn}

\* With --keep-landing the landing files of what was copied are the copies.
KeptInv ==
  job.keepLanding /\ Apart /\ Distinct /\ errors = <<>> /\ Working =>
    \A k \in 1 .. Moved : file[Land[Plan[k].src]] = file[Plan[k].dst]

\* Without it only the transfer in progress has one.
RemovedInv ==
  ~job.keepLanding /\ Working =>
    \A l \in Landings \ Targets :
      \/ pc \in {"put", "send", "putDone", "putFailed"} /\ l = LandingPath
      \/ file[l] \in {None, Start[l]}

IInv ==
  /\ TypeOK
  /\ CountInv
  /\ CopiedInv
  /\ PlannedInv
  /\ KeptInv
  /\ RemovedInv

------------------------------------------------------------------------------
(* Plain copies: a recursion over the plan.                                  *)

\* The pairs of naturals in order.
Less == {p \in Nat \X Nat : p[1] < p[2]}

\* The order of the naturals is well founded.
LEMMA LessWF == IsWellFoundedOn(Less, Nat)
  BY NatLessThanWellFounded DEF OpToRel, Less

\* A set with 0 and with every successor of its members holds the naturals.
LEMMA Induct ==
  ASSUME NEW S, 0 \in S, \A n \in Nat : n \in S => n + 1 \in S
  PROVE  Nat \subseteq S
  <1> SUFFICES ASSUME Nat \ S # {} PROVE FALSE
    OBVIOUS
  <1>1. PICK x \in Nat \ S : \A y \in Nat \ S : <<y, x>> \notin Less
    BY LessWF, WFMin, (Nat \ S) \subseteq Nat
  <1>2. x # 0 /\ x - 1 \in Nat /\ x \in Nat
    OBVIOUS
  <1>3. <<x - 1, x>> \in Less
    BY <1>2 DEF Less
  <1>4. x - 1 \in S
    BY <1>1, <1>2, <1>3
  <1> QED  BY <1>2, <1>4

\* The locations after transfer k, from those before it.
Copied(j, k, f) == [f EXCEPT ![j.plan[k].dst] = f[j.plan[k].src]]

\* The first n + 1 values of Copies, as a function.
IsCopies(c, j, n) == c = [k \in 0 .. n |-> IF k = 0 THEN Before(j) ELSE Copied(j, k, c[k - 1])]

\* The recursion that defines Copies has a solution.
LEMMA CopiesExist ==
  ASSUME NEW j, NEW m \in Nat
  PROVE  \E c : IsCopies(c, j, m)
  <1> DEFINE Good(n) == \E c : IsCopies(c, j, n)
             S == {n \in Nat : Good(n)}
  <1>1. Good(0)
    <2> DEFINE z == [k \in 0 .. 0 |-> Before(j)]
    <2>1. IsCopies(z, j, 0)
      BY DEF IsCopies
    <2> QED  BY <2>1
  <1>2. ASSUME NEW n \in Nat, Good(n) PROVE Good(n + 1)
    <2>1. PICK c : IsCopies(c, j, n)
      BY <1>2
    <2> DEFINE g == [k \in 0 .. n + 1 |-> IF k = n + 1 THEN Copied(j, n + 1, c[n]) ELSE c[k]]
    <2>2. /\ g[0] = Before(j) /\ g[n + 1] = Copied(j, n + 1, g[n])
          /\ \A k \in 0 .. n : g[k] = c[k]
      BY <2>1 DEF IsCopies
    <2>3. \A k \in 1 .. n : g[k] = Copied(j, k, g[k - 1])
      BY <2>1, <2>2 DEF IsCopies
    <2>4. g = [k \in 0 .. n + 1 |-> g[k]]
      OBVIOUS
    <2> HIDE DEF g
    <2>5. \A k \in 0 .. n + 1 : g[k] = IF k = 0 THEN Before(j) ELSE Copied(j, k, g[k - 1])
      BY <2>2, <2>3
    <2>6. IsCopies(g, j, n + 1)
      BY <2>4, <2>5 DEF IsCopies
    <2> QED  BY <2>6
  <1> HIDE DEF Good
  <1>3. Nat \subseteq S
    <2>1. 0 \in S
      BY <1>1
    <2>2. \A n \in Nat : n \in S => n + 1 \in S
      BY <1>2
    <2> HIDE DEF S
    <2> QED  BY <2>1, <2>2, Induct
  <1>4. Good(m)
    BY <1>3
  <1> QED  BY <1>4 DEF Good

\* Plain copies, one transfer at a time.
LEMMA CopiesDef ==
  ASSUME NEW j, Len(j.plan) \in Nat
  PROVE  /\ Copies(j)[0] = Before(j)
         /\ \A k \in 1 .. Len(j.plan) : Copies(j)[k] = Copied(j, k, Copies(j)[k - 1])
  <1>1. \E c : IsCopies(c, j, Len(j.plan))
    BY CopiesExist
  <1>2. IsCopies(Copies(j), j, Len(j.plan))
    BY <1>1, Zenon DEF IsCopies, Copies, Copied
  <1>3. PICK c : c = Copies(j)
    OBVIOUS
  <1>4. \A k \in 0 .. Len(j.plan) : c[k] = IF k = 0 THEN Before(j) ELSE Copied(j, k, c[k - 1])
    BY <1>2, <1>3 DEF IsCopies
  <1> QED  BY <1>3, <1>4

\* At every point each location holds something.
LEMMA CopiesDomain ==
  ASSUME NEW j, Len(j.plan) \in Nat, NEW m \in 0 .. Len(j.plan)
  PROVE  DOMAIN Copies(j)[m] = Loc
  <1> DEFINE c == Copies(j)
             S == {n \in Nat : n <= Len(j.plan) => DOMAIN c[n] = Loc}
  <1>1. /\ c[0] = Before(j)
        /\ \A k \in 1 .. Len(j.plan) : c[k] = Copied(j, k, c[k - 1])
    BY CopiesDef
  <1> HIDE DEF c
  <1>2. 0 \in S
    BY <1>1 DEF Before
  <1>3. ASSUME NEW n \in Nat, n \in S PROVE n + 1 \in S
    <2> SUFFICES ASSUME n + 1 <= Len(j.plan) PROVE DOMAIN c[n + 1] = Loc
      OBVIOUS
    <2>1. n + 1 \in 1 .. Len(j.plan) /\ (n + 1) - 1 = n
      OBVIOUS
    <2>2. c[n + 1] = Copied(j, n + 1, c[n])
      BY <1>1, <2>1
    <2>3. DOMAIN c[n] = Loc
      BY <1>3, <2>1
    <2> QED  BY <2>2, <2>3 DEF Copied
  <1>4. Nat \subseteq S
    <2>1. \A n \in Nat : n \in S => n + 1 \in S
      BY <1>3
    <2> HIDE DEF S
    <2> QED  BY <1>2, <2>1, Induct
  <1> QED  BY <1>4 DEF c

------------------------------------------------------------------------------
(* What a plan is made of.                                                   *)

\* Options and plan have the types cp gives them.
LEMMA PlanFacts ==
  ASSUME job \in Job
  PROVE  /\ Plan \in Seq([src : Loc, dst : Loc]) /\ Len(Plan) \in Nat /\ DOMAIN Plan = 1 .. Len(Plan)
         /\ \A k \in 1 .. Len(Plan) : /\ Plan[k].src \in Loc /\ Plan[k].dst \in Loc
                                     /\ Plan[k].src \in Sources /\ Plan[k].dst \in Targets
                                     /\ Land[Plan[k].src] \in Landings
         /\ Landings \subseteq Loc
  <1> DEFINE Item == [src : Loc, dst : Loc]
  <1>0. \A j \in Job : j.plan \in Seq(Item)
    BY JobAssumption, Zenon
  <1> HIDE DEF Item
  <1>1. Plan \in Seq(Item) /\ Len(Plan) \in Nat /\ DOMAIN Plan = 1 .. Len(Plan)
    BY <1>0 DEF Plan
  <1> USE DEF Item
  <1>2. \A k \in 1 .. Len(Plan) : Plan[k] \in [src : Loc, dst : Loc]
    BY <1>1, ElementOfSeq
  <1>3. \A k \in 1 .. Len(Plan) : /\ Plan[k].src \in Loc /\ Plan[k].dst \in Loc
                                /\ Plan[k].src \in Sources /\ Plan[k].dst \in Targets
    BY <1>1, <1>2 DEF Sources, Targets
  <1>4. Landings \subseteq Loc
    BY <1>1, <1>2, LandAssumption DEF Landings, Sources, Loc
  <1> QED  BY <1>1, <1>3, <1>4 DEF Landings

\* The flags of a run are flags.
LEMMA FlagType ==
  ASSUME job \in Job
  PROVE  job.keepLanding \in BOOLEAN /\ job.continueOnError \in BOOLEAN
  BY JobAssumption

\* What a location holds at first is whole.
LEMMA StartType == \A l \in Loc : Start[l] \in {l, None} /\ Start[l] # Torn /\ l # Torn
  BY LocAssumption DEF Start, Before

\* The transfer in progress is one of the plan, and the only one to its destination.
LEMMA ItemFacts ==
  ASSUME TypeOK, CountInv, pc \in {"get", "put", "send", "putDone", "putFailed", "failed"}
  PROVE  /\ item \in 1 .. Len(Plan) /\ item \in Nat /\ Len(Plan) \in Nat
         /\ Src \in Loc /\ Dst \in Loc /\ LandingPath \in Loc /\ LandingPath \in Landings
         /\ Dst \in Targets /\ Dst = Plan[item].dst /\ Src = Plan[item].src
         /\ \A k \in 1 .. Len(Plan) : k # item => Plan[k].dst # Dst
         /\ Apart => /\ Src \notin Landings /\ Dst \notin Landings
                     /\ \A k \in 1 .. Len(Plan) : Plan[k].dst \notin Landings
         /\ Distinct => \A k \in 1 .. Len(Plan) : k # item => Land[Plan[k].src] # LandingPath
  <1>1. job \in Job /\ item \in 0 .. Len(Plan) /\ item >= 1 /\ Valid
    BY DEF TypeOK, CountInv, Working
  <1>2. item \in 1 .. Len(Plan) /\ item \in Nat /\ Len(Plan) \in Nat
    BY <1>1, PlanFacts
  <1>3. \A k \in 1 .. Len(Plan) : k # item => Plan[k].dst # Dst
    BY <1>1, <1>2, PlanFacts DEF Valid, Dst
  <1>4. /\ Src \in Loc /\ Dst \in Loc /\ LandingPath \in Landings /\ LandingPath \in Loc
        /\ Src \in Sources /\ Dst \in Targets
    BY <1>1, <1>2, PlanFacts DEF Src, Dst, LandingPath
  <1>5. Apart => /\ Src \notin Landings /\ Dst \notin Landings
                 /\ \A k \in 1 .. Len(Plan) : Plan[k].dst \notin Landings
    BY <1>1, <1>4, PlanFacts DEF Apart
  <1>6. Distinct => \A k \in 1 .. Len(Plan) : k # item => Land[Plan[k].src] # LandingPath
    BY <1>1, <1>2, PlanFacts DEF Distinct, LandingPath, Src
  <1> QED  BY <1>2, <1>3, <1>4, <1>5, <1>6 DEF Src, Dst

\* The plan and what follows from it do not change during a run.
LEMMA Static ==
  ASSUME job' = job
  PROVE  /\ Plan' = Plan /\ Targets' = Targets /\ Landings' = Landings
         /\ Start' = Start /\ Copies(job)' = Copies(job)
         /\ (Apart' <=> Apart) /\ (Distinct' <=> Distinct) /\ (Valid' <=> Valid)
         /\ item' = item => Src' = Src /\ Dst' = Dst /\ LandingPath' = LandingPath
  BY DEF Plan, Sources, Targets, Landings, Start, Apart, Distinct, Valid, Src, Dst, LandingPath

\* As long as nothing has failed the transfers behind the one in progress are those
\* transferred.
LEMMA MovedIs ==
  ASSUME TypeOK, CountInv, Working, errors = <<>>
  PROVE  /\ Moved \in 0 .. Len(Plan) /\ Moved \in Nat
         /\ pc \in {"get", "put", "send"} => Moved = item - 1
         /\ pc \in {"putDone", "next", "done"} => Moved = item
  <1>1. Len(errors) = 0 /\ item \in 0 .. Len(Plan) /\ transferred \in 0 .. Len(Plan) /\ Len(Plan) \in Nat
    BY PlanFacts DEF TypeOK
  <1>2. transferred = IF pc \in {"get", "put", "send", "putDone"} THEN item - 1 ELSE item
    BY <1>1 DEF CountInv, Working
  <1> QED  BY <1>1, <1>2 DEF Moved

\* worstBatchExitCode settles on a class.
LEMMA WorstType ==
  ASSUME NEW classes \in SUBSET Class
  PROVE  Worst(classes) \in Class
  <1>1. \E c \in classes \cup {"generic"} : \A d \in classes \cup {"generic"} : Rank[c] >= Rank[d]
    <2>1. CASE "auth" \in classes
      BY <2>1 DEF Class, Rank
    <2>2. CASE "auth" \notin classes /\ "corrupt" \in classes
      BY <2>2 DEF Class, Rank
    <2>3. CASE "auth" \notin classes /\ "corrupt" \notin classes /\ "disk" \in classes
      BY <2>3 DEF Class, Rank
    <2>4. CASE "auth" \notin classes /\ "corrupt" \notin classes /\ "disk" \notin classes
      BY <2>4 DEF Class, Rank
    <2> QED  BY <2>1, <2>2, <2>3, <2>4
  <1>2. Worst(classes) \in classes \cup {"generic"}
    BY <1>1 DEF Worst
  <1> QED  BY <1>2 DEF Class

\* exitCodeFor gives the code of a class, and never 0.
LEMMA ExitCodeType ==
  ASSUME NEW classes \in SUBSET Class, NEW wrapper \in Class
  PROVE  ExitCodeFor(classes, wrapper) \in {Code[c] : c \in Class}
  <1>1. CASE classes \cap {"disk", "corrupt", "auth", "input"} = {}
    BY <1>1 DEF ExitCodeFor
  <1>2. CASE classes \cap {"disk", "corrupt", "auth", "input"} # {}
    <2>1. /\ Priority[1] = "disk" /\ Priority[2] = "corrupt" /\ Priority[3] = "auth" /\ Priority[4] = "input"
      BY DEF Priority
    <2> DEFINE First(k) == Priority[k] \in classes /\ \A h \in 1 .. k - 1 : Priority[h] \notin classes
    <2>2. \E k \in 1 .. 4 : First(k)
      <3>1. CASE Priority[1] \in classes
        BY <3>1
      <3>2. CASE Priority[1] \notin classes /\ Priority[2] \in classes
        BY <3>2
      <3>3. CASE Priority[1] \notin classes /\ Priority[2] \notin classes /\ Priority[3] \in classes
        BY <3>3
      <3>4. CASE /\ Priority[1] \notin classes /\ Priority[2] \notin classes
                 /\ Priority[3] \notin classes /\ Priority[4] \in classes
        BY <3>4
      <3> QED  BY <1>2, <2>1, <3>1, <3>2, <3>3, <3>4
    <2>3. PICK k \in 1 .. 4 : k = CHOOSE i \in 1 .. 4 : First(i)
      BY <2>2
    <2>4. ExitCodeFor(classes, wrapper) = Code[Priority[k]]
      BY <1>2, <2>3 DEF ExitCodeFor
    <2>5. Priority[k] \in Class
      BY <2>1 DEF Class
    <2> QED  BY <2>4, <2>5
  <1> QED  BY <1>1, <1>2

\* The exit code of a batch is 0 exactly when nothing failed.
LEMMA BatchExitType ==
  ASSUME TypeOK
  PROVE  /\ BatchExit \in {0} \cup {Code[c] : c \in Class}
         /\ BatchExit = 0 <=> errors = <<>>
  <1>1. CASE errors = <<>>
    BY <1>1 DEF BatchExit
  <1>2. CASE errors # <<>>
    <2> DEFINE classes == {errors[k] : k \in DOMAIN errors}
    <2>1. errors \in Seq(Class) /\ job.continueOnError \in BOOLEAN
      BY FlagType DEF TypeOK
    <2>2. classes \in SUBSET Class
      BY <2>1
    <2>3. errors[1] \in Class /\ {errors[1]} \in SUBSET Class
      BY <1>2, <2>1, EmptySeq
    <2>4. BatchExit = IF job.continueOnError THEN ExitCodeFor(classes, Worst(classes))
                      ELSE ExitCodeFor({errors[1]}, errors[1])
      BY <1>2 DEF BatchExit
    <2> HIDE DEF classes
    <2>5. BatchExit \in {Code[c] : c \in Class}
      BY <2>2, <2>3, <2>4, WorstType, ExitCodeType
    <2>6. \A c \in Class : Code[c] # 0
      BY DEF Class, Code
    <2> QED  BY <1>2, <2>5, <2>6
  <1> QED  BY <1>1, <1>2

------------------------------------------------------------------------------
(* Each step keeps the invariant.                                            *)

\* Nothing has happened before the plan is validated.
LEMMA InitInv == Init => IInv
  <1> SUFFICES ASSUME Init PROVE IInv
    OBVIOUS
  <1>1. /\ pc = "validate" /\ job \in Job /\ cancelled = FALSE /\ item = 0 /\ file = Start
        /\ carried = None /\ transferred = 0 /\ errors = <<>> /\ skipped = 0 /\ exit = 0
    BY DEF Init, Start
  <1>2. ~Working
    BY <1>1 DEF Working
  <1>3. Start \in [Loc -> Loc \cup {None, Torn}]
    BY DEF Start, Before
  <1>4. 0 \in 0 .. Len(Plan) /\ DOMAIN Plan = 1 .. Len(Plan)
    BY <1>1, PlanFacts
  <1>5. TypeOK
    <2>1. item \in 0 .. Len(Plan) /\ transferred \in 0 .. Len(Plan) /\ skipped \in 0 .. Len(Plan)
      BY <1>1, <1>4
    <2>2. errors \in Seq(Class) /\ cancelled \in BOOLEAN
      BY <1>1, EmptySeq
    <2> QED  BY <1>1, <1>3, <2>1, <2>2 DEF TypeOK
  <1>6. CountInv
    BY <1>1, <1>2 DEF CountInv
  <1>7. PlannedInv
    <2>1. \A k \in DOMAIN Plan : ~(k < 0) /\ k # 0
      BY <1>1, <1>4, PlanFacts
    <2>2. Plan \in Seq([src : Loc, dst : Loc])
      BY <1>1, PlanFacts
    <2> QED  BY <1>1, <2>1, <2>2 DEF PlannedInv
  <1> QED  BY <1>2, <1>5, <1>6, <1>7 DEF IInv, CopiedInv, KeptInv, RemovedInv

\* A transfer that touches its landing file and its destination only, and leaves
\* the latter whole if it succeeds, changes nothing that is not planned.
LEMMA PlannedKept ==
  ASSUME TypeOK, CountInv, PlannedInv, job' = job, item' = item, pc' # "validate",
         pc \in {"get", "put", "send", "putDone", "putFailed", "failed"},
         \A l \in Loc : l # LandingPath /\ l # Dst => file'[l] = file[l],
         Apart /\ ~job.continueOnError /\ pc' \in {"putDone", "next"} => file'[Dst] \notin {None, Torn}
  PROVE  PlannedInv'
  <1> SUFFICES ASSUME Apart
               PROVE  /\ \A l \in Loc \ (Targets \cup Landings) : file'[l] = Start[l]
                      /\ \A k \in DOMAIN Plan : k > item => file'[Plan[k].dst] = Start[Plan[k].dst]
                      /\ ~job.continueOnError =>
                           \A k \in DOMAIN Plan : k < item \/ (k = item /\ pc' \in {"putDone", "next"}) =>
                             file'[Plan[k].dst] \notin {None, Torn}
    BY Static DEF PlannedInv
  <1>1. job \in Job /\ DOMAIN Plan = 1 .. Len(Plan) /\ Len(Plan) \in Nat /\ item \in 1 .. Len(Plan)
    BY PlanFacts, ItemFacts DEF TypeOK
  <1>2. \A k \in DOMAIN Plan : k # item => file'[Plan[k].dst] = file[Plan[k].dst]
    BY <1>1, ItemFacts, PlanFacts
  <1>3. \A l \in Loc \ (Targets \cup Landings) : file'[l] = Start[l]
    BY ItemFacts DEF PlannedInv
  <1>4. \A k \in DOMAIN Plan : k > item => file'[Plan[k].dst] = Start[Plan[k].dst]
    BY <1>1, <1>2 DEF PlannedInv
  <1>5. ASSUME ~job.continueOnError, NEW k \in DOMAIN Plan,
               k < item \/ (k = item /\ pc' \in {"putDone", "next"})
        PROVE  file'[Plan[k].dst] \notin {None, Torn}
    <2>1. CASE k < item
      BY <1>1, <1>2, <1>5, <2>1 DEF PlannedInv
    <2>2. CASE k = item /\ pc' \in {"putDone", "next"}
      BY <1>5, <2>2, ItemFacts
    <2> QED  BY <1>5, <2>1, <2>2
  <1> QED  BY <1>3, <1>4, <1>5

\* The validation changes no location.
LEMMA ValidateStep == ASSUME IInv, Validate PROVE IInv'
  <1>1. /\ pc = "validate" /\ job' = job /\ cancelled' = cancelled /\ item' = item /\ file' = file
        /\ carried' = carried /\ transferred' = transferred /\ errors' = errors /\ skipped' = skipped
        /\ \/ Valid /\ pc' = "next" /\ exit' = exit
           \/ pc' = "rejected" /\ exit' = Code["input"]
    BY DEF Validate
  <1>2. /\ TypeOK /\ item = 0 /\ transferred = 0 /\ errors = <<>> /\ file = Start
        /\ job \in Job /\ DOMAIN Plan = 1 .. Len(Plan) /\ Len(Plan) \in Nat
    BY <1>1, PlanFacts DEF IInv, CountInv, PlannedInv, TypeOK
  <1>3. Plan' = Plan /\ Copies(job)' = Copies(job) /\ Landings' = Landings /\ Start' = Start /\ (Valid' <=> Valid)
        /\ Targets' = Targets
    BY <1>1, Static
  <1>4. TypeOK'
    <2>1. Code["input"] \in {Code[c] : c \in Class}
      BY DEF Class
    <2> QED  BY <1>1, <1>2, <1>3, <2>1 DEF TypeOK, Terminal
  <1>5. CountInv'
    BY <1>1, <1>2, <1>3 DEF CountInv, Working
  <1>6. Working' => pc' = "next" /\ Moved' = 0
    BY <1>1, <1>2 DEF Working, Moved
  <1>7. CopiedInv'
    <2>1. Copies(job)[0] = Start
      BY <1>2, CopiesDef DEF Plan, Start
    <2>2. Landings \subseteq Loc
      BY <1>2, PlanFacts
    <2> QED  BY <1>1, <1>2, <1>3, <1>6, <2>1, <2>2, StartType DEF CopiedInv
  <1>8. PlannedInv'
    <2>1. \A k \in DOMAIN Plan : ~(k < item) /\ k # item
      BY <1>2
    <2> QED  BY <1>1, <1>2, <1>3, <2>1 DEF PlannedInv
  <1>9. KeptInv'
    BY <1>6 DEF KeptInv
  <1>10. RemovedInv'
    BY <1>1, <1>2, <1>3 DEF RemovedInv
  <1> QED  BY <1>4, <1>5, <1>7, <1>8, <1>9, <1>10 DEF IInv

\* The next transfer is begun: what was reached is still so.
LEMMA NextItemStep == ASSUME IInv, NextItem PROVE IInv'
  <1>1. /\ pc = "next" /\ item < Len(Plan) /\ item' = item + 1 /\ carried' = None /\ pc' = "get"
        /\ job' = job /\ cancelled' = cancelled /\ file' = file /\ transferred' = transferred
        /\ errors' = errors /\ skipped' = skipped /\ exit' = exit
    BY DEF NextItem, MoreItems
  <1>2. /\ TypeOK /\ CountInv /\ item \in 0 .. Len(Plan) /\ job \in Job
        /\ DOMAIN Plan = 1 .. Len(Plan) /\ Len(Plan) \in Nat /\ transferred \in Nat /\ Len(errors) \in Nat
    BY PlanFacts DEF IInv, TypeOK
  <1>3. /\ Plan' = Plan /\ Copies(job)' = Copies(job) /\ Landings' = Landings /\ Targets' = Targets
        /\ Start' = Start /\ (Apart' <=> Apart) /\ (Distinct' <=> Distinct) /\ (Valid' <=> Valid)
    BY <1>1, Static
  <1>4. Moved' = Moved /\ (Working' <=> Working)
    BY <1>1 DEF Moved, Working
  <1>5. TypeOK'
    BY <1>1, <1>2, <1>3 DEF TypeOK
  <1>6. CountInv'
    BY <1>1, <1>2, <1>3, <1>4 DEF CountInv
  <1>7. CopiedInv'
    BY <1>1, <1>3, <1>4 DEF IInv, CopiedInv
  <1>8. PlannedInv'
    <2>1. \A k \in DOMAIN Plan : (k > item + 1 => k > item) /\ (k < item + 1 => k < item \/ k = item)
      BY <1>2
    <2> QED  BY <1>1, <1>2, <1>3, <2>1 DEF IInv, PlannedInv
  <1>9. KeptInv'
    BY <1>1, <1>3, <1>4 DEF IInv, KeptInv
  <1>10. RemovedInv'
    BY <1>1, <1>3, <1>4 DEF IInv, RemovedInv
  <1> QED  BY <1>5, <1>6, <1>7, <1>8, <1>9, <1>10 DEF IInv

\* The landing file becomes a copy of the source.
LEMMA GetStep == ASSUME IInv, Get PROVE IInv'
  <1>1. /\ pc = "get" /\ file[Src] # None /\ file' = [file EXCEPT ![LandingPath] = file[Src]]
        /\ carried' = file[Src] /\ pc' = "put"
        /\ job' = job /\ cancelled' = cancelled /\ item' = item /\ transferred' = transferred
        /\ errors' = errors /\ skipped' = skipped /\ exit' = exit
    BY DEF Get
  <1>2. /\ TypeOK /\ CountInv /\ Working /\ item \in 1 .. Len(Plan) /\ job \in Job /\ Len(Plan) \in Nat
        /\ file \in [Loc -> Loc \cup {None, Torn}] /\ DOMAIN Plan = 1 .. Len(Plan)
        /\ Src \in Loc /\ Dst \in Loc /\ LandingPath \in Loc /\ LandingPath \in Landings
    BY <1>1, ItemFacts, PlanFacts DEF IInv, TypeOK, Working
  <1>3. /\ Plan' = Plan /\ Copies(job)' = Copies(job) /\ Landings' = Landings /\ Targets' = Targets
        /\ Start' = Start /\ (Apart' <=> Apart) /\ (Distinct' <=> Distinct) /\ (Valid' <=> Valid)
        /\ Src' = Src /\ Dst' = Dst /\ LandingPath' = LandingPath
    BY <1>1, Static
  <1>4. Moved' = Moved /\ Working'
    BY <1>1 DEF Moved, Working
  <1>5. /\ \A l \in Loc : l # LandingPath => file'[l] = file[l]
        /\ file'[LandingPath] = file[Src]
    BY <1>1, <1>2
  <1>6. TypeOK'
    BY <1>1, <1>2, <1>3 DEF TypeOK
  <1>7. CountInv'
    BY <1>1, <1>2, <1>3, <1>4 DEF CountInv
  <1>8. CopiedInv'
    <2> SUFFICES ASSUME Apart, errors = <<>>
                 PROVE  /\ \A l \in Loc \ Landings : file'[l] = Copies(job)[Moved][l] /\ file'[l] # Torn
                        /\ file'[LandingPath] = Copies(job)[Moved][Src]
                        /\ file'[LandingPath] \notin {None, Torn}
                        /\ \A k \in 1 .. Moved : file'[Plan[k].dst] = Copies(job)[k - 1][Plan[k].src]
      BY <1>1, <1>3, <1>4 DEF CopiedInv
    <2>1. /\ \A l \in Loc \ Landings : file[l] = Copies(job)[Moved][l] /\ file[l] # Torn
          /\ \A k \in 1 .. Moved : file[Plan[k].dst] = Copies(job)[k - 1][Plan[k].src]
      BY <1>1, <1>2 DEF IInv, CopiedInv
    <2>2. Src \notin Landings
      BY <1>1, <1>2, ItemFacts
    <2>3. \A k \in 1 .. Moved : k \in 1 .. Len(Plan) /\ Plan[k].dst \in Loc /\ Plan[k].dst # LandingPath
      BY <1>1, <1>2, ItemFacts, PlanFacts, MovedIs
    <2> QED  BY <1>1, <1>2, <1>5, <2>1, <2>2, <2>3
  <1>9. PlannedInv'
    BY <1>1, <1>2, <1>5, PlannedKept DEF IInv
  <1>10. KeptInv'
    <2> SUFFICES ASSUME job.keepLanding, Apart, Distinct, errors = <<>>
                 PROVE  \A k \in 1 .. Moved : file'[Land[Plan[k].src]] = file'[Plan[k].dst]
      BY <1>1, <1>3, <1>4 DEF KeptInv
    <2>1. \A k \in 1 .. Moved : file[Land[Plan[k].src]] = file[Plan[k].dst]
      BY <1>2 DEF IInv, KeptInv
    <2>2. \A k \in 1 .. Moved : k \in 1 .. Len(Plan) /\ k # item
      BY <1>1, <1>2, MovedIs
    <2>3. \A k \in 1 .. Moved : /\ Plan[k].dst \in Loc /\ Plan[k].dst # LandingPath
                                /\ Land[Plan[k].src] \in Loc /\ Land[Plan[k].src] # LandingPath
      BY <1>1, <1>2, <2>2, ItemFacts, PlanFacts
    <2> QED  BY <1>5, <2>1, <2>3
  <1>11. RemovedInv'
    <2>1. Landings \subseteq Loc
      BY <1>2, PlanFacts
    <2> QED  BY <1>1, <1>2, <1>3, <1>4, <1>5, <2>1 DEF IInv, RemovedInv
  <1> QED  BY <1>6, <1>7, <1>8, <1>9, <1>10, <1>11 DEF IInv

\* After a failure the copies are no longer those of a success.
LEMMA AfterFailure ==
  ASSUME errors' # <<>>
  PROVE  CopiedInv' /\ KeptInv'
  BY DEF CopiedInv, KeptInv

\* A failure more.
LEMMA OneMore ==
  ASSUME TypeOK, NEW c \in Class, errors' = Append(errors, c)
  PROVE  errors' \in Seq(Class) /\ errors' # <<>> /\ Len(errors') = Len(errors) + 1 /\ Len(errors) \in Nat
  BY AppendProperties DEF TypeOK

\* The download fails: the landing path keeps its old file, or has none.
LEMMA GetFailsStep == ASSUME IInv, GetFails PROVE IInv'
  <1>1. /\ pc = "get" /\ pc' = "failed"
        /\ job' = job /\ cancelled' = cancelled /\ item' = item /\ carried' = carried
        /\ transferred' = transferred /\ skipped' = skipped /\ exit' = exit
    BY DEF GetFails
  <1>2. /\ TypeOK /\ CountInv /\ Working /\ item \in 1 .. Len(Plan) /\ job \in Job /\ Len(Plan) \in Nat
        /\ file \in [Loc -> Loc \cup {None, Torn}] /\ transferred \in Nat
        /\ LandingPath \in Loc /\ Landings \subseteq Loc
    BY <1>1, ItemFacts, PlanFacts DEF IInv, TypeOK, Working
  <1>3. /\ Plan' = Plan /\ Landings' = Landings /\ Targets' = Targets
        /\ Start' = Start /\ (Valid' <=> Valid) /\ LandingPath' = LandingPath
    BY <1>1, Static
  <1>4. file' = file \/ file' = [file EXCEPT ![LandingPath] = None]
    BY DEF GetFails
  <1>5. /\ file' \in [Loc -> Loc \cup {None, Torn}]
        /\ \A l \in Loc : file'[l] = file[l] \/ (l = LandingPath /\ file'[l] = None)
    BY <1>2, <1>4
  <1>6. PICK c \in Class : errors' = Append(errors, c)
    BY DEF GetFails
  <1>7. /\ errors' \in Seq(Class) /\ errors' # <<>> /\ Len(errors') = Len(errors) + 1 /\ Len(errors) \in Nat
    BY <1>2, <1>6, OneMore
  <1>8. TypeOK'
    BY <1>1, <1>2, <1>3, <1>5, <1>7 DEF TypeOK
  <1>9. CountInv'
    BY <1>1, <1>2, <1>3, <1>7 DEF CountInv, Working
  <1>10. PlannedInv'
    BY <1>1, <1>2, <1>5, PlannedKept DEF IInv
  <1>11. RemovedInv'
    BY <1>1, <1>2, <1>3, <1>5 DEF IInv, RemovedInv, Working
  <1> QED  BY <1>7, <1>8, <1>9, <1>10, <1>11, AfterFailure DEF IInv

\* The upload begins: a local destination is emptied, and nothing else.
LEMMA PutStep == ASSUME IInv, Put PROVE IInv'
  <1>1. /\ pc = "put" /\ pc' = "send"
        /\ job' = job /\ cancelled' = cancelled /\ item' = item /\ carried' = carried
        /\ transferred' = transferred /\ errors' = errors /\ skipped' = skipped /\ exit' = exit
    BY DEF Put
  <1>2. /\ TypeOK /\ CountInv /\ Working /\ item \in 1 .. Len(Plan) /\ job \in Job /\ Len(Plan) \in Nat
        /\ file \in [Loc -> Loc \cup {None, Torn}] /\ DOMAIN Plan = 1 .. Len(Plan)
        /\ Dst \in Loc /\ LandingPath \in Loc /\ LandingPath \in Landings /\ Landings \subseteq Loc /\ Dst \in Targets
    BY <1>1, ItemFacts, PlanFacts DEF IInv, TypeOK, Working
  <1>3. /\ Plan' = Plan /\ Copies(job)' = Copies(job) /\ Landings' = Landings /\ Targets' = Targets
        /\ Start' = Start /\ (Apart' <=> Apart) /\ (Distinct' <=> Distinct) /\ (Valid' <=> Valid)
        /\ Src' = Src /\ Dst' = Dst /\ LandingPath' = LandingPath
    BY <1>1, Static
  <1>4. Moved' = Moved /\ Working'
    BY <1>1 DEF Moved, Working
  <1>5. /\ file' \in [Loc -> Loc \cup {None, Torn}]
        /\ \A l \in Loc : l # Dst => file'[l] = file[l]
    BY <1>2 DEF Put
  <1>6. TypeOK'
    BY <1>1, <1>2, <1>3, <1>5 DEF TypeOK
  <1>7. CountInv'
    BY <1>1, <1>2, <1>3, <1>4 DEF CountInv
  <1>8. CopiedInv'
    <2> SUFFICES ASSUME Apart, errors = <<>>
                 PROVE  /\ \A l \in Loc \ Landings :
                             l = Dst \/ (file'[l] = Copies(job)[Moved][l] /\ file'[l] # Torn)
                        /\ file'[LandingPath] = Copies(job)[Moved][Src]
                        /\ file'[LandingPath] \notin {None, Torn}
                        /\ \A k \in 1 .. Moved : file'[Plan[k].dst] = Copies(job)[k - 1][Plan[k].src]
      BY <1>1, <1>3, <1>4 DEF CopiedInv
    <2>1. /\ \A l \in Loc \ Landings : file[l] = Copies(job)[Moved][l] /\ file[l] # Torn
          /\ file[LandingPath] = Copies(job)[Moved][Src]
          /\ file[LandingPath] \notin {None, Torn}
          /\ \A k \in 1 .. Moved : file[Plan[k].dst] = Copies(job)[k - 1][Plan[k].src]
      BY <1>1, <1>2 DEF IInv, CopiedInv
    <2>2. LandingPath # Dst
      BY <1>1, <1>2, ItemFacts
    <2>3. \A k \in 1 .. Moved : k \in 1 .. Len(Plan) /\ k # item
      BY <1>1, <1>2, MovedIs
    <2>4. \A k \in 1 .. Moved : Plan[k].dst \in Loc /\ Plan[k].dst # Dst
      BY <1>1, <1>2, <2>3, ItemFacts, PlanFacts
    <2> QED  BY <1>2, <1>5, <2>1, <2>2, <2>4
  <1>9. PlannedInv'
    BY <1>1, <1>2, <1>5, PlannedKept DEF IInv
  <1>10. KeptInv'
    <2> SUFFICES ASSUME job.keepLanding, Apart, Distinct, errors = <<>>
                 PROVE  \A k \in 1 .. Moved : file'[Land[Plan[k].src]] = file'[Plan[k].dst]
      BY <1>1, <1>3, <1>4 DEF KeptInv
    <2>1. \A k \in 1 .. Moved : file[Land[Plan[k].src]] = file[Plan[k].dst]
      BY <1>2 DEF IInv, KeptInv
    <2>2. \A k \in 1 .. Moved : k \in 1 .. Len(Plan) /\ k # item
      BY <1>1, <1>2, MovedIs
    <2>3. \A k \in 1 .. Moved : /\ Plan[k].dst \in Loc /\ Plan[k].dst # Dst
                                /\ Land[Plan[k].src] \in Loc /\ Land[Plan[k].src] # Dst
      BY <1>1, <1>2, <2>2, ItemFacts, PlanFacts
    <2> QED  BY <1>5, <2>1, <2>3
  <1>11. RemovedInv'
    BY <1>1, <1>2, <1>3, <1>4, <1>5 DEF IInv, RemovedInv
  <1> QED  BY <1>6, <1>7, <1>8, <1>9, <1>10, <1>11 DEF IInv

\* The destination becomes what the source was: one transfer more is done.
LEMMA SendStep == ASSUME IInv, Send PROVE IInv'
  <1>1. /\ pc = "send" /\ pc' = "putDone" /\ file' = [file EXCEPT ![Dst] = file[LandingPath]]
        /\ job' = job /\ cancelled' = cancelled /\ item' = item /\ carried' = carried
        /\ transferred' = transferred /\ errors' = errors /\ skipped' = skipped /\ exit' = exit
    BY DEF Send
  <1>2. /\ TypeOK /\ CountInv /\ Working /\ item \in 1 .. Len(Plan) /\ job \in Job /\ Len(Plan) \in Nat
        /\ file \in [Loc -> Loc \cup {None, Torn}] /\ DOMAIN Plan = 1 .. Len(Plan)
        /\ Src \in Loc /\ Dst \in Loc /\ LandingPath \in Loc /\ LandingPath \in Landings
        /\ Landings \subseteq Loc /\ Dst \in Targets
    BY <1>1, ItemFacts, PlanFacts DEF IInv, TypeOK, Working
  <1>3. /\ Plan' = Plan /\ Copies(job)' = Copies(job) /\ Landings' = Landings /\ Targets' = Targets
        /\ Start' = Start /\ (Apart' <=> Apart) /\ (Distinct' <=> Distinct) /\ (Valid' <=> Valid)
        /\ Src' = Src /\ Dst' = Dst /\ LandingPath' = LandingPath
    BY <1>1, Static
  <1>4. Moved' = item /\ Working'
    BY <1>1 DEF Moved, Working
  <1>5. /\ file' \in [Loc -> Loc \cup {None, Torn}]
        /\ \A l \in Loc : l # Dst => file'[l] = file[l]
        /\ file'[Dst] = file[LandingPath]
    BY <1>1, <1>2
  <1>6. TypeOK'
    BY <1>1, <1>2, <1>3, <1>5 DEF TypeOK
  <1>7. CountInv'
    BY <1>1, <1>2, <1>3, <1>4 DEF CountInv
  <1>8. ASSUME Apart, errors = <<>>
        PROVE  /\ Moved = item - 1 /\ LandingPath # Dst
               /\ \A l \in Loc \ Landings : l = Dst \/ (file[l] = Copies(job)[Moved][l] /\ file[l] # Torn)
               /\ file[LandingPath] = Copies(job)[Moved][Src]
               /\ file[LandingPath] \notin {None, Torn}
               /\ \A k \in 1 .. Moved : /\ file[Plan[k].dst] = Copies(job)[k - 1][Plan[k].src]
                                        /\ k \in 1 .. Len(Plan) /\ k # item
                                        /\ Plan[k].dst \in Loc /\ Plan[k].dst # Dst
    <2>1. Moved = item - 1 /\ LandingPath # Dst
      BY <1>1, <1>2, <1>8, ItemFacts, MovedIs
    <2>2. \A k \in 1 .. Moved : k \in 1 .. Len(Plan) /\ k # item
      BY <1>2, <2>1
    <2>3. \A k \in 1 .. Moved : Plan[k].dst \in Loc /\ Plan[k].dst # Dst
      BY <1>1, <1>2, <2>2, ItemFacts, PlanFacts
    <2> QED  BY <1>1, <1>2, <1>8, <2>1, <2>2, <2>3 DEF IInv, CopiedInv
  <1>9. CopiedInv'
    <2> SUFFICES ASSUME Apart, errors = <<>>
                 PROVE  /\ \A l \in Loc \ Landings : file'[l] = Copies(job)[item][l] /\ file'[l] # Torn
                        /\ \A k \in 1 .. item : file'[Plan[k].dst] = Copies(job)[k - 1][Plan[k].src]
      BY <1>1, <1>3, <1>4 DEF CopiedInv
    <2>1. PICK was, is : was = Copies(job)[item - 1] /\ is = Copies(job)[item]
      OBVIOUS
    <2>2. is = Copied(job, item, was)
      BY <1>2, <2>1, CopiesDef DEF Plan
    <2>3. DOMAIN was = Loc
      <3>1. item - 1 \in 0 .. Len(Plan)
        BY <1>2
      <3> QED  BY <1>2, <2>1, <3>1, CopiesDomain DEF Plan
    <2>4. is = [was EXCEPT ![Dst] = was[Src]]
      BY <2>2 DEF Copied, Dst, Src, Plan
    <2>5. is[Dst] = was[Src] /\ \A l \in Loc : l # Dst => is[l] = was[l]
      BY <1>2, <2>3, <2>4
    <2>6. \A l \in Loc \ Landings : file'[l] = is[l] /\ file'[l] # Torn
      <3>1. file'[Dst] = is[Dst] /\ file'[Dst] # Torn
        BY <1>5, <1>8, <2>1, <2>5
      <3>2. \A l \in Loc \ Landings : l # Dst => file'[l] = is[l] /\ file'[l] # Torn
        BY <1>5, <1>8, <2>1, <2>5
      <3> QED  BY <3>1, <3>2
    <2>7. \A k \in 1 .. Moved : file'[Plan[k].dst] = Copies(job)[k - 1][Plan[k].src]
      BY <1>5, <1>8
    <2>8. file'[Plan[item].dst] = Copies(job)[item - 1][Plan[item].src]
      BY <1>5, <1>8 DEF Dst, Src
    <2>9. \A k \in 1 .. item : k = item \/ k \in 1 .. Moved
      BY <1>2, <1>8
    <2> QED  BY <2>1, <2>6, <2>7, <2>8, <2>9
  <1>10. PlannedInv'
    <2>1. Apart /\ ~job.continueOnError => file'[Dst] \notin {None, Torn}
      <3>1. ~job.continueOnError => errors = <<>>
        BY <1>1, <1>2 DEF CountInv
      <3> QED  BY <1>5, <1>8, <3>1
    <2> QED  BY <1>1, <1>2, <1>5, <2>1, PlannedKept DEF IInv
  <1>11. KeptInv'
    <2> SUFFICES ASSUME job.keepLanding, Apart, Distinct, errors = <<>>
                 PROVE  \A k \in 1 .. item : file'[Land[Plan[k].src]] = file'[Plan[k].dst]
      BY <1>1, <1>3, <1>4 DEF KeptInv
    <2>1. \A k \in 1 .. Moved : file[Land[Plan[k].src]] = file[Plan[k].dst]
      BY <1>2 DEF IInv, KeptInv
    <2>2. \A k \in 1 .. Moved : Land[Plan[k].src] \in Landings
      BY <1>2, <1>8, PlanFacts
    <2>3. Dst \notin Landings
      BY <1>1, <1>2, ItemFacts
    <2>4. \A k \in 1 .. Moved : file'[Land[Plan[k].src]] = file'[Plan[k].dst]
      BY <1>2, <1>5, <1>8, <2>1, <2>2, <2>3
    <2>5. file'[Land[Plan[item].src]] = file'[Plan[item].dst]
      BY <1>2, <1>5, <1>8 DEF Dst, Src, LandingPath
    <2>6. \A k \in 1 .. item : k = item \/ k \in 1 .. Moved
      BY <1>2, <1>8
    <2> QED  BY <2>4, <2>5, <2>6
  <1>12. RemovedInv'
    BY <1>1, <1>2, <1>3, <1>4, <1>5 DEF IInv, RemovedInv
  <1> QED  BY <1>6, <1>7, <1>9, <1>10, <1>11, <1>12 DEF IInv

\* The upload fails: only its own destination may have changed.
LEMMA PutFailsStep == ASSUME IInv, PutFails PROVE IInv'
  <1>1. /\ pc \in {"put", "send"} /\ pc' = "putFailed"
        /\ job' = job /\ cancelled' = cancelled /\ item' = item /\ carried' = carried
        /\ transferred' = transferred /\ skipped' = skipped /\ exit' = exit
    BY DEF PutFails
  <1>2. /\ TypeOK /\ CountInv /\ Working /\ item \in 1 .. Len(Plan) /\ job \in Job /\ Len(Plan) \in Nat
        /\ file \in [Loc -> Loc \cup {None, Torn}] /\ transferred \in Nat
        /\ Dst \in Loc /\ LandingPath \in Loc /\ Landings \subseteq Loc /\ Dst \in Targets
    BY <1>1, ItemFacts, PlanFacts DEF IInv, TypeOK, Working
  <1>3. /\ Plan' = Plan /\ Landings' = Landings /\ Targets' = Targets
        /\ Start' = Start /\ (Valid' <=> Valid) /\ LandingPath' = LandingPath
    BY <1>1, Static
  <1>4. file' = file \/ \E f \in {file[LandingPath], Torn} : file' = [file EXCEPT ![Dst] = f]
    BY DEF PutFails
  <1>5. /\ file' \in [Loc -> Loc \cup {None, Torn}]
        /\ \A l \in Loc : l # Dst => file'[l] = file[l]
    BY <1>2, <1>4
  <1>6. PICK c \in Class : errors' = Append(errors, c)
    BY DEF PutFails
  <1>7. /\ errors' \in Seq(Class) /\ errors' # <<>> /\ Len(errors') = Len(errors) + 1 /\ Len(errors) \in Nat
    BY <1>2, <1>6, OneMore
  <1>8. TypeOK'
    BY <1>1, <1>2, <1>3, <1>5, <1>7 DEF TypeOK
  <1>9. CountInv'
    BY <1>1, <1>2, <1>3, <1>7 DEF CountInv, Working
  <1>10. PlannedInv'
    BY <1>1, <1>2, <1>5, PlannedKept DEF IInv
  <1>11. RemovedInv'
    BY <1>1, <1>2, <1>3, <1>5 DEF IInv, RemovedInv, Working
  <1> QED  BY <1>7, <1>8, <1>9, <1>10, <1>11, AfterFailure DEF IInv

\* The transfer returns, and its landing file goes unless it is to be kept.
LEMMA CopyReturnsStep == ASSUME IInv, CopyReturns PROVE IInv'
  <1>1. /\ pc \in {"putDone", "putFailed"} /\ pc' = IF pc = "putDone" THEN "next" ELSE "failed"
        /\ transferred' = IF pc = "putDone" THEN transferred + 1 ELSE transferred
        /\ job' = job /\ cancelled' = cancelled /\ item' = item /\ carried' = carried
        /\ errors' = errors /\ skipped' = skipped /\ exit' = exit
        /\ file' = IF job.keepLanding THEN file ELSE [file EXCEPT ![LandingPath] = None]
    BY DEF CopyReturns, AfterPut
  <1>2. /\ TypeOK /\ CountInv /\ Working /\ item \in 1 .. Len(Plan) /\ job \in Job /\ Len(Plan) \in Nat
        /\ file \in [Loc -> Loc \cup {None, Torn}] /\ transferred \in Nat /\ Len(errors) \in Nat
        /\ Dst \in Loc /\ LandingPath \in Loc /\ Landings \subseteq Loc /\ LandingPath \in Landings
    BY <1>1, ItemFacts, PlanFacts DEF IInv, TypeOK, Working
  <1>3. /\ Plan' = Plan /\ Copies(job)' = Copies(job) /\ Landings' = Landings /\ Targets' = Targets
        /\ Start' = Start /\ (Apart' <=> Apart) /\ (Distinct' <=> Distinct) /\ (Valid' <=> Valid)
        /\ LandingPath' = LandingPath
    BY <1>1, Static
  <1>4. Working' /\ transferred' + Len(errors) = item /\ transferred' \in 0 .. Len(Plan)
    BY <1>1, <1>2 DEF Working, CountInv
  <1>5. /\ file' \in [Loc -> Loc \cup {None, Torn}]
        /\ \A l \in Loc : l # LandingPath => file'[l] = file[l]
        /\ job.keepLanding => file' = file
        /\ ~job.keepLanding => file'[LandingPath] = None
    BY <1>1, <1>2
  <1>6. errors = <<>> => pc = "putDone" /\ pc' = "next" /\ Moved = item /\ Moved' = Moved
    <2> SUFFICES ASSUME errors = <<>> PROVE pc = "putDone" /\ pc' = "next" /\ Moved = item /\ Moved' = Moved
      OBVIOUS
    <2>1. pc = "putDone" /\ pc' = "next" /\ Len(errors) = 0
      BY <1>1, <1>2 DEF CountInv
    <2> QED  BY <1>1, <1>2, <1>4, <2>1 DEF Moved
  <1>7. TypeOK'
    BY <1>1, <1>2, <1>3, <1>4, <1>5 DEF TypeOK
  <1>8. CountInv'
    BY <1>1, <1>2, <1>3, <1>4 DEF CountInv
  <1>9. CopiedInv'
    <2> SUFFICES ASSUME Apart, errors = <<>>
                 PROVE  /\ \A l \in Loc \ Landings : file'[l] = Copies(job)[Moved][l] /\ file'[l] # Torn
                        /\ \A k \in 1 .. Moved : file'[Plan[k].dst] = Copies(job)[k - 1][Plan[k].src]
      BY <1>1, <1>3, <1>4, <1>6 DEF CopiedInv
    <2>1. /\ \A l \in Loc \ Landings : file[l] = Copies(job)[Moved][l] /\ file[l] # Torn
          /\ \A k \in 1 .. Moved : file[Plan[k].dst] = Copies(job)[k - 1][Plan[k].src]
      BY <1>2, <1>6 DEF IInv, CopiedInv
    <2>2. \A k \in 1 .. Moved : k \in 1 .. Len(Plan)
      BY <1>2, <1>6
    <2>3. \A k \in 1 .. Moved : Plan[k].dst \in Loc /\ Plan[k].dst # LandingPath
      BY <1>1, <1>2, <2>2, ItemFacts, PlanFacts
    <2> QED  BY <1>2, <1>5, <2>1, <2>3
  <1>10. PlannedInv'
    <2>1. Apart /\ ~job.continueOnError /\ pc' = "next" => file'[Dst] \notin {None, Torn}
      <3> SUFFICES ASSUME Apart, ~job.continueOnError, pc = "putDone" PROVE file'[Dst] \notin {None, Torn}
        BY <1>1
      <3>1. Dst = Plan[item].dst /\ item \in DOMAIN Plan
        BY <1>2, PlanFacts DEF Dst
      <3>2. file[Dst] \notin {None, Torn}
        BY <3>1 DEF IInv, PlannedInv
      <3>3. Dst # LandingPath
        BY <1>1, <1>2, ItemFacts
      <3> QED  BY <1>2, <1>5, <3>2, <3>3
    <2>2. pc' # "validate" /\ pc' # "putDone"
      BY <1>1
    <2> QED  BY <1>1, <1>2, <1>5, <2>1, <2>2, PlannedKept DEF IInv
  <1>11. KeptInv'
    <2> SUFFICES ASSUME job.keepLanding, Apart, Distinct, errors = <<>>
                 PROVE  \A k \in 1 .. Moved : file[Land[Plan[k].src]] = file[Plan[k].dst]
      BY <1>1, <1>3, <1>4, <1>5, <1>6 DEF KeptInv
    <2> QED  BY <1>2 DEF IInv, KeptInv
  <1>12. RemovedInv'
    BY <1>1, <1>2, <1>3, <1>5 DEF IInv, RemovedInv
  <1> QED  BY <1>7, <1>8, <1>9, <1>10, <1>11, <1>12 DEF IInv

\* A failed transfer is followed by the next one only if that was asked for.
LEMMA FailedStep == ASSUME IInv, Failed PROVE IInv'
  <1>1. /\ pc = "failed" /\ pc' = IF job.continueOnError THEN "next" ELSE "summary"
        /\ job' = job /\ cancelled' = cancelled /\ item' = item /\ carried' = carried /\ file' = file
        /\ transferred' = transferred /\ errors' = errors /\ skipped' = skipped /\ exit' = exit
    BY DEF Failed
  <1>2. /\ TypeOK /\ CountInv /\ Working /\ item \in 1 .. Len(Plan) /\ job \in Job /\ Len(Plan) \in Nat
        /\ transferred \in Nat /\ Len(errors) \in Nat /\ errors # <<>>
    BY <1>1, ItemFacts DEF IInv, TypeOK, Working, CountInv
  <1>3. /\ Plan' = Plan /\ Landings' = Landings /\ Targets' = Targets /\ Start' = Start /\ (Valid' <=> Valid)
    BY <1>1, Static
  <1>4. TypeOK'
    BY <1>1, <1>2, <1>3 DEF TypeOK
  <1>5. CountInv'
    BY <1>1, <1>2, <1>3 DEF CountInv, Working
  <1>6. PlannedInv'
    BY <1>1, <1>2, PlannedKept DEF IInv
  <1>7. RemovedInv'
    BY <1>1, <1>3 DEF IInv, RemovedInv, Working
  <1> QED  BY <1>1, <1>2, <1>4, <1>5, <1>6, <1>7, AfterFailure DEF IInv

\* The batch is over: its counters add up and its code says whether it failed.
LEMMA SummaryStep == ASSUME IInv, Summary PROVE IInv'
  <1>1. /\ (pc = "next" /\ item = Len(Plan)) \/ pc = "summary"
        /\ pc' = "done" /\ skipped' = Skipped /\ exit' = BatchExit
        /\ job' = job /\ cancelled' = cancelled /\ item' = item /\ carried' = carried /\ file' = file
        /\ transferred' = transferred /\ errors' = errors
    BY DEF Summary
  <1>2. /\ TypeOK /\ CountInv /\ Working /\ item \in 0 .. Len(Plan) /\ job \in Job /\ Len(Plan) \in Nat
        /\ transferred \in Nat /\ Len(errors) \in Nat
    <2>1. TypeOK /\ CountInv /\ Working
      BY <1>1 DEF IInv, Working
    <2> QED  BY <2>1, PlanFacts DEF TypeOK
  <1>3. /\ Plan' = Plan /\ Copies(job)' = Copies(job) /\ Landings' = Landings /\ Targets' = Targets
        /\ Start' = Start /\ (Apart' <=> Apart) /\ (Distinct' <=> Distinct) /\ (Valid' <=> Valid)
    BY <1>1, Static
  <1>4. Moved' = Moved /\ Working'
    BY <1>1 DEF Moved, Working
  <1>5. BatchExit' = BatchExit
    BY <1>1 DEF BatchExit
  <1>6. TypeOK'
    <2>1. Skipped \in 0 .. Len(Plan)
      BY <1>1, <1>2 DEF Skipped, CountInv
    <2>2. BatchExit \in {0} \cup {Code[c] : c \in Class}
      BY <1>2, BatchExitType
    <2> QED  BY <1>1, <1>2, <1>3, <2>1, <2>2 DEF TypeOK, Terminal
  <1>7. CountInv'
    BY <1>1, <1>2, <1>3, <1>4, <1>5 DEF CountInv
  <1>8. CopiedInv'
    BY <1>1, <1>2, <1>3, <1>4 DEF IInv, CopiedInv
  <1>9. PlannedInv'
    BY <1>1, <1>3 DEF IInv, PlannedInv
  <1>10. KeptInv'
    BY <1>1, <1>2, <1>3, <1>4 DEF IInv, KeptInv
  <1>11. RemovedInv'
    BY <1>1, <1>2, <1>3, <1>4 DEF IInv, RemovedInv
  <1> QED  BY <1>6, <1>7, <1>8, <1>9, <1>10, <1>11 DEF IInv

\* A signal, a kill, and the end change no location.
LEMMA OtherSteps == ASSUME IInv, Cancel \/ Crash \/ UNCHANGED vars PROVE IInv'
  <1>1. /\ job' = job /\ item' = item /\ carried' = carried /\ file' = file
        /\ transferred' = transferred /\ errors' = errors /\ skipped' = skipped /\ exit' = exit
    BY DEF Cancel, Crash, vars
  <1>2. TypeOK /\ cancelled' \in BOOLEAN /\ (pc' = pc \/ pc' = "crashed")
    BY DEF Cancel, Crash, vars, IInv, TypeOK
  <1>3. /\ Plan' = Plan /\ Copies(job)' = Copies(job) /\ Landings' = Landings /\ Targets' = Targets
        /\ Start' = Start /\ (Apart' <=> Apart) /\ (Distinct' <=> Distinct) /\ (Valid' <=> Valid)
        /\ Src' = Src /\ Dst' = Dst /\ LandingPath' = LandingPath
    BY <1>1, Static
  <1>4. BatchExit' = BatchExit
    BY <1>1 DEF BatchExit
  <1>5. TypeOK'
    BY <1>1, <1>2, <1>3 DEF TypeOK, Terminal
  <1>6. CASE pc' = pc
    <2>1. Moved' = Moved /\ (Working' <=> Working)
      BY <1>1, <1>6 DEF Moved, Working
    <2>2. CountInv'
      BY <1>1, <1>3, <1>4, <1>6, <2>1 DEF IInv, CountInv
    <2>3. CopiedInv'
      BY <1>1, <1>3, <1>6, <2>1 DEF IInv, CopiedInv
    <2>4. PlannedInv'
      BY <1>1, <1>3, <1>6 DEF IInv, PlannedInv
    <2>5. KeptInv'
      BY <1>1, <1>3, <1>6, <2>1 DEF IInv, KeptInv
    <2>6. RemovedInv'
      BY <1>1, <1>3, <1>6, <2>1 DEF IInv, RemovedInv
    <2> QED  BY <1>5, <2>2, <2>3, <2>4, <2>5, <2>6 DEF IInv
  <1>7. CASE pc' = "crashed"
    <2>1. ~Working'
      BY <1>7 DEF Working
    <2>2. CountInv'
      BY <1>7, <2>1 DEF CountInv
    <2>3. PlannedInv'
      BY <1>1, <1>3, <1>7 DEF IInv, PlannedInv
    <2> QED  BY <1>5, <2>1, <2>2, <2>3 DEF IInv, CopiedInv, KeptInv, RemovedInv
  <1> QED  BY <1>2, <1>6, <1>7

\* Every step does.
LEMMA NextInv == IInv /\ [Next]_vars => IInv'
  BY ValidateStep, NextItemStep, GetStep, GetFailsStep, PutStep, SendStep, PutFailsStep,
     CopyReturnsStep, FailedStep, SummaryStep, OtherSteps DEF Next, Process, Ended

\* The invariant holds in every state of every run.
LEMMA Invariance == Spec => []IInv
  BY InitInv, NextInv, PTL DEF Spec

------------------------------------------------------------------------------
(* Theorems.                                                                 *)

\* The variables of a batch have their types; the counters stay within the plan.
THEOREM TypeCorrect == Spec => []TypeOK
  <1>1. IInv => TypeOK
    BY DEF IInv
  <1> QED  BY <1>1, Invariance, PTL

\* After a success the locations are those of plain copies done one after the other.
LEMMA SuccessCopies == IInv => BatchCopies
  <1> SUFFICES ASSUME IInv, pc = "done", exit = 0, Apart
               PROVE  /\ \A l \in Loc \ Landings : file[l] = Copies(job)[Len(Plan)][l]
                      /\ \A k \in DOMAIN Plan : file[Plan[k].dst] = Copies(job)[k - 1][Plan[k].src]
    BY DEF BatchCopies
  <1>1. TypeOK /\ CountInv /\ Working /\ exit = BatchExit
    BY DEF IInv, CountInv, Working
  <1>2. errors = <<>> /\ item = Len(Plan)
    BY <1>1, BatchExitType DEF CountInv
  <1>3. Moved = Len(Plan) /\ DOMAIN Plan = 1 .. Len(Plan)
    BY <1>1, <1>2, MovedIs, PlanFacts DEF TypeOK
  <1> QED  BY <1>1, <1>2, <1>3 DEF IInv, CopiedInv

\* A batch does all of its plan when it exits with 0, and at no time anything else: no
\* other location changes, none before its turn, and what was transferred stays whole
\* (ExecuteCopyPlan, CopyWithOptions).
THEOREM FollowsPlan == Spec => []BatchFollowsPlan
  <1>1. IInv => OnlyPlannedChanges
    BY DEF IInv, PlannedInv, OnlyPlannedChanges
  <1>2. IInv => BatchFollowsPlan
    BY <1>1, SuccessCopies DEF BatchFollowsPlan
  <1> QED  BY <1>2, Invariance, PTL

\* A plan with as many landing files as transfers has no two sources of one basename.
LEMMA DistinctLandings ==
  ASSUME job \in Job, Cardinality(Landings) = Len(Plan)
  PROVE  Distinct
  <1> DEFINE n == Len(Plan)
             f == [k \in 1 .. n |-> Land[Plan[k].src]]
  <1>1. n \in Nat /\ DOMAIN Plan = 1 .. n
    BY PlanFacts
  <1> HIDE DEF n
  <1>2. IsFiniteSet(1 .. n) /\ Cardinality(1 .. n) = n
    <2>1. 1 \in Int /\ n \in Int
      BY <1>1
    <2>2. Cardinality(1 .. n) = IF 1 > n THEN 0 ELSE n - 1 + 1
      BY <2>1, FS_Interval
    <2> QED  BY <1>1, <2>1, <2>2, FS_Interval
  <1> USE DEF n
  <1>3. f \in Surjection(1 .. n, Landings)
    <2>1. Landings = {Land[Plan[k].src] : k \in 1 .. n}
      BY <1>1 DEF Landings, Sources
    <2> QED  BY <2>1 DEF Surjection
  <1>4. IsFiniteSet(Landings)
    BY <1>2, <1>3, FS_Surjection
  <1>5. f \in Injection(1 .. n, Landings)
    BY <1>2, <1>3, <1>4, FS_SurjSameCardinalityImpliesInj
  <1> QED  BY <1>1, <1>5 DEF Injection, IsInjective, Distinct

\* The landing directory is left as the flags say: without --keep-landing no landing
\* file of the batch remains, and with it those of a success are the copies (copy.go,
\* the deferred removal).
THEOREM LandingKept == Spec => []LandingManaged
  <1>1. ASSUME IInv, pc = "done"
        PROVE  /\ ~job.keepLanding => \A l \in Landings \ Targets : file[l] \in {None, Start[l]}
               /\ job.keepLanding /\ exit = 0 /\ Apart /\ Cardinality(Landings) = Len(Plan) =>
                    \A k \in DOMAIN Plan : file[Land[Plan[k].src]] = file[Plan[k].dst]
    <2>1. TypeOK /\ CountInv /\ Working /\ exit = BatchExit /\ job \in Job
      BY <1>1 DEF IInv, CountInv, Working, TypeOK
    <2>2. ~job.keepLanding => \A l \in Landings \ Targets : file[l] \in {None, Start[l]}
      BY <1>1, <2>1 DEF IInv, RemovedInv
    <2>3. ASSUME job.keepLanding, exit = 0, Apart, Cardinality(Landings) = Len(Plan)
          PROVE  \A k \in DOMAIN Plan : file[Land[Plan[k].src]] = file[Plan[k].dst]
      <3>1. errors = <<>> /\ item = Len(Plan)
        BY <1>1, <2>1, <2>3, BatchExitType DEF CountInv
      <3>2. Moved = Len(Plan) /\ DOMAIN Plan = 1 .. Len(Plan)
        BY <1>1, <2>1, <3>1, MovedIs, PlanFacts
      <3>3. Distinct
        BY <2>1, <2>3, DistinctLandings
      <3> QED  BY <1>1, <2>1, <2>3, <3>1, <3>2, <3>3 DEF IInv, KeptInv
    <2> QED  BY <2>2, <2>3
  <1>2. IInv => LandingManaged
    BY <1>1 DEF LandingManaged
  <1> QED  BY <1>2, Invariance, PTL
==============================================================================
