----------------------------- MODULE MCCopyBatch -----------------------------
(* Instances of CopyBatch for TLC. *)
EXTENDS CopyBatch

CONSTANTS g1, g2, z1, p1, p2, l1, l2

\* A GCS and an Azure object, local files, and the two landing paths; p1 and g1
\* share a basename with l1, the others with l2.
LandOf == [l \in {g1, g2, z1, p1, p2, l1, l2} |-> IF l \in {g1, p1, l1} THEN l1 ELSE l2]

Transfers(locs) == {t \in [src : locs, dst : locs] : t.src # t.dst}
Plans(locs) == {<<t>> : t \in Transfers(locs)} \cup (Transfers(locs) \X Transfers(locs))

Jobs(plans, thereSet, keepSet) ==
  {[plan |-> p, keepLanding |-> k, continueOnError |-> c, there |-> t] :
     p \in plans, k \in keepSet, c \in BOOLEAN, t \in thereSet}

\* Chains and swaps are among the plans of two transfers; a landing file or a
\* destination may be left from before, a source may be missing.
ApartJobs ==
  Jobs(Plans({g1, z1, p2}), {{g1, z1, p2}, {g1, p2, l1}}, BOOLEAN)
  \cup Jobs({<<>>}, {{}}, {FALSE})

\* A plan of three, on a failing middle.
ThreeJobs ==
  Jobs({<<[src |-> g1, dst |-> p1], [src |-> z1, dst |-> p2], [src |-> p1, dst |-> g2]>>},
       {{g1, z1}}, BOOLEAN)

\* The second destination is the landing path of the first transfer.
ClashJobs ==
  Jobs({<<[src |-> g1, dst |-> p1], [src |-> z1, dst |-> l1]>>}, {{g1, z1}}, BOOLEAN)

AllJobs == ApartJobs \cup ThreeJobs \cup ClashJobs

\* The landing directory is the working directory.
SourceInLanding == Jobs({<<[src |-> l1, dst |-> g2]>>}, {{l1}}, {FALSE})
BatchJobs == Jobs({<<[src |-> g1, dst |-> p1], [src |-> z1, dst |-> p2]>>}, {{g1, z1}}, {FALSE})
==============================================================================
