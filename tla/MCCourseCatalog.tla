-------------------------- MODULE MCCourseCatalog ---------------------------
(***************************************************************************)
(* A small instance of CourseCatalog for TLC.                              *)
(***************************************************************************)
EXTENDS CourseCatalog, TLC

CONSTANTS r1, r2, web, excel, v1, v2, general, office, spare

\* One course with a video is on sale; a second may be created.
WebOnSale == web :> [status |-> "published", slug |-> <<"title", 1>>, category |-> general]
             @@ excel :> None
WebHasVideo == v1 :> web @@ v2 :> None

RequestSymmetry == Permutations(Requests)
=============================================================================
