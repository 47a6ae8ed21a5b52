------------------------ MODULE MCCandidateWorkflow ------------------------
(* Instances of CandidateWorkflow for TLC: the library is a set of pairs of  *)
(* model values, which a configuration cannot write down itself.             *)
EXTENDS CandidateWorkflow, TLC

CONSTANTS m1, m2, hd, uhd

OneMovieTwoVersions == {<<m1, hd>>, <<m1, uhd>>}
TwoMovies == {<<m1, hd>>, <<m1, uhd>>, <<m2, hd>>}

\* The two versions of the one movie are interchangeable.
VersionSymmetry == Permutations({hd, uhd})

=============================================================================
