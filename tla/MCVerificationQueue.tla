------------------------- MODULE MCVerificationQueue -------------------------
(***************************************************************************)
(* The instance of VerificationQueue for TLC: one job more than the queue, *)
(* its worker and a refused caller need, and a memory of exactly           *)
(* 2 * Size + Workers - 1 jobs.                                            *)
(***************************************************************************)
EXTENDS VerificationQueue

FourJobs == {"j1", "j2", "j3", "j4"}
ExactMemory == 2 * Size + Workers - 1
==============================================================================
