----------------------------- MODULE MCRecovery -----------------------------
(***************************************************************************)
(* Small instances of Recovery: up to three obligations of the classes that  *)
(* differ in how they are settled, listed in pages of one.                 *)
(***************************************************************************)
EXTENDS Recovery, TLC

WriteAndLaunch == [c \in {"business_write", "job_launch"} |-> IF c = "job_launch" THEN {1} ELSE {1, 2}]
OneOfEach == [c \in {"business_write", "job_launch"} |-> {1}]
TwoDispatches == [c \in {"dispatch"} |-> {1, 2}]
OneWrite == [c \in {"business_write"} |-> {1}]
OneLaunch == [c \in {"job_launch"} |-> {1}]
CorruptWrite == {<<"business_write", 2>>}
CorruptLaunch == {<<"job_launch", 1>>}

\* No worker is told from another.
WorkerSymmetry == Permutations(Workers)
=============================================================================
