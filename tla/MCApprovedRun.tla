---------------------------- MODULE MCApprovedRun ----------------------------
(* ApprovedRun on a small instance: two directories, two commits, two tasks *)
(* that may run, one with a command the policy denies and one whose         *)
(* delegation level is not supported.                                       *)
EXTENDS ApprovedRun

CONSTANTS p1, p2, c1, c2

\* With a secret among its arguments.
Test == [argv |-> <<"go", "test", "secret">>, timeout |-> 2]
Vet == [argv |-> <<"go", "vet">>, timeout |-> 1]
Push == [argv |-> <<"git", "push">>, timeout |-> 1]

Work(acceptance) ==
    [complete |-> TRUE, delegation |-> "execute_reversible", attempts |-> 1,
     seconds |-> 3, acceptance |-> acceptance]

MCWorks ==
    {Work(<<Vet>>), Work(<<Test, Vet>>), Work(<<Vet, Push>>),
     [Work(<<Vet>>) EXCEPT !.delegation = "approval_required"]}
==============================================================================
