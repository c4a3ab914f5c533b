---------------------------- MODULE MCSubmission ----------------------------
(***************************************************************************)
(* Instance of Submission for TLC: three items, one of them with two       *)
(* groups, one after the other.                                            *)
(***************************************************************************)
EXTENDS Submission

MCItems == 1 .. 3
MCGroupCount == <<1, 2, 1>>
=============================================================================
