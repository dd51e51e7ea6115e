------------------------------ MODULE MCApproval ------------------------------
(* Approval for TLC: two risky calls and one confirm call; a line has one piece *)
(* or two.                                                                      *)
EXTENDS Approval

CONSTANTS bash, edit, confirm

MCRisky == {bash, edit}
MCConfirms == {confirm}
MCRests == {<< >>, <<TRUE>>, <<FALSE>>}
MCShortLines == {<< >>}
=============================================================================
