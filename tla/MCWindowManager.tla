-------------------------- MODULE MCWindowManager --------------------------
(***************************************************************************)
(* A small instance of WindowManager.  Three windows are enough for a      *)
(* fallback to choose between two candidates.  The assumption checks the   *)
(* index-based Maps!Without against Vec::retain on every list without      *)
(* repetition of up to four elements.                                      *)
(***************************************************************************)
EXTENDS WindowManager

Lists == UNION {{s \in [1 .. n -> 1 .. 4] : NoDup(s)} : n \in 0 .. 4}

ASSUME WithoutIsRetain ==
  \A s \in Lists, e \in 1 .. 5 :
    LET kept(x) == x # e IN Without(s, e) = SelectSeq(s, kept)
============================================================================
