---------------------------- MODULE MCFtpSession ----------------------------
(* FtpSession for model checking: sessions are interchangeable, and so are *)
(* names when no file exists at first; REST is given a position in the     *)
(* file or one before its beginning.                                       *)
EXTENDS FtpSession, TLC

FullSymmetry == Permutations(Sessions) \union Permutations(Names)

MCPositions == {-1, 1}
=============================================================================
