------------------------------ MODULE MCSearch ------------------------------
(* Search for TLC: three names, a table of four files.                     *)
EXTENDS SearchMeaning, TLC

MCStrLen(p) == IF p = "b" THEN 4 ELSE 2

File(words, ext, size, mlength, mbitrate, rated_count) ==
  [words |-> words, ext |-> ext, size |-> size, mlength |-> mlength,
   mbitrate |-> mbitrate, rated_count |-> rated_count, mcodec |-> ""]

MCRows ==
  {File({<<"a">>}, "avi", 1, 1, 1, 1),
   File({<<"b">>}, "", 2, 0, 0, 0),
   File({<<"a">>, <<"b">>}, "avi", 3, 1, 0, 0),
   File({<<"a", "b">>}, "avi", 2, 0, 0, 1)}
=============================================================================
