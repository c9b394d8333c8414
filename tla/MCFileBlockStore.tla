--------------------------- MODULE MCFileBlockStore ---------------------------
(* The instance of FileBlockStore for TLC: blocks of two bytes. *)
EXTENDS FileBlockStore

CONSTANTS a, dot, t1, t2

Various == {<<>>, <<1>>, <<1, 1>>, <<2, 2>>, <<1, 1, 1>>}
===============================================================================
