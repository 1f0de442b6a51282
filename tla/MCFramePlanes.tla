---------------------------- MODULE MCFramePlanes ----------------------------
(***************************************************************************)
(* FramePlanes on a machine of 4-bit ints and an 8-bit size_t.  Every      *)
(* frame of up to four by four pixels is covered whose buffer fits the     *)
(* 4-bit byte count, with the invalid sizes and strides around zero, the   *)
(* largest stride, and the widths whose double leaves the range of int.    *)
(***************************************************************************)
EXTENDS FramePlanes

SmallDims    == {-1, 0, 1, 2, 3, 4}
SmallStrides == {-1, 0, 1, 2, 3, 4, 7}
SmallLengths == 0 .. 15
=============================================================================
