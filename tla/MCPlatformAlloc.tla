----------------------------- MODULE MCPlatformAlloc -----------------------------
(***************************************************************************)
(* PlatformAlloc on a machine of 6-bit addresses with pointers of two      *)
(* bytes and malloc aligning to four: layouts below and above malloc's own *)
(* alignment, one alignment that is no power of two, and sizes up to the   *)
(* last that size_t can hold, where the padding overflows.                 *)
(***************************************************************************)
EXTENDS PlatformAlloc

MCSizes  == {0, 1, 5, 19, 56, Memory - 1}
MCAligns == {1, MaxAlign, 6, 2 * MaxAlign, 4 * MaxAlign}
=============================================================================
