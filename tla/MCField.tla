------------------------------ MODULE MCField ------------------------------
(* Field with a triple-size UID and a few disturbed frames.                *)
EXTENDS Field

MCUid == <<1, 2, 3, 4, 5, 6, 7, 8, 9, 10>>

MCLimits == DefaultLimits(4096)

AnyKind == FrameKind
=============================================================================
