--------------------------- MODULE MCPictureView ---------------------------
(* A plane may be one short of what it needs, exact, or padded. *)
EXTENDS PictureView

MCSlack == {-1, 0, 2}
=============================================================================
