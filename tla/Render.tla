------------------------------- MODULE Render -------------------------------
(***************************************************************************)
(* Drawing into a frame buffer (libk/render.c): render_put_image,          *)
(* render_blend_image and render_rect clip the image against the buffer,   *)
(* each axis for itself, and then go over a rectangle of the flat pixel    *)
(* array row by row.  Colours are left out: a call is judged by the pixels *)
(* it writes and by the pixels of the image they come from.                *)
(***************************************************************************)
EXTENDS Integers

CONSTANTS
    Width, Height,   \* of the frame buffer
    Places,          \* x and y of the calls
    Sizes            \* w and h of the calls

ASSUME BufferAssumption ==
    /\ Width \in Nat
    /\ Height \in Nat
    /\ Places \subseteq Int
    /\ Sizes \subseteq Nat

VARIABLES
    call,   \* the last call: x, y, w, h
    px      \* what it wrote: pairs of an index of px_data and an index of the image

drawvars == <<call, px>>

DrawInit ==
    /\ call = [x |-> 0, y |-> 0, w |-> 0, h |-> 0]
    /\ px = {}

(* x > fb->width || x + w < 0: outside altogether.                         *)
Outside(x, w, width) == x > width \/ x + w < 0

(* Mutant: the right edge is found with the place before it was moved. *)
ClipOldPlace(x, w, width) ==
    LET uv == IF x < 0 THEN -x ELSE 0
    IN  [at |-> x, from |-> uv, n |-> (w - uv) + (IF x + w > width THEN width - (x + w) ELSE 0)]

(* One axis of CHECK_IMAGE_BOUNDS: at is x after it was moved to the edge, *)
(* from is uv_x and n is uv_w.                                             *)
Clip(x, w, width) ==
    LET uv == IF x < 0 THEN -x ELSE 0
        x0 == IF x < 0 THEN 0 ELSE x
    IN  [at |-> x0, from |-> uv, n |-> (w - uv) + (IF x0 + w > width THEN width - (x0 + w) ELSE 0)]

(* The loops: vram_it goes on by a row of the buffer, img_it by a row of   *)
(* the image.                                                              *)
Rows(c, r, w) ==
    { << (c.at + Width * r.at) + Width * i + j, (r.from * w + c.from) + w * i + j >> :
          i \in 0 .. r.n - 1, j \in 0 .. c.n - 1 }

Draw(x, y, w, h) ==
    LET c == Clip(x, w, Width)
        r == Clip(y, h, Height)
        skipped == Outside(x, w, Width) \/ Outside(y, h, Height) \/ r.n <= 0 \/ c.n <= 0
    IN  /\ call' = [x |-> x, y |-> y, w |-> w, h |-> h]
        /\ px' = IF skipped THEN {} ELSE Rows(c, r, w)

DrawNext == \E x, y \in Places, w, h \in Sizes : Draw(x, y, w, h)

DrawSpec == DrawInit /\ [][DrawNext]_drawvars

-----------------------------------------------------------------------------
(* Properties.                                                             *)

(* The places of an image of size w that are inside when it begins at x.   *)
Seen(x, w, width) == { a \in 0 .. w - 1 : x + a \in 0 .. width - 1 }

(* The pixels of a call that are inside the buffer, with the pixels of the *)
(* image that belong there.                                                *)
Visible(x, y, w, h) ==
    { << x + a + Width * (y + b), a + w * b >> : a \in Seen(x, w, Width), b \in Seen(y, h, Height) }

(* Along an axis the image is seen whole by the clipping: it does not      *)
(* begin before an edge and is larger than the buffer as well.             *)
Ordinary(x, w, width) == x >= 0 \/ w <= width

(* No call (render.c, CHECK_IMAGE_BOUNDS) writes outside the buffer, reads *)
(* outside the image or lets a row run on into the next one, and every     *)
(* visible pixel is drawn, except of an image that is larger than the      *)
(* buffer and begins before its edge, which is drawn in part.              *)
DrawsVisible ==
    LET visible == Visible(call.x, call.y, call.w, call.h)
    IN  /\ px \subseteq visible
        /\ (Ordinary(call.x, call.w, Width) /\ Ordinary(call.y, call.h, Height)) => px = visible
=============================================================================
