--------------------------------- MODULE YUVImage ---------------------------------
(* The arithmetic of YUVImage (common.cpp, common.h): what a pixel becomes, and where *)
(* createFromQImage writes it.                                                        *)
EXTENDS Integers

Byte == 0 .. 255

(* cnvrgb2yuv; the shift of a negative number rounds down, as \div does. *)
y(r, g, b) == (66 * r + 129 * g + 25 * b + 128) \div 256 + 16
u(r, g, b) == (-38 * r - 74 * g + 112 * b + 128) \div 256 + 128
v(r, g, b) == (112 * r - 94 * g - 18 * b + 128) \div 256 + 128

(* createFromQImage on an image of w by h: the lengths of the planes, and the indices  *)
(* written for the pixel (2 * j + x, 2 * i + k), and for U and V, in iteration (i, j). *)
lY(w, h) == w * h
lU(w, h) == ((w \div 2) * h) \div 2

Rows(h) == 0 .. h \div 2 - 1
Columns(w) == 0 .. w \div 2 - 1
indexY(w, i, j, k, x) == (2 * i + k) * w + 2 * j + x
indexU(w, i, j) == (i * w) \div 2 + j
=============================================================================
