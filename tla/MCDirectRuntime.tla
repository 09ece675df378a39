--------------------------- MODULE MCDirectRuntime ----------------------------
(* Two lanes and a window of two slides, starting at slide 1.  An event at *)
(* 2 moves the ring by one slide, one at 4 jumps over the whole ring (or   *)
(* slides it twice after a 2), a second event of a slide is current and a  *)
(* 2 after a 4 is late.                                                    *)
EXTENDS DirectRuntime

MCTs == {2, 4}
===============================================================================
