---------------------------- MODULE MCCompositor ----------------------------
(* Two writers on a screen of 2 by 2 pixels: w1 has the upper row, w2's region *)
(* reaches over the right edge.  One pixel belongs to nobody, and of w2's the  *)
(* boot messages have left one on the framebuffer.  Beside it, TaskWriter's    *)
(* programs in regions of one or two columns and one or two lines.             *)
EXTENDS Compositor, TLC

MCRegionOf == ("w1" :> [x |-> 0, y |-> 0, width |-> 2, height |-> 1])
           @@ ("w2" :> [x |-> 1, y |-> 1, width |-> 2, height |-> 1])

Clear(c) == [kind |-> "Clear", color |-> c]
FillRect(x, c) ==
  [kind |-> "FillRect", x |-> x, y |-> 0, width |-> 1, height |-> 1, color |-> c]
DrawString(glyphs, c) ==
  [kind |-> "DrawString", x |-> 0, y |-> 0, width |-> 2, height |-> 1,
   glyphs |-> glyphs, color |-> c]

MCCommandsOf == ("w1" :> {FillRect(1, 0), DrawString({<<0, 0>>, <<1, 0>>}, 1)})
             @@ ("w2" :> {Clear(1)})
MCBootScreen == [p \in Screen |-> IF p = <<1, 1>> THEN 7 ELSE 0]

MCWriterRegions == [width : {8, 19}, height : {8, 18}]
MCWriterCalls ==
  {[op |-> "write", text |-> <<97>>], [op |-> "write", text |-> <<97, 98, 97>>],
   [op |-> "write", text |-> <<97, Newline>>],
   [op |-> "write", text |-> <<195, 169>>],    \* a letter beyond ASCII
   [op |-> "clear", color |-> 1], [op |-> "set_color", color |-> 2],
   [op |-> "set_position", x |-> 8, y |-> 10], [op |-> "flush"]}
=============================================================================
