------------------------------- MODULE Writer -------------------------------
(***************************************************************************)
(* TaskWriter (kernel/src/graphics/writer.rs): how the calls of one task   *)
(* become drawing commands.  Characters that follow each other on a line   *)
(* wait in pending_text and become one DrawString; a line that is full     *)
(* wraps, and a region that is full is cleared.                            *)
(*                                                                         *)
(* A writer is a record and each method an operator on it: the writer is   *)
(* its task's own, and only flush touches shared state (module             *)
(* Compositor's FlushLock and FlushExtend).  `sent' is all that flush has  *)
(* handed over.  Text is a sequence of bytes, 0 .. 255.                    *)
(***************************************************************************)
EXTENDS Integers, Sequences, SequencesExt

CONSTANTS WriterRegions,   \* sizes of the regions
          WriterCalls,     \* calls a task may make
          MaxCalls         \* bound on the calls of a program

Bytes == 0 .. 255

\* Coordinates and colours are u32.
ASSUME WriterAssumption ==
  /\ WriterRegions \subseteq [width : Nat, height : Nat]
  /\ MaxCalls \in Nat
  /\ \A call \in WriterCalls :
       \/ call.op = "write" /\ call.text \in Seq(Bytes)
       \/ call.op \in {"clear", "set_color"} /\ call.color \in Nat
       \/ call.op = "set_position" /\ call.x \in Nat /\ call.y \in Nat
       \/ call.op = "flush"

CharSize == 8      \* width and height of a glyph
LinePitch == 10
Newline == 10

NewWriter(region, color) ==
  [region |-> region, local_commands |-> <<>>, sent |-> <<>>,
   cursor_x |-> 0, cursor_y |-> 0, color |-> color,
   pending_text |-> <<>>, pending_x |-> 0, pending_y |-> 0]

\* One record type for both commands; a Clear has no place and no text.
ClearCommand(color) ==
  [kind |-> "Clear", x |-> 0, y |-> 0, text |-> <<>>, color |-> color]
DrawStringCommand(x, y, text, color) ==
  [kind |-> "DrawString", x |-> x, y |-> y, text |-> text, color |-> color]

push(w, cmd) == [w EXCEPT !.local_commands = Append(@, cmd)]

commit_pending_text(w) ==
  IF w.pending_text = <<>> THEN w
  ELSE [push(w, DrawStringCommand(w.pending_x, w.pending_y, w.pending_text, w.color))
          EXCEPT !.pending_text = <<>>]

set_position(w, x, y) == [w EXCEPT !.cursor_x = x, !.cursor_y = y]
set_color(w, color) == [w EXCEPT !.color = color]

clear(w, bg_color) ==
  [push(commit_pending_text(w), ClearCommand(bg_color)) EXCEPT !.cursor_x = 0, !.cursor_y = 0]

flush(w) ==
  LET c == commit_pending_text(w)
  IN  [c EXCEPT !.sent = @ \o c.local_commands, !.local_commands = <<>>]

-----------------------------------------------------------------------------
(* write_str, byte by byte *)

NextLine(w) == [w EXCEPT !.cursor_x = 0, !.cursor_y = @ + LinePitch]

\* Mutant: the last glyph of a line may hang over the edge.
LineFull_OffByOne(w) == w.cursor_x >= w.region.width

LineFull(w) == w.cursor_x + CharSize > w.region.width

RegionFull(w) == w.cursor_y + CharSize > w.region.height

\* Mutant: a line that wraps is not committed.
Wrap_NoCommit(w) == IF LineFull(w) THEN NextLine(w) ELSE w

Wrap(w) == IF LineFull(w) THEN NextLine(commit_pending_text(w)) ELSE w

\* The column is kept.
StartOver(w) ==
  IF RegionFull(w)
  THEN [push(commit_pending_text(w), ClearCommand(0)) EXCEPT !.cursor_y = 0]
  ELSE w

\* pending_text.push(ch as char): the byte is taken for the character of that
\* number, which a String holds in UTF-8, in two bytes from 128 on.
Utf8(ch) == IF ch < 128 THEN <<ch>> ELSE <<192 + ch \div 64, 128 + (ch % 64)>>

\* The place of the text is that of its first character.  The cursor moves by one
\* glyph, however many bytes are pushed.
Accumulate(w, ch) ==
  LET first == w.pending_text = <<>>
  IN  [w EXCEPT !.pending_x = IF first THEN w.cursor_x ELSE @,
                !.pending_y = IF first THEN w.cursor_y ELSE @,
                !.pending_text = @ \o Utf8(ch),
                !.cursor_x = @ + CharSize]

write_byte(w, ch) ==
  IF ch = Newline THEN NextLine(commit_pending_text(w))
  ELSE Accumulate(StartOver(Wrap(w)), ch)

write_str(w, s) == FoldLeft(write_byte, w, s)

-----------------------------------------------------------------------------
(* Programs: what a task may call, one call after another *)

Programs == UNION {[1 .. n -> WriterCalls] : n \in 0 .. MaxCalls}

Call(w, call) ==
  CASE call.op = "write" -> write_str(w, call.text)
    [] call.op = "clear" -> clear(w, call.color)
    [] call.op = "set_color" -> set_color(w, call.color)
    [] call.op = "set_position" -> set_position(w, call.x, call.y)
    [] call.op = "flush" -> flush(w)

Run(w, program) == FoldLeft(Call, w, program)

\* What commands draw: draw_string draws one glyph for each UTF-8 byte.
GlyphsOf(cmd) ==
  IF cmd.kind = "Clear" THEN <<cmd>>
  ELSE [k \in 1 .. Len(cmd.text) |->
         DrawStringCommand(cmd.x + (k - 1) * CharSize, cmd.y, <<cmd.text[k]>>, cmd.color)]

Glyphs(cmds) == FlattenSeq([i \in 1 .. Len(cmds) |-> GlyphsOf(cmds[i])])

Drawn(w, program) == Glyphs(flush(Run(w, program)).sent)

\* Reference: the same program, everything flushed before every byte and every call.
Byte(w, ch) == flush(write_byte(flush(w), ch))

UnbatchedCall(w, call) ==
  IF call.op = "write" THEN FoldLeft(Byte, w, call.text) ELSE flush(Call(w, call))

Unbatched(w, program) == Glyphs(FoldLeft(UnbatchedCall, w, program).sent)

\* The calls of these kinds find no text waiting.
NoneWaits(ops, w, program) ==
  \A i \in 1 .. Len(program) :
    program[i].op \in ops => Run(w, SubSeq(program, 1, i - 1)).pending_text = <<>>

\* What writer.rs:205 takes for granted: the text is ASCII.
Ascii(call) == call.op = "write" => \A k \in DOMAIN call.text : call.text[k] < 128
AsciiOnly(program) == \A i \in DOMAIN program : Ascii(program[i])

-----------------------------------------------------------------------------
(* What a registered writer promises, in every region and for every program *)

\* A program whose text is ASCII draws what it would draw if every byte were drawn
\* at once, unless colour or position is changed while text waits.
Batches ==
  \A r \in WriterRegions, p \in Programs :
    LET w == NewWriter(r, 3)
    IN  AsciiOnly(p) /\ NoneWaits({"set_color", "set_position"}, w, p)
          => Drawn(w, p) = Unbatched(w, p)

Inside(cmd, r) == cmd.x + CharSize <= r.width /\ cmd.y + CharSize <= r.height

\* Where a glyph has room, no glyph of ASCII text leaves the region, unless the
\* position is changed while text waits.
StaysInside ==
  \A r \in WriterRegions, p \in Programs :
    LET w == NewWriter(r, 3)
        glyphs == Drawn(w, p)
    IN  /\ r.width >= CharSize /\ r.height >= CharSize
        /\ AsciiOnly(p) /\ NoneWaits({"set_position"}, w, p)
        => \A i \in 1 .. Len(glyphs) : glyphs[i].kind = "DrawString" => Inside(glyphs[i], r)

=============================================================================
