------------------------------ MODULE LspCode ------------------------------
(***************************************************************************)
(* The calls the example programs of src/LSP are written with, as module   *)
(* Unix carries them out.  Text that only differs in its wording is a      *)
(* name; a value that is shown is named after it.                          *)
(***************************************************************************)
EXTENDS Integers, Sequences, SequencesExt

Puts(text) == <<"print", text, "">>
Show(text, v) == <<"print", text, v>>
Part(text) == <<"part", text, "">>
ShowPart(text, v) == <<"part", text, v>>
Write(text) == <<"write", text, "">>
If(v, n, block) == <<"if", v, n, block>>
Goto(block) == <<"goto", block>>
Set(v, n) == <<"set", v, n>>
Save(v, of) == <<"save", v, of>>
Signal(s, h) == <<"signal", s, h>>
Sigaction(s, h, mask) == <<"sigaction", s, h, {mask}, {{}}>>
Fork == <<"fork">>
Exec(file) == <<"exec", file>>
Wait == <<"wait">>
Sleep == <<"sleep">>
Pause == <<"pause">>
Return == <<"return">>
Exit(n) == <<"exit", n>>

(* A message on stderr and exit(1).                                        *)
Fails(text) == <<Write(text), Exit(1)>>

(* Fork, with the block of the child and that of a failure.                *)
ForkTo(child, failed) == <<Fork, If("r", -1, failed), If("r", 0, child)>>
=============================================================================
