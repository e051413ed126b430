----------------------------- MODULE MCCaptions -----------------------------
(* Captions of an English speaker, offered in Hindi to him and a colleague. *)
EXTENDS Captions, TLC

CONSTANTS p, q, en, hi
MCSpeaks == (p :> en) @@ (q :> hi)
=============================================================================
