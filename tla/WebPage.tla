------------------------------ MODULE WebPage -------------------------------
(***************************************************************************)
(* What the modules of the web front end share.  Each models the script of *)
(* one page: the state is what the page holds and shows and which of its   *)
(* requests are not answered yet; an action is one handler of the script,  *)
(* of a click, of a timer or of an answer.  Handlers run one at a time; the *)
(* answers of requests that are in flight come in any order.               *)
(***************************************************************************)
EXTENDS Naturals, Sequences, SequencesExt, FiniteSetsExt

CONSTANT None    \* nothing: null, undefined, an empty input

ASSUME NoneAssumption == None \notin Nat
=============================================================================
