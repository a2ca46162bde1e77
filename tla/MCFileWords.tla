---------------------------- MODULE MCFileWords ----------------------------
(***************************************************************************)
(* Instances of FileWords for TLC: what may fail, and what programs do.    *)
(***************************************************************************)
EXTENDS FileWords, TLC

Calls == {"open", "size", "read", "write", "close", "next"}

\* Every call but those whose failure the word does not report or survive.
Handled ==
  ((DOMAIN Words) \X Calls)
    \ ({<<w, "read">> : w \in {"bload", "vload"}}
       \cup {<<"bsave", "close">>, <<"vsave", "close">>, <<"dir", "next">>})

BloadRead == {<<"bload", "read">>}

LastOnLine == {}

Sym == Permutations(Handles) \cup Permutations(Files)
===========================================================================
