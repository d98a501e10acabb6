-------------------------- MODULE MCEschIdentifier --------------------------
(* An instance of EschIdentifier for TLC.  A character at either end of     *)
(* every range of every table and next to it, alone and after a letter, and *)
(* all short strings over a few characters of each sort.                    *)
EXTENDS EschIdentifier, TLC, Functions

\* The characters at the ends of the ranges and just outside.
MCEdges(cats) ==
  UNION {{l - 1 : l \in Range(Tables[c][1])} \cup Range(Tables[c][1])
           \cup Range(Tables[c][2]) \cup {u + 1 : u \in Range(Tables[c][2])}
         : c \in cats}

\* ( 9 A del, a superscript two, a Hebrew letter, a private character and one
\* that has no category.
MCChars == {\h28, \h39, \h41, \h7F, \hB2, \h5D0, \hE000, \h378}

MCInputs ==
  {NoString, <<>>}
    \cup {<<c>> : c \in 1 .. 126 \cup MCEdges({"nd", "nl", "no"})}
    \cup {<<\h41, c>> : c \in 1 .. 126 \cup MCEdges(Categories)}
    \cup (MCChars \X MCChars) \cup (MCChars \X MCChars \X MCChars)
=============================================================================
