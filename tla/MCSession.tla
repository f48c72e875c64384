----------------------------- MODULE MCSession ------------------------------
(* Two sizes and two resizes; a shell, a tool and a name that is a shell's text, *)
(* asked for in three ways; two things whose names have a letter in common.      *)
EXTENDS Session

CONSTANTS
  r1, r2  \* Repaint

\* What the process part is asked for, and what the command part may name.
Asked(tool, args, project, kind) ==
  [tool |-> tool, args |-> args, project |-> project, dir |-> [kind |-> kind, path |-> <<>>]]
MCRequests ==
  {Asked("shell", <<"ls">>, "none", "tilde"), Asked("claude", <<"-c", "go">>, "project", "tilde"),
   Asked("claude; rm", <<>>, "none", "relative")}
MCPlaces == {<<"home">>, <<"src">>}
MCProjectAt == [p \in {"project"} |-> <<"src">>]
\* An interactive shell ignores SIGTERM; its child may ignore whatever it can.
MCDeafness ==
  {[p \in {"shell", "child"} |-> IF p = "shell" THEN s ELSE c] :
     s \in {{}, {"TERM"}}, c \in {{}, {"TERM", "HUP"}}}
MCKnown ==
  <<[id |-> <<"a", "b">>, name |-> <<>>], [id |-> <<"b", "a">>, name |-> <<"a">>]>>
MCArguments == {<<"a">>, <<"b">>, <<>>}
=============================================================================
