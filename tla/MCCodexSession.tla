--------------------------- MODULE MCCodexSession ---------------------------
(* A chat that prompts, binds and responds, and another that responds with  *)
(* the id of a request that is not its own.                                 *)
EXTENDS CodexSession

Say(c, a) == [cmd |-> c, arg |-> a]

TheMenu ==
  [s \in Sessions |->
     IF s = 1
       THEN {Say("prompt", None), Say("new", None), Say("threads", None),
             Say("answer", None)}
            \cup {Say("allow", a) : a \in Requests \cup {None}}
            \cup {Say("bind", t) : t \in Others}
            \cup {Say("pick", t) : t \in Others}
       ELSE {Say("allow", r) : r \in Requests}]
=============================================================================
