---------------------------- MODULE Definitions ----------------------------
(***************************************************************************)
(* What a Kaleidoscope session promises about function definitions,        *)
(* whatever its mode: an environment of names and their code that is       *)
(* write-once, and a reply to the user that says "def" exactly when the    *)
(* environment has just grown.  Module Session is shown to implement it.   *)
(***************************************************************************)
CONSTANTS Named,      \* the names a definition can have
          Replies     \* the messages a session prints, "def" among them

VARIABLES accepted,   \* the code of every name whose definition is in force
          reply,      \* the last message printed
          alive       \* the process has not ended

vars == <<accepted, reply, alive>>

Init == /\ accepted = <<>>
        /\ reply = "none"
        /\ alive = TRUE

\* A definition comes into force and the user is told so.  The code of the
\* others stays what it is.
Accept(n) == /\ alive
             /\ n \notin DOMAIN accepted
             /\ DOMAIN accepted' = DOMAIN accepted \cup {n}
             /\ \A m \in DOMAIN accepted : accepted'[m] = accepted[m]
             /\ reply' = "def"
             /\ UNCHANGED alive

\* Any other answer leaves every definition as it was.
Answer(r) == /\ alive
             /\ r # "def"
             /\ reply' = r
             /\ alive' \in BOOLEAN
             /\ UNCHANGED accepted

\* The end of the input.
Leave == /\ alive
         /\ alive' = FALSE
         /\ UNCHANGED <<accepted, reply>>

Next == \/ \E n \in Named : Accept(n)
        \/ \E r \in Replies : Answer(r)
        \/ Leave

Spec == Init /\ [][Next]_vars
=============================================================================
