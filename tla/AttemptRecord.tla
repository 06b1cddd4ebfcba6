--------------------------- MODULE AttemptRecord ---------------------------
(***************************************************************************)
(* What the audit trail promises of the record of every attempt: it is     *)
(* opened without a verdict, is given one, and stands.  A refusal closes   *)
(* it and names a reason; a success stays open until the session is over   *)
(* and never has a reason.  Nothing reopens a record, and a success is     *)
(* taken back only where the database refused one of its commands.         *)
(***************************************************************************)
CONSTANTS
    Conns,     \* connections, each an attempt
    Refusing   \* those whose commands the database may refuse

VARIABLE row   \* by connection: its record

Row(stage, success, blamed) == [stage |-> stage, success |-> success, blamed |-> blamed]

NoRow   == Row("none", FALSE, FALSE)
Opened  == Row("open", FALSE, FALSE)
Granted == Row("open", TRUE, FALSE)
Closed  == Row("ended", TRUE, FALSE)
Refused == Row("ended", FALSE, TRUE)

Init == row = [c \in Conns |-> NoRow]

Becomes(c, from, to) == row[c] = from /\ row' = [row EXCEPT ![c] = to]

Open(c)    == Becomes(c, NoRow, Opened)
Grant(c)   == Becomes(c, Opened, Granted)
Refuse(c)  == Becomes(c, Opened, Refused)
Close(c)   == Becomes(c, Granted, Closed)
Retract(c) == c \in Refusing /\ Becomes(c, Granted, Refused)

Next == \E c \in Conns : Open(c) \/ Grant(c) \/ Refuse(c) \/ Close(c) \/ Retract(c)

Spec == Init /\ [][Next]_row

=============================================================================
