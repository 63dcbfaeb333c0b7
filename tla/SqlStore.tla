------------------------------- MODULE SqlStore -----------------------------
(***************************************************************************)
(* What the database promises its clients, statement by statement: every   *)
(* statement takes place at once.  It succeeds with its effect on the whole *)
(* table or fails without one, except an UPDATE that fails half way, and   *)
(* ROLLBACK goes back to what the transaction began with, unless such an   *)
(* UPDATE, a DROP TABLE or a DROP INDEX broke it.                          *)
(*                                                                         *)
(* A table is what clients see of it (Views).                              *)
(***************************************************************************)
EXTENDS Views

CONSTANT Stmts  \* the statements, as in Engine

VARIABLES
  db,      \* the tables, by name
  saved,   \* what they were when the transaction began (now, if none is open)
  open,    \* a transaction is open
  broken   \* ... and cannot be rolled back any more

Init ==
  /\ db = [t \in {} |-> 0] /\ saved = db
  /\ open = FALSE /\ broken = FALSE

-----------------------------------------------------------------------------

\* Table `t` becomes `table`; nothing else changes.
Becomes(t, table) ==
  /\ Sound(table)
  /\ db' = [n \in DOMAIN db \cup {t} |-> IF n = t THEN table ELSE db[n]]

\* The statement is of a table and of columns that are there.
Names(s, columns) == s.t \in DOMAIN db /\ columns \subseteq db[s.t].schema.cols

CreatesTable(s) ==
  /\ s.op = "CreateTable" /\ s.t \notin DOMAIN db
  /\ Becomes(s.t, [schema |-> s.schema, rows |-> [r \in {} |-> 0], idx |-> [i \in {} |-> 0]])

CreatesIndex(s) ==
  /\ s.op = "CreateIndex" /\ Names(s, {s.c}) /\ s.i \notin DOMAIN db[s.t].idx
  /\ Becomes(s.t, [db[s.t] EXCEPT !.idx =
       [i \in DOMAIN @ \cup {s.i} |-> IF i = s.i THEN <<s.c, s.unique>> ELSE @[i]]])

\* The new row has an id no other row has, and no other property of it matters.
Inserts(s) ==
  /\ s.op = "Insert" /\ s.t \in DOMAIN db \cap DOMAIN db'
  /\ \E r \in DOMAIN db'[s.t].rows \ DOMAIN db[s.t].rows :
       Becomes(s.t, [db[s.t] EXCEPT !.rows =
         [q \in DOMAIN @ \cup {r} |-> IF q = r THEN s.row ELSE @[q]]])

\* All the rows at once: it is enough that the table is sound in the end.
Updates(s) ==
  /\ s.op = "Update" /\ Names(s, DOMAIN s.set \cup DOMAIN s.where)
  /\ Becomes(s.t, Assign(db[s.t], Chosen(db[s.t], s.where), s.set))

Deletes(s) ==
  /\ s.op = "Delete" /\ Names(s, DOMAIN s.where)
  /\ Becomes(s.t, [db[s.t] EXCEPT !.rows = Restrict(@, DOMAIN @ \ Chosen(db[s.t], s.where))])

\* An UPDATE that would leave the table unsound may change some of its rows.
UpdatesPartly(s) ==
  /\ s.op = "Update" /\ Names(s, DOMAIN s.set \cup DOMAIN s.where)
  /\ LET chosen == Chosen(db[s.t], s.where) IN
     /\ ~Sound(Assign(db[s.t], chosen, s.set))
     /\ \E rs \in SUBSET chosen : Becomes(s.t, Assign(db[s.t], rs, s.set))

DropsTable(s) ==
  /\ s.op = "DropTable" /\ s.t \in DOMAIN db
  /\ db' = Restrict(db, DOMAIN db \ {s.t})

\* The name of an index does not say of which table it is.
DropsIndex(s) ==
  /\ s.op = "DropIndex"
  /\ \E t \in {n \in DOMAIN db : s.i \in DOMAIN db[n].idx} :
       Becomes(t, [db[t] EXCEPT !.idx = Restrict(@, DOMAIN @ \ {s.i})])

Changes(s) ==
  /\ \/ /\ CreatesTable(s) \/ CreatesIndex(s) \/ Inserts(s) \/ Updates(s) \/ Deletes(s)
        /\ UNCHANGED broken
     \/ /\ UpdatesPartly(s) \/ DropsTable(s) \/ DropsIndex(s)
        /\ broken' = open
  /\ UNCHANGED open

Begins == ~open /\ open' /\ UNCHANGED <<db, broken>>

Commits == open /\ ~open' /\ ~broken' /\ UNCHANGED db

\* The rest of a broken transaction is undone as far as it can be.
RollsBack ==
  /\ open /\ ~open' /\ ~broken'
  /\ ~broken => db' = saved
  /\ \A t \in DOMAIN db' : Sound(db'[t])

Next ==
  /\ Begins \/ Commits \/ RollsBack \/ \E s \in Stmts : Changes(s)
  /\ saved' = IF open /\ open' THEN saved ELSE db'

Spec == Init /\ [][Next]_<<db, saved, open, broken>>

=============================================================================
